---------------------------- MODULE MapperProofs ----------------------------
(***************************************************************************)
(* Proofs about module Mapper for any set of tool calls, whatever their    *)
(* ids are sanitized to, and for any number of updates in any order.       *)
(***************************************************************************)
EXTENDS Mapper, FiniteSetTheorems, WellFoundedInduction, TLAPS

-----------------------------------------------------------------------------
(***************************************************************************)
(* Numbers in order                                                        *)
(***************************************************************************)
\* How many of S there are up to n.
Rank(S, n) == Cardinality({m \in S : m <= n})

\* Every place in the order of S is taken.
Ranked(S) == \A k \in 1..Cardinality(S) : \E n \in S : Rank(S, n) = k

\* A set of numbers has a least one, and it is Min.
LEMMA LeastIsMin ==
  ASSUME NEW S \in SUBSET Nat, S # {}
  PROVE  Min(S) \in S /\ \A n \in S : Min(S) <= n
<1> DEFINE R == OpToRel(<, Nat)
<1>1. IsWellFoundedOn(R, Nat)
  BY NatLessThanWellFounded
<1>2. \A a, b \in Nat : <<a, b>> \in R <=> a < b
  BY DEF OpToRel
<1> HIDE DEF R
<1>3. PICK m \in S : \A k \in S : ~(<<k, m>> \in R)
  BY <1>1, WFMin
<1>4. ASSUME NEW k \in S PROVE m <= k
  <2>1. m \in Nat /\ k \in Nat /\ ~(k < m)
    BY <1>2, <1>3
  <2> QED BY <2>1
<1> QED BY <1>4 DEF Min

\* A set of numbers with a bound has a greatest one, and it is Max.
LEMMA GreatestIsMax ==
  ASSUME NEW S \in SUBSET Nat, S # {}, NEW N \in Nat, \A n \in S : n <= N
  PROVE  Max(S) \in S /\ \A n \in S : n <= Max(S)
<1> DEFINE Below == {N - n : n \in S}
<1>1. Below \in SUBSET Nat /\ Below # {}
  <2>1. \A n \in S : n \in Nat /\ N - n \in Nat
    OBVIOUS
  <2> QED BY <2>1
<1>2. PICK m \in Below : \A k \in Below : m <= k
  BY <1>1, LeastIsMin
<1>3. PICK x \in S : m = N - x
  BY <1>2
<1>4. ASSUME NEW n \in S PROVE x >= n
  <2>1. N - n \in Below /\ n \in Nat /\ x \in Nat
    OBVIOUS
  <2>2. N - x <= N - n
    BY <1>2, <1>3, <2>1
  <2> QED BY <2>1, <2>2
<1>5. Max(S) \in S /\ \A n \in S : Max(S) >= n
  BY <1>4 DEF Max
<1> QED BY <1>5

\* One that is below all others is Min.
LEMMA MinIs ==
  ASSUME NEW S \in SUBSET Nat, NEW m \in S, \A n \in S : m <= n
  PROVE  Min(S) = m
<1>1. Min(S) \in S /\ Min(S) <= m /\ m <= Min(S)
  BY LeastIsMin
<1>2. Min(S) \in Nat /\ m \in Nat
  BY <1>1
<1> QED BY <1>1, <1>2

\* A number above the others is Max, and Min stays.
LEMMA Topped ==
  ASSUME NEW N \in Nat, NEW S \in SUBSET Nat, \A n \in S : n < N
  PROVE  /\ Max(S \cup {N}) = N
         /\ S # {} => Min(S \cup {N}) = Min(S)
         /\ S = {} => Min(S \cup {N}) = N
<1> DEFINE T == S \cup {N}
<1>0. N \in T /\ T \in SUBSET Nat /\ \A n \in T : n \in Nat /\ N >= n
  OBVIOUS
<1>1. Max(T) = N
  <2> HIDE DEF T
  <2>1. Max(T) \in T /\ \A n \in T : Max(T) >= n
    BY <1>0 DEF Max
  <2>2. Max(T) \in Nat /\ Max(T) >= N /\ N >= Max(T)
    BY <1>0, <2>1
  <2> QED BY <2>2
<1>2. ASSUME S # {} PROVE Min(S \cup {N}) = Min(S)
  <2>1. Min(S) \in S /\ \A n \in S : Min(S) <= n
    BY <1>2, LeastIsMin
  <2>2. Min(S) \in Nat /\ Min(S) < N
    BY <2>1
  <2>3. \A n \in T : Min(S) <= n
    BY <2>1, <2>2
  <2> QED BY <1>0, <2>1, <2>3, MinIs
<1>3. ASSUME S = {} PROVE Min(S \cup {N}) = N
  BY <1>3, MinIs
<1> QED BY <1>1, <1>2, <1>3

\* The ranks of a finite set of numbers are different and within its size.
LEMMA Ranks ==
  ASSUME NEW S \in SUBSET Nat, IsFiniteSet(S)
  PROVE  /\ Cardinality(S) \in Nat
         /\ \A n \in S : Rank(S, n) \in 1..Cardinality(S)
         /\ \A m, n \in S : m < n => Rank(S, m) < Rank(S, n)
         /\ \A m, n \in S : Rank(S, m) = Rank(S, n) => m = n
<1> DEFINE Upto(n) == {m \in S : m <= n}
<1>1. Cardinality(S) \in Nat
  BY FS_CardinalityType
<1>2. ASSUME NEW n \in S
      PROVE  /\ IsFiniteSet(Upto(n)) /\ Cardinality(Upto(n)) \in Nat
             /\ Cardinality(Upto(n)) <= Cardinality(S) /\ Cardinality(Upto(n)) # 0
  <2>1. Upto(n) \in SUBSET S /\ n \in Upto(n)
    OBVIOUS
  <2>2. IsFiniteSet(Upto(n)) /\ Cardinality(Upto(n)) <= Cardinality(S)
    BY <2>1, FS_Subset
  <2>3. Upto(n) # {}
    BY <2>1
  <2> HIDE DEF Upto
  <2>4. Cardinality(Upto(n)) \in Nat /\ Cardinality(Upto(n)) # 0
    BY <2>2, <2>3, FS_CardinalityType, FS_EmptySet
  <2> QED BY <2>2, <2>4
<1>3. ASSUME NEW m \in S, NEW n \in S, m < n
      PROVE  Cardinality(Upto(m)) < Cardinality(Upto(n))
  <2>1. m \in Nat /\ n \in Nat /\ n \in Upto(n) /\ n \notin Upto(m)
    BY <1>3
  <2>2. ASSUME NEW k \in Upto(m) PROVE k \in Upto(n)
    <3>1. k \in Nat /\ k <= m /\ k \in S
      OBVIOUS
    <3> QED BY <1>3, <2>1, <3>1
  <2> HIDE DEF Upto
  <2>3. Upto(m) \in SUBSET Upto(n) /\ Upto(m) # Upto(n)
    BY <2>1, <2>2
  <2>4. /\ Cardinality(Upto(m)) <= Cardinality(Upto(n))
        /\ Cardinality(Upto(m)) # Cardinality(Upto(n))
    BY <1>2, <2>3, FS_Subset
  <2> QED BY <1>2, <2>4
<1>4. \A n \in S : Rank(S, n) = Cardinality(Upto(n))
  BY DEF Rank
<1> HIDE DEF Upto
<1>5. \A n \in S : Rank(S, n) \in 1..Cardinality(S)
  BY <1>1, <1>2, <1>4
<1>6. \A m, n \in S : m < n => Rank(S, m) < Rank(S, n)
  BY <1>3, <1>4
<1>7. \A m, n \in S : Rank(S, m) = Rank(S, n) => m = n
  <2> SUFFICES ASSUME NEW m \in S, NEW n \in S, Rank(S, m) = Rank(S, n), m # n
               PROVE  FALSE
    OBVIOUS
  <2>1. m < n \/ n < m
    OBVIOUS
  <2> QED BY <1>1, <1>5, <1>6, <2>1
<1> QED BY <1>1, <1>5, <1>6, <1>7

\* InOrder has each number at its rank.
LEMMA Orders ==
  ASSUME NEW S \in SUBSET Nat, IsFiniteSet(S), Ranked(S)
  PROVE  /\ DOMAIN InOrder(S) = 1..Cardinality(S)
         /\ \A k \in 1..Cardinality(S) : InOrder(S)[k] \in S /\ Rank(S, InOrder(S)[k]) = k
         /\ \A n \in S : InOrder(S)[Rank(S, n)] = n
<1>1. ASSUME NEW k \in 1..Cardinality(S)
      PROVE  InOrder(S)[k] \in S /\ Rank(S, InOrder(S)[k]) = k
  <2>1. InOrder(S)[k] = CHOOSE n \in S : Rank(S, n) = k
    BY DEF InOrder, Rank
  <2>2. \E n \in S : Rank(S, n) = k
    BY DEF Ranked
  <2> QED BY <2>1, <2>2
<1>2. ASSUME NEW n \in S PROVE InOrder(S)[Rank(S, n)] = n
  <2>1. Rank(S, n) \in 1..Cardinality(S)
    BY Ranks
  <2>2. /\ InOrder(S)[Rank(S, n)] \in S
        /\ Rank(S, InOrder(S)[Rank(S, n)]) = Rank(S, n)
    BY <1>1, <2>1
  <2>3. \A m \in S : Rank(S, m) = Rank(S, n) => m = n
    BY Ranks
  <2> QED BY <2>2, <2>3
<1> QED BY <1>1, <1>2 DEF InOrder

\* A number above the others comes last and moves none.
LEMMA OrderGrows ==
  ASSUME NEW N \in Nat, NEW S \in SUBSET Nat, IsFiniteSet(S), Ranked(S),
         \A n \in S : n < N
  PROVE  /\ IsFiniteSet(S \cup {N}) /\ Ranked(S \cup {N})
         /\ Cardinality(S \cup {N}) = Cardinality(S) + 1
         /\ \A n \in S : Rank(S \cup {N}, n) = Rank(S, n)
         /\ Rank(S \cup {N}, N) = Cardinality(S) + 1
         /\ \A k \in 1..Cardinality(S) : InOrder(S \cup {N})[k] = InOrder(S)[k]
         /\ InOrder(S \cup {N})[Cardinality(S) + 1] = N
<1> DEFINE T == S \cup {N}
<1>1. Cardinality(S) \in Nat
  BY FS_CardinalityType
<1>2. IsFiniteSet(T) /\ Cardinality(T) = Cardinality(S) + 1
  BY FS_AddElement
<1>3. ASSUME NEW n \in S PROVE Rank(T, n) = Rank(S, n)
  <2>1. {m \in T : m <= n} = {m \in S : m <= n}
    OBVIOUS
  <2> QED BY <2>1 DEF Rank
<1>4. Rank(T, N) = Cardinality(S) + 1
  <2>1. \A m \in T : m <= N
    OBVIOUS
  <2>2. {m \in T : m <= N} = T
    BY <2>1
  <2> QED BY <1>2, <2>2 DEF Rank
<1>5. N \in T /\ S \subseteq T /\ T \in SUBSET Nat
  OBVIOUS
<1> HIDE DEF T
<1>6. Ranked(T)
  <2> SUFFICES ASSUME NEW k \in 1..Cardinality(T) PROVE \E n \in T : Rank(T, n) = k
    BY DEF Ranked
  <2>1. CASE k = Cardinality(S) + 1
    BY <1>4, <1>5, <2>1
  <2>2. CASE k \in 1..Cardinality(S)
    BY <1>3, <1>5, <2>2 DEF Ranked
  <2> QED BY <1>1, <1>2, <2>1, <2>2
<1>7. \A n \in T : InOrder(T)[Rank(T, n)] = n
  BY <1>2, <1>5, <1>6, Orders
<1>8. ASSUME NEW k \in 1..Cardinality(S) PROVE InOrder(T)[k] = InOrder(S)[k]
  BY <1>3, <1>5, <1>7, Orders
<1>9. InOrder(T)[Cardinality(S) + 1] = N
  BY <1>4, <1>5, <1>7
<1> QED BY <1>2, <1>3, <1>4, <1>6, <1>8, <1>9 DEF T

-----------------------------------------------------------------------------
(***************************************************************************)
(* The invariant                                                           *)
(***************************************************************************)
\* Where the item that was first mentioned in the n-th update is.
Place(n) == 1 + Rank(Mentioned, n)

\* The mapper knows the place of each tool's item; the record has what the
\* mapper has, unless the turn was ended early.
MapInv ==
  /\ heard \in Seq(Update) /\ answered \in BOOLEAN
  /\ status \in {"inProgress", "completed", "ended"}
  /\ tools \in [Ids -> Nat]
  /\ \A id \in Ids : tools[id] = IF Opened(id) THEN Place(First(id)) ELSE 0
  /\ Ranked(Saying("chunk")) /\ Ranked(Mentioned)
  /\ ItemsAreWhatWasHeard
  /\ status # "ended" => wire = items
  /\ status = "completed" => answered

-----------------------------------------------------------------------------
(***************************************************************************)
(* Lists                                                                   *)
(***************************************************************************)
\* s has n elements.
IsList(s, n) == s = [k \in 1..n |-> s[k]]

\* One element before those of f, told place by place.
LEMMA Listing ==
  ASSUME NEW c \in Nat, NEW f, IsList(f, c), NEW s, NEW x
  PROVE  s = <<x>> \o f
           <=> IsList(s, c + 1) /\ s[1] = x /\ \A k \in 1..c : s[1 + k] = f[k]
<1> DEFINE g == <<x>> \o f
           V == {x} \cup {f[k] : k \in 1..c}
<1>1. f \in [1..c -> V] /\ x \in V
  BY DEF IsList
<1> HIDE DEF V
<1>2. f \in Seq(V) /\ Len(f) = c /\ <<x>> \in Seq(V) /\ Len(<<x>>) = 1 /\ <<x>>[1] = x
  BY <1>1
<1>3. /\ g \in Seq(V) /\ Len(g) = c + 1 /\ g[1] = x
      /\ \A k \in 1..c : g[1 + k] = f[k]
  BY <1>2
<1>4. g = [k \in 1..(c + 1) |-> g[k]]
  <2> HIDE DEF g
  <2>1. DOMAIN g = 1..(c + 1)
    BY <1>3
  <2> QED BY <1>3, <2>1
<1> HIDE DEF g
<1>5. ASSUME IsList(s, c + 1), s[1] = x, \A k \in 1..c : s[1 + k] = f[k]
      PROVE  s = g
  <2>1. ASSUME NEW k \in 1..(c + 1) PROVE s[k] = g[k]
    <3>1. CASE k = 1
      BY <1>3, <1>5, <3>1
    <3>2. CASE k # 1
      <4>1. PICK j \in 1..c : k = 1 + j
        <5>1. k - 1 \in 1..c /\ k = 1 + (k - 1)
          BY <3>2
        <5> QED BY <5>1
      <4> QED BY <1>3, <1>5, <4>1
    <3> QED BY <3>1, <3>2
  <2> QED BY <1>4, <1>5, <2>1 DEF IsList
<1> QED BY <1>3, <1>4, <1>5 DEF g, IsList

\* A list told place by place, with one more.
LEMMA Lengthened ==
  ASSUME NEW n \in Nat, NEW s, s = [k \in 1..n |-> s[k]], NEW e
  PROVE  Append(s, e) = [k \in 1..(n + 1) |-> IF k = n + 1 THEN e ELSE s[k]]
<1> DEFINE V == {e} \cup {s[k] : k \in 1..n}
<1>1. s \in [1..n -> V]
  OBVIOUS
<1>2. e \in V
  OBVIOUS
<1> HIDE DEF V
<1>3. s \in Seq(V) /\ Len(s) = n
  BY <1>1
<1> QED BY <1>2, <1>3

-----------------------------------------------------------------------------
(***************************************************************************)
(* Histories                                                               *)
(***************************************************************************)
IsTool(u) == u.what \in {"call", "update"}

\* The fields of an update.
LEMMA Fields ==
  ASSUME NEW u \in Update
  PROVE  /\ u.what \in {"chunk", "plan", "thought", "call", "update"}
         /\ IsTool(u) => u.call \in Calls /\ IdOf[u.call] \in Ids
         /\ u.what = "call" => u.text # None /\ u.status # None
BY MapperNoneAssumption DEF Update, IsTool, Ids

\* One more update.
LEMMA Hearing ==
  ASSUME heard \in Seq(Update), NEW u \in Update, heard' = Append(heard, u)
  PROVE  /\ Len(heard) \in Nat /\ Len(heard') = Len(heard) + 1
         /\ DOMAIN heard = 1..Len(heard) /\ DOMAIN heard' = 1..(Len(heard) + 1)
         /\ heard' \in Seq(Update) /\ heard'[Len(heard) + 1] = u
         /\ \A n \in DOMAIN heard : heard'[n] = heard[n] /\ heard[n] \in Update
OBVIOUS

\* The positions of a history are numbers up to its length.
LEMMA Positions ==
  ASSUME heard \in Seq(Update)
  PROVE  /\ \A w : /\ Saying(w) \in SUBSET Nat /\ IsFiniteSet(Saying(w))
                   /\ \A n \in Saying(w) : n < Len(heard) + 1
         /\ \A id : /\ About(id) \in SUBSET Nat /\ Opening(id) \in SUBSET About(id)
                    /\ Opening(id) \in SUBSET Nat
                    /\ \A n \in About(id) : n < Len(heard) + 1
<1>1. Len(heard) \in Nat /\ DOMAIN heard = 1..Len(heard)
  OBVIOUS
<1>2. ASSUME NEW w
      PROVE  /\ Saying(w) \in SUBSET Nat /\ IsFiniteSet(Saying(w))
             /\ \A n \in Saying(w) : n < Len(heard) + 1
  <2>1. Saying(w) \in SUBSET (1..Len(heard))
    BY <1>1 DEF Saying
  <2>2. IsFiniteSet(1..Len(heard))
    BY <1>1, FS_Interval
  <2>3. IsFiniteSet(Saying(w))
    BY <2>1, <2>2, FS_Subset
  <2> QED BY <1>1, <2>1, <2>3
<1>3. ASSUME NEW id
      PROVE  /\ About(id) \in SUBSET Nat /\ Opening(id) \in SUBSET About(id)
             /\ \A n \in About(id) : n < Len(heard) + 1
  BY <1>2 DEF About, Opening
<1> QED BY <1>2, <1>3

\* What one more update adds to each of the sets of the reference.
LEMMA Grows ==
  ASSUME heard \in Seq(Update), NEW u \in Update, heard' = Append(heard, u)
  PROVE  LET N == Len(heard) + 1
         IN /\ \A w : Saying(w)' = Saying(w) \cup IF u.what = w THEN {N} ELSE {}
            /\ \A id : About(id)' = About(id) \cup
                         IF IsTool(u) /\ IdOf[u.call] = id THEN {N} ELSE {}
            /\ \A id : Opening(id)' = Opening(id) \cup
                         IF IsTool(u) /\ IdOf[u.call] = id /\ OwnType(u) # None
                         THEN {N} ELSE {}
<1> DEFINE N == Len(heard) + 1
<1>1. /\ Len(heard) \in Nat
      /\ DOMAIN heard = 1..Len(heard) /\ DOMAIN heard' = 1..N
      /\ heard'[N] = u /\ \A n \in DOMAIN heard : heard'[n] = heard[n]
  BY Hearing
<1>2. DOMAIN heard' = DOMAIN heard \cup {N} /\ N \notin DOMAIN heard
  BY <1>1
<1> HIDE DEF N
<1>3. ASSUME NEW w PROVE Saying(w)' = Saying(w) \cup IF u.what = w THEN {N} ELSE {}
  BY <1>1, <1>2 DEF Saying
<1>4. ASSUME NEW id
      PROVE  About(id)' = About(id) \cup
               IF IsTool(u) /\ IdOf[u.call] = id THEN {N} ELSE {}
  <2>1. \A n : n \in Saying("call")' \cup Saying("update")' <=>
                 n \in Saying("call") \cup Saying("update") \/ (n = N /\ IsTool(u))
    BY <1>3 DEF IsTool
  <2>2. \A n \in Saying("call") \cup Saying("update") : n \in DOMAIN heard
    BY DEF Saying
  <2> QED BY <1>1, <1>2, <2>1, <2>2 DEF About
<1>5. ASSUME NEW id
      PROVE  Opening(id)' = Opening(id) \cup
               IF IsTool(u) /\ IdOf[u.call] = id /\ OwnType(u) # None THEN {N} ELSE {}
  <2>1. \A n \in About(id) : heard'[n] = heard[n] /\ n # N
    BY <1>1, <1>2 DEF About, Saying
  <2> QED BY <1>1, <1>4, <2>1 DEF Opening
<1> QED BY <1>3, <1>4, <1>5 DEF N
-----------------------------------------------------------------------------
(***************************************************************************)
(* The item of a tool                                                      *)
(***************************************************************************)
\* u is about the tool id, and may open its item.
Concerns(u, id) == IsTool(u) /\ IdOf[u.call] = id
Opens(u, id) == Concerns(u, id) /\ OwnType(u) # None

\* u sets all fields of an item that is there, or is merged into it.
Sets(u, id) == Opens(u, id) /\ u.what = "call"
Merges(u, id) == Concerns(u, id) /\ u.what = "update"

\* The item a message makes of its own.
OwnItem(u, id) == [id |-> id, type |-> OwnType(u), text |-> Title(u, <<>>),
                   status |-> Given(u.status, "inProgress")]

\* The first message that opens an item stays the first.
LEMMA FirstStays ==
  ASSUME heard \in Seq(Update), NEW u \in Update, heard' = Append(heard, u), NEW id
  PROVE  /\ Opened(id)' <=> Opened(id) \/ Opens(u, id)
         /\ Opened(id) => /\ First(id)' = First(id)
                          /\ First(id) \in Opening(id) /\ First(id) \in 1..Len(heard)
                          /\ \A n \in Opening(id) : First(id) <= n
         /\ ~Opened(id) /\ Opens(u, id) =>
              First(id)' = Len(heard) + 1 /\ Opening(id)' = {Len(heard) + 1}
<1> DEFINE N == Len(heard) + 1
<1>1. /\ Opening(id) \in SUBSET Nat /\ N \in Nat
      /\ \A n \in Opening(id) : n < N /\ n \in 1..Len(heard)
  <2>1. Len(heard) \in Nat /\ DOMAIN heard = 1..Len(heard)
    OBVIOUS
  <2> QED BY <2>1, Positions DEF Opening, About, Saying
<1>2. Opening(id)' = Opening(id) \cup IF Opens(u, id) THEN {N} ELSE {}
  BY Grows DEF Opens, Concerns
<1> HIDE DEF N
<1>3. Opened(id)' <=> Opened(id) \/ Opens(u, id)
  BY <1>2 DEF Opened
<1>4. ASSUME Opened(id)
      PROVE  /\ First(id)' = First(id)
             /\ First(id) \in Opening(id) /\ First(id) \in 1..Len(heard)
             /\ \A n \in Opening(id) : First(id) <= n
  <2>1. /\ Min(Opening(id)) \in Opening(id)
        /\ \A n \in Opening(id) : Min(Opening(id)) <= n
    BY <1>1, <1>4, LeastIsMin DEF Opened
  <2>2. Min(Opening(id) \cup {N}) = Min(Opening(id))
    BY <1>1, <1>4, Topped DEF Opened
  <2>3. First(id)' = First(id)
    BY <1>2, <2>2 DEF First
  <2> QED BY <1>1, <2>1, <2>3 DEF First
<1>5. ASSUME ~Opened(id), Opens(u, id)
      PROVE  First(id)' = N /\ Opening(id)' = {N}
  <2>1. Opening(id)' = {N}
    BY <1>2, <1>5 DEF Opened
  <2>2. Min({N}) = N
    BY <1>1, MinIs
  <2> QED BY <2>1, <2>2 DEF First
<1> QED BY <1>3, <1>4, <1>5 DEF N

\* The messages that set or change an item that is there.
LEMMA ChangesGrow ==
  ASSUME heard \in Seq(Update), NEW u \in Update, heard' = Append(heard, u), NEW id,
         Opened(id)
  PROVE  /\ Setting(id)' = Setting(id) \cup
              IF Sets(u, id) THEN {Len(heard) + 1} ELSE {}
         /\ Merging(id)' = Merging(id) \cup
              IF Merges(u, id) THEN {Len(heard) + 1} ELSE {}
         /\ First(id) \in Setting(id) /\ First(id) \in Nat
         /\ \A n \in Setting(id) \cup Merging(id) :
              /\ n \in First(id)..Len(heard) /\ n \in Nat /\ n \in DOMAIN heard
              /\ heard'[n] = heard[n]
<1> DEFINE N == Len(heard) + 1
<1>1. /\ Len(heard) \in Nat /\ N = Len(heard) + 1
      /\ DOMAIN heard = 1..Len(heard) /\ heard'[N] = u
      /\ \A n \in DOMAIN heard : heard'[n] = heard[n]
  BY Hearing
<1>2. /\ About(id)' = About(id) \cup IF Concerns(u, id) THEN {N} ELSE {}
      /\ Opening(id)' = Opening(id) \cup IF Opens(u, id) THEN {N} ELSE {}
  BY Grows DEF Opens, Concerns
<1> HIDE DEF N
<1>3. /\ First(id)' = First(id) /\ First(id) \in Opening(id)
      /\ First(id) \in 1..Len(heard) /\ \A n \in Opening(id) : First(id) <= n
  BY FirstStays
<1>4. /\ \A n \in About(id) : n \in DOMAIN heard /\ n # N /\ n \in Nat
      /\ Opening(id) \subseteq About(id)
  BY <1>1 DEF About, Opening, Saying
<1>5. Setting(id)' = Setting(id) \cup IF Sets(u, id) THEN {N} ELSE {}
  <2>1. N # First(id)
    BY <1>1, <1>3
  <2>2. \A n \in Opening(id) : heard'[n] = heard[n] /\ n # N
    BY <1>1, <1>4
  <2> QED BY <1>1, <1>2, <1>3, <2>1, <2>2 DEF Setting, Sets
<1>6. Merging(id)' = Merging(id) \cup IF Merges(u, id) THEN {N} ELSE {}
  <2>1. N > First(id)
    BY <1>1, <1>3
  <2>2. \A n \in About(id) : heard'[n] = heard[n] /\ n # N
    BY <1>1, <1>4
  <2> QED BY <1>1, <1>2, <1>3, <2>1, <2>2 DEF Merging, Merges
<1>7. First(id) \in Setting(id) /\ First(id) \in Nat
  BY <1>3 DEF Setting
<1>8. ASSUME NEW n \in Setting(id) \cup Merging(id)
      PROVE  /\ n \in First(id)..Len(heard) /\ n \in Nat /\ n \in DOMAIN heard
             /\ heard'[n] = heard[n]
  <2>1. n \in About(id) /\ First(id) <= n
    BY <1>3, <1>4, <1>7 DEF Setting, Merging
  <2> QED BY <1>1, <1>4, <1>7, <2>1
<1> QED BY <1>5, <1>6, <1>7, <1>8 DEF N
\* The messages up to the m-th whose title an item has.
Titled(id, m) ==
  {k \in Setting(id) \cup {j \in Merging(id) : heard[j].text # None} : k <= m}

\* What was said of an item that is there is still so.
LEMMA PastStays ==
  ASSUME heard \in Seq(Update), NEW u \in Update, heard' = Append(heard, u), NEW id,
         Opened(id)
  PROVE  /\ \A m \in First(id)..Len(heard) :
              TextOf(id, m)' = TextOf(id, m) /\ Titled(id, m)' = Titled(id, m)
         /\ \A n \in Setting(id) \cup Merging(id) : TypeAt(id, n)' = TypeAt(id, n)
<1> DEFINE N == Len(heard) + 1
<1>1. Len(heard) \in Nat /\ N = Len(heard) + 1
  BY Hearing
<1>2. /\ Setting(id)' = Setting(id) \cup IF Sets(u, id) THEN {N} ELSE {}
      /\ Merging(id)' = Merging(id) \cup IF Merges(u, id) THEN {N} ELSE {}
      /\ First(id) \in Setting(id) /\ First(id) \in Nat
      /\ \A n \in Setting(id) \cup Merging(id) :
           /\ n \in First(id)..Len(heard) /\ n \in Nat /\ n \in DOMAIN heard
           /\ heard'[n] = heard[n]
  BY ChangesGrow
<1> HIDE DEF N
<1>3. ASSUME NEW m \in First(id)..Len(heard)
      PROVE  TextOf(id, m)' = TextOf(id, m) /\ Titled(id, m)' = Titled(id, m)
  <2>1. m \in Nat /\ ~(N <= m)
    BY <1>1, <1>2
  <2>2. Titled(id, m)' = Titled(id, m)
    BY <1>2, <2>1 DEF Titled
  <2>3. /\ Titled(id, m) \in SUBSET Nat /\ Titled(id, m) # {}
        /\ \A n \in Titled(id, m) : n <= m
    BY <1>2, <2>1 DEF Titled
  <2>4. Max(Titled(id, m)) \in Titled(id, m)
    BY <2>1, <2>3, GreatestIsMax
  <2>5. heard'[Max(Titled(id, m))] = heard[Max(Titled(id, m))]
    BY <1>2, <2>4 DEF Titled
  <2>6. TextOf(id, m) = Title(heard[Max(Titled(id, m))], <<>>)
    BY DEF TextOf, Titled
  <2>7. TextOf(id, m)' = Title(heard'[Max(Titled(id, m)')], <<>>)
    BY DEF TextOf, Titled, Title
  <2> QED BY <2>2, <2>5, <2>6, <2>7
<1>4. ASSUME NEW n \in Setting(id) \cup Merging(id)
      PROVE  TypeAt(id, n)' = TypeAt(id, n)
  <2>1. n \in First(id)..Len(heard) /\ heard'[n] = heard[n] /\ n # N
    BY <1>1, <1>2
  <2>2. TextOf(id, n)' = TextOf(id, n)
    BY <1>3, <2>1
  <2>3. n \in Setting(id)' <=> n \in Setting(id)
    BY <1>2, <2>1
  <2> QED BY <2>1, <2>2, <2>3 DEF TypeAt
<1> QED BY <1>3, <1>4

\* The messages that say something of an item's status and of its type.
Stating(id) == Setting(id) \cup {k \in Merging(id) : heard[k].status # None}
Typing(id) == {n \in Setting(id) \cup Merging(id) : TypeAt(id, n) # None}

\* There is such a message, the first one at least.
LEMMA SaysSomething ==
  ASSUME heard \in Seq(Update), NEW u \in Update, heard' = Append(heard, u), NEW id,
         Opened(id)
  PROVE  /\ \A S \in {Stating(id), Typing(id), Titled(id, Len(heard))} :
              /\ S \in SUBSET Nat /\ Max(S) \in S /\ \A n \in S : n < Len(heard) + 1
              /\ heard'[Max(S)] = heard[Max(S)]
         /\ Max(Typing(id)) \in Setting(id) \cup Merging(id)
         /\ StatusOf(id) = Given(heard[Max(Stating(id))].status, "inProgress")
         /\ TypeOf(id) = TypeAt(id, Max(Typing(id)))
         /\ TextOf(id, Len(heard)) = Title(heard[Max(Titled(id, Len(heard)))], <<>>)
<1>1. /\ First(id) \in Setting(id) /\ First(id) \in Nat /\ Len(heard) \in Nat
      /\ \A n \in Setting(id) \cup Merging(id) :
           /\ n \in First(id)..Len(heard) /\ n \in Nat /\ heard'[n] = heard[n]
  BY ChangesGrow
<1>2. First(id) \in Typing(id)
  <2>1. TypeAt(id, First(id)) = OwnType(heard[First(id)])
    BY <1>1 DEF TypeAt
  <2>2. OwnType(heard[First(id)]) # None
    BY <1>1 DEF Setting, Opening
  <2> QED BY <1>1, <2>1, <2>2 DEF Typing
<1>3. First(id) \in Stating(id) /\ First(id) \in Titled(id, Len(heard))
  BY <1>1 DEF Stating, Titled
<1>4. ASSUME NEW S \in SUBSET (Setting(id) \cup Merging(id)), First(id) \in S
      PROVE  /\ S \in SUBSET Nat /\ Max(S) \in S /\ \A n \in S : n < Len(heard) + 1
             /\ heard'[Max(S)] = heard[Max(S)]
  <2>1. S \in SUBSET Nat /\ S # {} /\ \A n \in S : n \in Nat /\ n <= Len(heard)
    BY <1>1, <1>4
  <2>2. Max(S) \in S
    BY <1>1, <2>1, GreatestIsMax
  <2>3. heard'[Max(S)] = heard[Max(S)]
    BY <1>1, <1>4, <2>2
  <2>4. \A n \in S : n < Len(heard) + 1
    BY <1>1, <2>1
  <2> QED BY <2>1, <2>2, <2>3, <2>4
<1>5. \A S \in {Stating(id), Typing(id), Titled(id, Len(heard))} :
        S \in SUBSET (Setting(id) \cup Merging(id))
  BY DEF Stating, Typing, Titled
<1>6. \A S \in {Stating(id), Typing(id), Titled(id, Len(heard))} :
        /\ S \in SUBSET Nat /\ Max(S) \in S /\ \A n \in S : n < Len(heard) + 1
        /\ heard'[Max(S)] = heard[Max(S)]
  BY <1>2, <1>3, <1>4, <1>5
<1>7. Max(Typing(id)) \in Setting(id) \cup Merging(id)
  BY <1>5, <1>6
<1>8. /\ StatusOf(id) = Given(heard[Max(Stating(id))].status, "inProgress")
      /\ TypeOf(id) = TypeAt(id, Max(Typing(id)))
      /\ TextOf(id, Len(heard)) = Title(heard[Max(Titled(id, Len(heard)))], <<>>)
  BY DEF StatusOf, TypeOf, TextOf, Stating, Typing, Titled
<1> QED BY <1>6, <1>7, <1>8

\* The same definitions in the next state.
LEMMA NextFields ==
  ASSUME NEW id, NEW n, n = Max(Typing(id)')
  PROVE  /\ StatusOf(id)' = Given(heard'[Max(Stating(id)')].status, "inProgress")
         /\ TypeOf(id)' = TypeAt(id, n)'
         /\ TextOf(id, Len(heard))' = Title(heard'[Max(Titled(id, Len(heard))')], <<>>)
         /\ ExpectedTool(id)' = [id |-> id, type |-> TypeOf(id)',
                                 text |-> TextOf(id, Len(heard))',
                                 status |-> StatusOf(id)']
<1>1. StatusOf(id)' = Given(heard'[Max(Stating(id)')].status, "inProgress")
  BY DEF StatusOf, Stating, Given
<1>2. TypeOf(id)' = TypeAt(id, n)'
  BY DEF TypeOf, Typing, TypeAt, TextOf, Title
<1>3. TextOf(id, Len(heard))' = Title(heard'[Max(Titled(id, Len(heard))')], <<>>)
  BY DEF TextOf, Titled, Title
<1> QED BY <1>1, <1>2, <1>3 DEF ExpectedTool
\* What one more update adds to them.
LEMMA SayingsGrow ==
  ASSUME heard \in Seq(Update), NEW u \in Update, heard' = Append(heard, u), NEW id,
         Opened(id), NEW N, N = Len(heard) + 1
  PROVE  /\ Stating(id)' = Stating(id) \cup
              IF Sets(u, id) \/ (Merges(u, id) /\ u.status # None) THEN {N} ELSE {}
         /\ Titled(id, Len(heard))' = Titled(id, Len(heard)) \cup
              IF Sets(u, id) \/ (Merges(u, id) /\ u.text # None) THEN {N} ELSE {}
         /\ Typing(id)' = Typing(id) \cup
              IF (Sets(u, id) \/ Merges(u, id)) /\ TypeAt(id, N)' # None
              THEN {N} ELSE {}
         /\ Sets(u, id) => TypeAt(id, N)' = OwnType(u)
         /\ Merges(u, id) => TypeAt(id, N)' =
              IF u.kind = None THEN None
              ELSE MapKind(u.kind, TextOf(id, Len(heard))', "none")
<1>1. /\ Len(heard) \in Nat /\ N \in Nat /\ Len(heard') = N /\ heard'[N] = u
  BY Hearing
<1>2. /\ Setting(id)' = Setting(id) \cup IF Sets(u, id) THEN {N} ELSE {}
      /\ Merging(id)' = Merging(id) \cup IF Merges(u, id) THEN {N} ELSE {}
      /\ \A n \in Setting(id) \cup Merging(id) :
           /\ n \in Nat /\ n <= Len(heard) /\ n # N /\ n <= N
           /\ heard'[n] = heard[n]
  <2>1. /\ Setting(id)' = Setting(id) \cup IF Sets(u, id) THEN {N} ELSE {}
        /\ Merging(id)' = Merging(id) \cup IF Merges(u, id) THEN {N} ELSE {}
        /\ First(id) \in Nat
        /\ \A n \in Setting(id) \cup Merging(id) :
             n \in First(id)..Len(heard) /\ n \in Nat /\ heard'[n] = heard[n]
    BY ChangesGrow
  <2>2. \A n \in First(id)..Len(heard) : n <= Len(heard) /\ n # N /\ n <= N
    BY <1>1, <2>1
  <2> QED BY <2>1, <2>2
<1>3. ~(Sets(u, id) /\ Merges(u, id))
  BY DEF Sets, Merges
<1>4. Stating(id)' = Stating(id) \cup
        IF Sets(u, id) \/ (Merges(u, id) /\ u.status # None) THEN {N} ELSE {}
  BY <1>1, <1>2, <1>3 DEF Stating
<1>5. Titled(id, Len(heard))' = Titled(id, Len(heard)) \cup
        IF Sets(u, id) \/ (Merges(u, id) /\ u.text # None) THEN {N} ELSE {}
  <2>1. Titled(id, Len(heard)) =
          Setting(id) \cup {k \in Merging(id) : heard[k].text # None}
    BY <1>2 DEF Titled
  <2>2. \A n \in (Setting(id) \cup Merging(id))' : n <= Len(heard')
    BY <1>1, <1>2
  <2>3. Titled(id, Len(heard))' =
          Setting(id)' \cup {k \in Merging(id)' : heard'[k].text # None}
    BY <2>2 DEF Titled
  <2> QED BY <1>1, <1>2, <1>3, <2>1, <2>3
<1>6. \A n \in Setting(id) \cup Merging(id) : TypeAt(id, n)' = TypeAt(id, n)
  BY PastStays
<1>7. Typing(id)' = Typing(id) \cup
        IF (Sets(u, id) \/ Merges(u, id)) /\ TypeAt(id, N)' # None THEN {N} ELSE {}
  <2>1. Typing(id)' = {n \in (Setting(id) \cup Merging(id))' : TypeAt(id, n)' # None}
    BY DEF Typing
  <2> QED BY <1>2, <1>6, <2>1 DEF Typing
<1>8. ASSUME Sets(u, id) PROVE TypeAt(id, N)' = OwnType(u)
  BY <1>1, <1>2, <1>8 DEF TypeAt
<1>9. ASSUME Merges(u, id)
      PROVE  TypeAt(id, N)' = IF u.kind = None THEN None
                              ELSE MapKind(u.kind, TextOf(id, Len(heard))', "none")
  <2>1. N \notin Setting(id)'
    BY <1>2, <1>3, <1>9
  <2>2. TextOf(id, N)' = TextOf(id, Len(heard))'
    BY <1>1 DEF TextOf
  <2> QED BY <1>1, <2>1, <2>2 DEF TypeAt
<1> QED BY <1>4, <1>5, <1>7, <1>8, <1>9

\* An item that the update is not about stays, and so does one whose tool is
\* called again without a type.
LEMMA ToolKept ==
  ASSUME heard \in Seq(Update), NEW u \in Update, heard' = Append(heard, u), NEW id,
         Opened(id), ~Sets(u, id), ~Merges(u, id)
  PROVE  ExpectedTool(id)' = ExpectedTool(id)
<1> PICK N : N = Len(heard) + 1
  OBVIOUS
<1>1. /\ Stating(id)' = Stating(id) /\ Typing(id)' = Typing(id)
      /\ Titled(id, Len(heard))' = Titled(id, Len(heard))
  <2>1. /\ Stating(id)' = Stating(id) \cup {} /\ Typing(id)' = Typing(id) \cup {}
        /\ Titled(id, Len(heard))' = Titled(id, Len(heard)) \cup {}
    BY SayingsGrow
  <2> QED BY <2>1
<1>2. /\ heard'[Max(Stating(id))] = heard[Max(Stating(id))]
      /\ heard'[Max(Titled(id, Len(heard)))] = heard[Max(Titled(id, Len(heard)))]
      /\ Max(Typing(id)) \in Setting(id) \cup Merging(id)
      /\ StatusOf(id) = Given(heard[Max(Stating(id))].status, "inProgress")
      /\ TypeOf(id) = TypeAt(id, Max(Typing(id)))
      /\ TextOf(id, Len(heard)) = Title(heard[Max(Titled(id, Len(heard)))], <<>>)
  BY SaysSomething
<1>3. PICK n \in Setting(id) \cup Merging(id) : n = Max(Typing(id))
  BY <1>2
<1>4. TypeOf(id) = TypeAt(id, n) /\ TypeAt(id, n)' = TypeAt(id, n)
  BY <1>2, <1>3, PastStays
<1>5. n = Max(Typing(id)')
  BY <1>1, <1>3
<1>6. /\ StatusOf(id)' = StatusOf(id) /\ TypeOf(id)' = TypeOf(id)
      /\ TextOf(id, Len(heard))' = TextOf(id, Len(heard))
  BY <1>1, <1>2, <1>4, <1>5, NextFields
<1> QED BY <1>5, <1>6, NextFields DEF ExpectedTool

\* A tool_call with a type replaces the item of its tool.
LEMMA ToolReplaced ==
  ASSUME heard \in Seq(Update), NEW u \in Update, heard' = Append(heard, u), NEW id,
         Opened(id), Sets(u, id)
  PROVE  ExpectedTool(id)' = OwnItem(u, id)
<1> PICK N : N = Len(heard) + 1
  OBVIOUS
<1>1. N \in Nat /\ heard'[N] = u /\ N = Len(heard) + 1
  BY Hearing
<1>2. /\ Stating(id)' = Stating(id) \cup {N} /\ Typing(id)' = Typing(id) \cup {N}
      /\ Titled(id, Len(heard))' = Titled(id, Len(heard)) \cup {N}
      /\ TypeAt(id, N)' = OwnType(u)
  BY <1>1, SayingsGrow DEF Sets, Opens
<1>3. \A S \in {Stating(id), Typing(id), Titled(id, Len(heard))} :
        S \in SUBSET Nat /\ \A n \in S : n < N
  BY <1>1, SaysSomething
<1>4. /\ Max(Stating(id)') = N /\ Max(Typing(id)') = N
      /\ Max(Titled(id, Len(heard))') = N
  BY <1>1, <1>2, <1>3, Topped
<1> QED BY <1>1, <1>2, <1>4, NextFields DEF OwnItem

\* What Merge makes of an item, field by field.
LEMMA MergeIs ==
  ASSUME NEW i, NEW type, NEW text, NEW st, NEW u
  PROVE  Merge([id |-> i, type |-> type, text |-> text, status |-> st], u) =
           [id |-> i,
            type |-> Given(IF u.kind = None THEN None
                           ELSE MapKind(u.kind, Title(u, text), "none"), type),
            text |-> Title(u, text), status |-> Given(u.status, st)]
<1> PICK old : old = [id |-> i, type |-> type, text |-> text, status |-> st]
  OBVIOUS
<1> DEFINE t == IF u.kind = None THEN None ELSE MapKind(u.kind, Title(u, text), "none")
<1>1. Merge(old, u) = [old EXCEPT !.status = Given(u.status, @), !.text = Title(u, text),
                                  !.type = Given(t, @)]
  BY DEF Merge
<1> HIDE DEF t
<1>2. [old EXCEPT !.status = Given(u.status, @), !.text = Title(u, text),
                  !.type = Given(t, @)]
        = [id |-> i, type |-> Given(t, type), text |-> Title(u, text),
           status |-> Given(u.status, st)]
  <2>1. ASSUME NEW a, NEW b, NEW c
        PROVE  [old EXCEPT !.status = a, !.text = b, !.type = c]
                 = [id |-> i, type |-> c, text |-> b, status |-> a]
    <3> DEFINE F == {"id", "type", "text", "status"}
    <3>1. DOMAIN old = F
      OBVIOUS
    <3>2. [old EXCEPT !.status = a, !.text = b, !.type = c]
            = [k \in F |-> CASE k = "type" -> c [] k = "text" -> b [] k = "status" -> a
                             [] OTHER -> old[k]]
      BY <3>1
    <3> QED BY <3>2
  <2>2. old.status = st /\ old.type = type
    OBVIOUS
  <2> QED BY <2>1, <2>2
<1> QED BY <1>1, <1>2 DEF t

\* A tool_call_update is merged into the item of its tool.
LEMMA ToolMerged ==
  ASSUME heard \in Seq(Update), NEW u \in Update, heard' = Append(heard, u), NEW id,
         Opened(id), Merges(u, id)
  PROVE  ExpectedTool(id)' = Merge(ExpectedTool(id), u)
<1> PICK N : N = Len(heard) + 1
  OBVIOUS
<1> DEFINE text == Title(u, TextOf(id, Len(heard)))
           type == IF u.kind = None THEN None ELSE MapKind(u.kind, text, "none")
<1>1. N \in Nat /\ heard'[N] = u /\ N = Len(heard) + 1
  BY Hearing
<1>2. /\ Stating(id)' = Stating(id) \cup IF u.status # None THEN {N} ELSE {}
      /\ Typing(id)' = Typing(id) \cup IF TypeAt(id, N)' # None THEN {N} ELSE {}
      /\ Titled(id, Len(heard))' =
           Titled(id, Len(heard)) \cup IF u.text # None THEN {N} ELSE {}
      /\ TypeAt(id, N)' = IF u.kind = None THEN None
                          ELSE MapKind(u.kind, TextOf(id, Len(heard))', "none")
  <2>1. ~Sets(u, id)
    BY DEF Sets, Merges
  <2> QED BY <1>1, <2>1, SayingsGrow
<1>3. /\ \A S \in {Stating(id), Typing(id), Titled(id, Len(heard))} :
           S \in SUBSET Nat /\ \A n \in S : n < N
      /\ heard'[Max(Stating(id))] = heard[Max(Stating(id))]
      /\ heard'[Max(Titled(id, Len(heard)))] = heard[Max(Titled(id, Len(heard)))]
      /\ Max(Typing(id)) \in Setting(id) \cup Merging(id)
      /\ StatusOf(id) = Given(heard[Max(Stating(id))].status, "inProgress")
      /\ TypeOf(id) = TypeAt(id, Max(Typing(id)))
      /\ TextOf(id, Len(heard)) = Title(heard[Max(Titled(id, Len(heard)))], <<>>)
  BY <1>1, SaysSomething
<1>4. \A S \in {Stating(id), Typing(id), Titled(id, Len(heard))} : Max(S \cup {N}) = N
  BY <1>1, <1>3, Topped
<1>5. StatusOf(id)' = Given(u.status, StatusOf(id))
  <2>1. CASE u.status = None
    BY <1>2, <1>3, <2>1, NextFields DEF Given
  <2>2. CASE u.status # None
    <3>1. Max(Stating(id)') = N
      BY <1>2, <1>4, <2>2
    <3> QED BY <1>1, <2>2, <3>1, NextFields DEF Given
  <2> QED BY <2>1, <2>2
<1>6. TextOf(id, Len(heard))' = text
  <2>1. CASE u.text = None
    BY <1>2, <1>3, <2>1, NextFields DEF Title
  <2>2. CASE u.text # None
    <3>1. Max(Titled(id, Len(heard))') = N
      BY <1>2, <1>4, <2>2
    <3> QED BY <1>1, <2>2, <3>1, NextFields DEF Title
  <2> QED BY <2>1, <2>2
<1>7. TypeAt(id, N)' = type
  BY <1>2, <1>6
<1>8. TypeOf(id)' = Given(type, TypeOf(id))
  <2>1. CASE type = None
    <3>1. Typing(id)' = Typing(id)
      BY <1>2, <1>7, <2>1
    <3>2. PICK n \in Setting(id) \cup Merging(id) : n = Max(Typing(id))
      BY <1>3
    <3>3. TypeOf(id) = TypeAt(id, n) /\ TypeAt(id, n)' = TypeAt(id, n)
      BY <1>3, <3>2, PastStays
    <3>4. TypeOf(id)' = TypeAt(id, n)'
      BY <3>1, <3>2, NextFields
    <3> QED BY <2>1, <3>3, <3>4 DEF Given
  <2>2. CASE type # None
    <3>1. Max(Typing(id)') = N
      BY <1>2, <1>4, <1>7, <2>2
    <3> QED BY <1>7, <2>2, <3>1, NextFields DEF Given
  <2> QED BY <2>1, <2>2
<1>9. ExpectedTool(id)' = [id |-> id, type |-> Given(type, TypeOf(id)), text |-> text,
                           status |-> Given(u.status, StatusOf(id))]
  BY <1>5, <1>6, <1>8, NextFields
<1> HIDE DEF type, text
<1>10. Merge(ExpectedTool(id), u) =
         [id |-> id, type |-> Given(type, TypeOf(id)), text |-> text,
          status |-> Given(u.status, StatusOf(id))]
  BY MergeIs DEF ExpectedTool, type, text
<1> QED BY <1>9, <1>10

\* A message with a type of its own opens the item of a tool that has none.
LEMMA ToolOpened ==
  ASSUME heard \in Seq(Update), NEW u \in Update, heard' = Append(heard, u), NEW id,
         ~Opened(id), Opens(u, id)
  PROVE  ExpectedTool(id)' = OwnItem(u, id)
<1> PICK N : N = Len(heard) + 1
  OBVIOUS
<1>1. /\ N \in Nat /\ heard'[N] = u /\ N = Len(heard) + 1 /\ Len(heard') = N
      /\ DOMAIN heard' = 1..N
  BY Hearing
<1>2. First(id)' = N /\ Opening(id)' = {N}
  BY FirstStays
<1>3. Setting(id)' = {N}
  BY <1>2 DEF Setting
<1>4. Merging(id)' = {}
  <2>1. \A n \in About(id)' : n \in 1..N
    BY <1>1 DEF About, Saying
  <2>2. \A n \in 1..N : ~(n > N)
    BY <1>1
  <2> QED BY <1>2, <2>1, <2>2 DEF Merging
<1>5. TypeAt(id, N)' = OwnType(u) /\ OwnType(u) # None
  BY <1>1, <1>3 DEF TypeAt, Opens
<1>6. /\ Stating(id)' = {N} /\ Titled(id, Len(heard))' = {N} /\ Typing(id)' = {N}
  <2>1. Stating(id)' = {N}
    BY <1>3, <1>4 DEF Stating
  <2>2. Titled(id, Len(heard))' = {N}
    BY <1>1, <1>3, <1>4 DEF Titled
  <2>3. Typing(id)' = {n \in (Setting(id) \cup Merging(id))' : TypeAt(id, n)' # None}
    BY DEF Typing
  <2> QED BY <1>3, <1>4, <1>5, <2>1, <2>2, <2>3
<1>7. Max({N}) = N
  BY DEF Max
<1> QED BY <1>1, <1>5, <1>6, <1>7, NextFields DEF OwnItem
-----------------------------------------------------------------------------
(***************************************************************************)
(* The message, the plan and the order                                     *)
(***************************************************************************)
Spoken == [k \in DOMAIN InOrder(Saying("chunk")) |->
             heard[InOrder(Saying("chunk"))[k]].text]

\* A chunk goes to the end of the message.
LEMMA MessageGrows ==
  ASSUME heard \in Seq(Update), NEW u \in Update, heard' = Append(heard, u),
         Ranked(Saying("chunk")), u.what = "chunk"
  PROVE  /\ Ranked(Saying("chunk")') /\ Spoken' = Append(Spoken, u.text)
         /\ Saying("chunk") = {} => Spoken' = <<u.text>>
<1> DEFINE S == Saying("chunk")
<1> PICK N : N = Len(heard) + 1
  OBVIOUS
<1>1. /\ N \in Nat /\ heard'[N] = u
      /\ \A n \in S : heard'[n] = heard[n]
  BY Hearing DEF Saying
<1>2. S \in SUBSET Nat /\ IsFiniteSet(S) /\ Ranked(S) /\ \A n \in S : n < N
  BY Positions
<1>3. S' = S \cup {N}
  BY Grows
<1> HIDE DEF S
<1>4. PICK c \in Nat : c = Cardinality(S)
  BY <1>2, FS_CardinalityType
<1>5. /\ IsFiniteSet(S') /\ Ranked(S') /\ Cardinality(S') = c + 1 /\ S' \in SUBSET Nat
      /\ \A k \in 1..c : InOrder(S')[k] = InOrder(S)[k]
      /\ InOrder(S')[c + 1] = N
  BY <1>1, <1>2, <1>3, <1>4, OrderGrows
<1>6. /\ DOMAIN InOrder(S) = 1..c /\ \A k \in 1..c : InOrder(S)[k] \in S
  BY <1>2, <1>4, Orders
<1>7. DOMAIN InOrder(S') = 1..(c + 1)
  BY <1>5, Orders
<1>8. Spoken = [k \in 1..c |-> heard[InOrder(S)[k]].text]
  BY <1>6 DEF Spoken, S
<1>9. Spoken' = [k \in 1..(c + 1) |-> heard'[InOrder(S')[k]].text]
  BY <1>7 DEF Spoken, S
<1>10. Append(Spoken, u.text) =
         [k \in 1..(c + 1) |-> IF k = c + 1 THEN u.text ELSE Spoken[k]]
  BY <1>4, <1>8, Lengthened
<1>11. ASSUME NEW k \in 1..(c + 1)
       PROVE  heard'[InOrder(S')[k]].text = IF k = c + 1 THEN u.text ELSE Spoken[k]
  <2>1. CASE k = c + 1
    BY <1>1, <1>5, <2>1
  <2>2. CASE k \in 1..c
    BY <1>1, <1>4, <1>5, <1>6, <1>8, <2>2
  <2>3. k = c + 1 \/ k \in 1..c
    BY <1>4
  <2> QED BY <2>1, <2>2, <2>3
<1>12. Spoken' = Append(Spoken, u.text)
  BY <1>9, <1>10, <1>11
<1>13. ASSUME S = {} PROVE Spoken' = <<u.text>>
  <2>1. c = 0
    BY <1>4, <1>13, FS_EmptySet
  <2>2. \A k \in 1..(c + 1) : k = c + 1
    BY <2>1
  <2>3. Spoken' = [k \in 1..(c + 1) |-> u.text]
    BY <1>9, <1>11, <2>2
  <2> QED BY <2>1, <2>3
<1> QED BY <1>5, <1>12, <1>13 DEF S

\* Other updates leave the message alone.
LEMMA MessageKept ==
  ASSUME heard \in Seq(Update), NEW u \in Update, heard' = Append(heard, u),
         Ranked(Saying("chunk")), u.what # "chunk"
  PROVE  Saying("chunk")' = Saying("chunk") /\ Spoken' = Spoken
<1> DEFINE S == Saying("chunk")
<1>1. S' = S
  <2>1. S' = S \cup {}
    BY Grows
  <2> QED BY <2>1
<1>2. /\ DOMAIN InOrder(S) = 1..Cardinality(S)
      /\ \A k \in 1..Cardinality(S) : InOrder(S)[k] \in S
  BY Positions, Orders
<1>3. \A n \in S : heard'[n] = heard[n]
  BY Hearing DEF Saying
<1> QED BY <1>1, <1>2, <1>3 DEF Spoken

\* A plan replaces the one before.
LEMMA PlanIs ==
  ASSUME heard \in Seq(Update), NEW u \in Update, heard' = Append(heard, u)
  PROVE  /\ u.what = "plan" =>
              ExpectedPlan' = [id |-> PlanId, type |-> "plan", text |-> <<u.text>>,
                               status |-> "inProgress"]
         /\ u.what # "plan" /\ Saying("plan") # {} => ExpectedPlan' = ExpectedPlan
<1> DEFINE S == Saying("plan")
<1> PICK N : N = Len(heard) + 1
  OBVIOUS
<1>1. /\ Len(heard) \in Nat /\ N \in Nat /\ heard'[N] = u
      /\ \A n \in S : heard'[n] = heard[n]
  BY Hearing DEF Saying
<1>2. S \in SUBSET Nat /\ \A n \in S : n < N
  BY Positions
<1>3. S' = S \cup IF u.what = "plan" THEN {N} ELSE {}
  BY Grows
<1> HIDE DEF S
<1>4. ASSUME u.what = "plan" PROVE heard'[Max(S')] = u
  <2>1. Max(S') = N
    BY <1>1, <1>2, <1>3, <1>4, Topped
  <2> QED BY <1>1, <2>1
<1>5. ASSUME u.what # "plan", S # {} PROVE heard'[Max(S')] = heard[Max(S)]
  <2>1. Max(S) \in S
    <3>1. \A n \in S : n <= N
      BY <1>1, <1>2
    <3> QED BY <1>1, <1>2, <1>5, <3>1, GreatestIsMax
  <2> QED BY <1>1, <1>3, <1>5, <2>1
<1>6. /\ ExpectedPlan' = [id |-> PlanId, type |-> "plan",
                          text |-> <<heard'[Max(S')].text>>, status |-> "inProgress"]
      /\ ExpectedPlan = [id |-> PlanId, type |-> "plan",
                         text |-> <<heard[Max(S)].text>>, status |-> "inProgress"]
  BY DEF ExpectedPlan, S, PlanId
<1> QED BY <1>4, <1>5, <1>6 DEF S

\* What an update mentions for the first time.
Mentions(u) ==
  \/ u.what \in {"chunk", "plan"} /\ Saying(u.what) = {}
  \/ IsTool(u) /\ ~Opened(IdOf[u.call]) /\ Opens(u, IdOf[u.call])

\* A first mention is the last of them.
LEMMA MentionedGrows ==
  ASSUME heard \in Seq(Update), NEW u \in Update, heard' = Append(heard, u)
  PROVE  /\ Mentioned' = Mentioned \cup IF Mentions(u) THEN {Len(heard) + 1} ELSE {}
         /\ Mentioned \in SUBSET Nat /\ IsFiniteSet(Mentioned)
         /\ \A n \in Mentioned : n < Len(heard) + 1 /\ n \in DOMAIN heard
<1> PICK N : N = Len(heard) + 1
  OBVIOUS
<1>1. Len(heard) \in Nat /\ N \in Nat /\ DOMAIN heard = 1..Len(heard)
  BY Hearing
<1>2. ASSUME NEW w
      PROVE  /\ Saying(w)' = Saying(w) \cup IF u.what = w THEN {N} ELSE {}
             /\ Saying(w) # {} => /\ Min(Saying(w))' = Min(Saying(w))
                                  /\ Min(Saying(w)) \in Saying(w)
             /\ Saying(w) = {} /\ u.what = w => Min(Saying(w))' = N
  <2> DEFINE S == Saying(w)
  <2>1. S' = S \cup IF u.what = w THEN {N} ELSE {}
    BY Grows
  <2>2. S \in SUBSET Nat /\ \A n \in S : n < N
    BY Positions
  <2> HIDE DEF S
  <2>3. ASSUME S # {} PROVE Min(S') = Min(S) /\ Min(S) \in S
    BY <1>1, <2>1, <2>2, <2>3, Topped, LeastIsMin
  <2>4. ASSUME S = {}, u.what = w PROVE Min(S') = N
    BY <1>1, <2>1, <2>2, <2>4, Topped
  <2> QED BY <2>1, <2>3, <2>4 DEF S
<1>3. ASSUME NEW id \in Ids
      PROVE  /\ Opened(id)' <=> Opened(id) \/ Opens(u, id)
             /\ Opened(id) => /\ First(id)' = First(id)
                              /\ First(id) \in 1..Len(heard)
             /\ ~Opened(id) /\ Opens(u, id) => First(id)' = N
  BY FirstStays
<1>4. Mentioned \subseteq 1..Len(heard)
  <2>1. \A w : Saying(w) \subseteq 1..Len(heard)
    BY <1>1 DEF Saying
  <2> QED BY <1>2, <1>3, <2>1 DEF Mentioned
<1>5. Mentioned' = Mentioned \cup IF Mentions(u) THEN {N} ELSE {}
  <2>1. Mentioned' = {First(id)' : id \in {i \in Ids : Opened(i)'}}
           \cup {Min(Saying(w))' : w \in {v \in {"chunk", "plan"} : Saying(v)' # {}}}
    BY DEF Mentioned, First
  <2>2. Mentioned = {First(id) : id \in {i \in Ids : Opened(i)}}
           \cup {Min(Saying(w)) : w \in {v \in {"chunk", "plan"} : Saying(v) # {}}}
    BY DEF Mentioned
  <2>3. \A w \in {"chunk", "plan"} : Saying(w)' # {} <=> Saying(w) # {} \/ u.what = w
    BY <1>2
  <2>4. ASSUME NEW n \in Mentioned' PROVE n \in Mentioned \/ (Mentions(u) /\ n = N)
    <3>1. CASE \E id \in Ids : Opened(id)' /\ n = First(id)'
      <4>1. PICK id \in Ids : Opened(id)' /\ n = First(id)'
        BY <3>1
      <4>2. CASE Opened(id)
        BY <1>3, <2>2, <4>1, <4>2
      <4>3. CASE ~Opened(id)
        BY <1>3, <4>1, <4>3 DEF Mentions, Opens, Concerns
      <4> QED BY <4>2, <4>3
    <3>2. CASE \E w \in {"chunk", "plan"} : Saying(w)' # {} /\ n = Min(Saying(w))'
      <4>1. PICK w \in {"chunk", "plan"} : Saying(w)' # {} /\ n = Min(Saying(w))'
        BY <3>2
      <4>2. CASE Saying(w) # {}
        BY <1>2, <2>2, <4>1, <4>2
      <4>3. CASE Saying(w) = {}
        BY <1>2, <2>3, <4>1, <4>3 DEF Mentions
      <4> QED BY <4>2, <4>3
    <3> QED BY <2>1, <3>1, <3>2
  <2>5. ASSUME NEW n \in Mentioned PROVE n \in Mentioned'
    <3>1. CASE \E id \in Ids : Opened(id) /\ n = First(id)
      BY <1>3, <2>1, <3>1
    <3>2. CASE \E w \in {"chunk", "plan"} : Saying(w) # {} /\ n = Min(Saying(w))
      BY <1>2, <2>1, <2>3, <3>2
    <3> QED BY <2>2, <3>1, <3>2
  <2>6. ASSUME Mentions(u) PROVE N \in Mentioned'
    <3>1. CASE u.what \in {"chunk", "plan"} /\ Saying(u.what) = {}
      BY <1>2, <2>1, <2>3, <3>1
    <3>2. CASE IsTool(u) /\ ~Opened(IdOf[u.call]) /\ Opens(u, IdOf[u.call])
      BY <1>3, <2>1, <3>2, Fields
    <3> QED BY <2>6, <3>1, <3>2 DEF Mentions
  <2> QED BY <2>4, <2>5, <2>6
<1>6. IsFiniteSet(1..Len(heard))
  BY <1>1, FS_Interval
<1>7. IsFiniteSet(Mentioned)
  BY <1>4, <1>6, FS_Subset
<1>8. \A n \in 1..Len(heard) : n \in Nat /\ n < N
  BY <1>1
<1> QED BY <1>1, <1>4, <1>5, <1>7, <1>8
-----------------------------------------------------------------------------
(***************************************************************************)
(* Places                                                                  *)
(***************************************************************************)
\* The id of the item an update is about.
Subject(u) ==
  CASE u.what = "chunk" -> AgentId [] u.what = "plan" -> PlanId [] OTHER -> IdOf[u.call]

\* Each mention is the first of a message, of a plan or of a tool, and there is
\* one for each item.
LEMMA Subjects ==
  ASSUME heard \in Seq(Update)
  PROVE  /\ Mentioned \in SUBSET Nat /\ IsFiniteSet(Mentioned)
         /\ \A n \in Mentioned : n \in DOMAIN heard
         /\ \A n \in Mentioned :
              /\ Expected(n).id = Subject(heard[n])
              /\ Subject(heard[n]) # UserId
              /\ \/ /\ heard[n].what = "chunk" /\ Saying("chunk") # {}
                    /\ n = Min(Saying("chunk"))
                 \/ /\ heard[n].what = "plan" /\ Saying("plan") # {}
                    /\ n = Min(Saying("plan"))
                 \/ \E id \in Ids : /\ IsTool(heard[n]) /\ IdOf[heard[n].call] = id
                                    /\ Opened(id) /\ n = First(id)
         /\ \A w \in {"chunk", "plan"} : Saying(w) # {} =>
              Min(Saying(w)) \in Mentioned /\ heard[Min(Saying(w))].what = w
         /\ \A id \in Ids : Opened(id) =>
              /\ First(id) \in Mentioned /\ IsTool(heard[First(id)])
              /\ IdOf[heard[First(id)].call] = id
<1>1. Len(heard) \in Nat /\ DOMAIN heard = 1..Len(heard)
  OBVIOUS
<1>2. ASSUME NEW w, Saying(w) # {}
      PROVE  /\ Min(Saying(w)) \in Saying(w) /\ Min(Saying(w)) \in DOMAIN heard
             /\ heard[Min(Saying(w))].what = w
  <2>1. Min(Saying(w)) \in Saying(w)
    BY <1>2, Positions, LeastIsMin
  <2> QED BY <2>1 DEF Saying
<1>3. ASSUME NEW id \in Ids, Opened(id)
      PROVE  /\ First(id) \in DOMAIN heard /\ IsTool(heard[First(id)])
             /\ IdOf[heard[First(id)].call] = id
  <2>1. First(id) \in Opening(id)
    BY <1>3, Positions, LeastIsMin DEF First, Opened
  <2> QED BY <2>1 DEF Opening, About, Saying, IsTool
<1>4. ASSUME NEW n \in Mentioned
      PROVE  /\ n \in DOMAIN heard
             /\ \/ /\ heard[n].what = "chunk" /\ Saying("chunk") # {}
                   /\ n = Min(Saying("chunk"))
                \/ /\ heard[n].what = "plan" /\ Saying("plan") # {}
                   /\ n = Min(Saying("plan"))
                \/ \E id \in Ids : /\ IsTool(heard[n]) /\ IdOf[heard[n].call] = id
                                   /\ Opened(id) /\ n = First(id)
  <2>1. CASE \E id \in Ids : Opened(id) /\ n = First(id)
    BY <1>3, <2>1
  <2>2. CASE \E w \in {"chunk", "plan"} : Saying(w) # {} /\ n = Min(Saying(w))
    BY <1>2, <2>2
  <2>3. \/ \E id \in Ids : Opened(id) /\ n = First(id)
        \/ \E w \in {"chunk", "plan"} : Saying(w) # {} /\ n = Min(Saying(w))
    BY DEF Mentioned
  <2> QED BY <2>1, <2>2, <2>3
<1>5. IsFiniteSet(Mentioned) /\ Mentioned \in SUBSET Nat
  <2>1. IsFiniteSet(1..Len(heard)) /\ Mentioned \in SUBSET (1..Len(heard))
    BY <1>1, <1>4, FS_Interval
  <2>2. IsFiniteSet(Mentioned)
    BY <2>1, FS_Subset
  <2> QED BY <1>1, <2>1, <2>2
<1>6. ASSUME NEW n \in Mentioned
      PROVE  Expected(n).id = Subject(heard[n]) /\ Subject(heard[n]) # UserId
  <2>1. CASE heard[n].what = "chunk"
    BY <2>1 DEF Expected, ExpectedMessage, Subject, AgentId, UserId
  <2>2. CASE heard[n].what = "plan"
    BY <2>2 DEF Expected, ExpectedPlan, Subject, PlanId, UserId
  <2>3. ASSUME NEW id \in Ids, IsTool(heard[n]), IdOf[heard[n].call] = id
        PROVE  Expected(n).id = Subject(heard[n]) /\ Subject(heard[n]) # UserId
    <3>1. heard[n].what # "chunk" /\ heard[n].what # "plan"
      BY <2>3 DEF IsTool
    <3>2. Expected(n) = ExpectedTool(id) /\ Subject(heard[n]) = id
      BY <2>3, <3>1 DEF Expected, Subject
    <3> QED BY <3>2, ReservedAssumption DEF ExpectedTool
  <2> QED BY <1>4, <2>1, <2>2, <2>3
<1>7. /\ \A w \in {"chunk", "plan"} : Saying(w) # {} => Min(Saying(w)) \in Mentioned
      /\ \A id \in Ids : Opened(id) => First(id) \in Mentioned
  BY DEF Mentioned
<1> QED BY <1>2, <1>3, <1>4, <1>5, <1>6, <1>7

\* No two mentions are of the same item.
LEMMA OneMention ==
  ASSUME heard \in Seq(Update), NEW m \in Mentioned, NEW n \in Mentioned,
         Subject(heard[m]) = Subject(heard[n])
  PROVE  m = n
<1>1. /\ Ids \cap {UserId, AgentId, PlanId} = {} /\ AgentId # PlanId
  BY ReservedAssumption DEF AgentId, PlanId
<1>2. ASSUME NEW k \in Mentioned
      PROVE  \/ Subject(heard[k]) = AgentId /\ k = Min(Saying("chunk"))
             \/ Subject(heard[k]) = PlanId /\ k = Min(Saying("plan"))
             \/ Subject(heard[k]) \in Ids /\ k = First(Subject(heard[k]))
  <2>1. CASE heard[k].what = "chunk"
    BY <2>1, Subjects DEF Subject, IsTool
  <2>2. CASE heard[k].what = "plan"
    BY <2>2, Subjects DEF Subject, IsTool
  <2>3. ASSUME NEW id \in Ids, IsTool(heard[k]), IdOf[heard[k].call] = id, k = First(id)
        PROVE  Subject(heard[k]) \in Ids /\ k = First(Subject(heard[k]))
    BY <2>3 DEF Subject, IsTool
  <2> QED BY <2>1, <2>2, <2>3, Subjects
<1> QED BY <1>1, <1>2

\* The items, place by place.
Told == items = <<UserItem>> \o [k \in DOMAIN InOrder(Mentioned) |->
                                   Expected(InOrder(Mentioned)[k])]
Placed ==
  /\ IsList(items, Cardinality(Mentioned) + 1) /\ items[1] = UserItem
  /\ \A n \in Mentioned : items[Place(n)] = Expected(n)

LEMMA PlacesOf ==
  ASSUME NEW M \in SUBSET Nat, IsFiniteSet(M), Ranked(M), NEW x, NEW s, NEW f,
         IsList(f, Cardinality(M))
  PROVE  s = <<x>> \o f
           <=> /\ IsList(s, Cardinality(M) + 1) /\ s[1] = x
               /\ \A n \in M : s[1 + Rank(M, n)] = f[Rank(M, n)]
<1> PICK c \in Nat : c = Cardinality(M)
  BY Ranks
<1>1. /\ \A n \in M : Rank(M, n) \in 1..c
      /\ \A k \in 1..c : \E n \in M : Rank(M, n) = k
  BY Ranks DEF Ranked
<1>2. s = <<x>> \o f
        <=> IsList(s, c + 1) /\ s[1] = x /\ \A k \in 1..c : s[1 + k] = f[k]
  BY Listing
<1> QED BY <1>1, <1>2

LEMMA ToldPlaced ==
  ASSUME Mentioned \in SUBSET Nat, IsFiniteSet(Mentioned), Ranked(Mentioned)
  PROVE  Told <=> Placed
<1>a. PICK M : M = Mentioned
  OBVIOUS
<1>b. PICK f : f = [k \in DOMAIN InOrder(M) |-> Expected(InOrder(M)[k])]
  OBVIOUS
<1>0. M \in SUBSET Nat /\ IsFiniteSet(M) /\ Ranked(M)
  BY <1>a
<1>1. /\ DOMAIN InOrder(M) = 1..Cardinality(M)
      /\ \A n \in M : Rank(M, n) \in 1..Cardinality(M) /\ InOrder(M)[Rank(M, n)] = n
  BY ONLY <1>0, Orders, Ranks
<1>2. IsList(f, Cardinality(M)) /\ \A n \in M : f[Rank(M, n)] = Expected(n)
  BY <1>b, <1>1 DEF IsList
<1>3. \A s, x : s = <<x>> \o f
                  <=> /\ IsList(s, Cardinality(M) + 1) /\ s[1] = x
                      /\ \A n \in M : s[1 + Rank(M, n)] = f[Rank(M, n)]
  BY ONLY <1>0, <1>2, PlacesOf
<1>4. Told <=> items = <<UserItem>> \o f
  BY <1>a, <1>b DEF Told
<1>5. Placed <=> /\ IsList(items, Cardinality(M) + 1) /\ items[1] = UserItem
                 /\ \A n \in M : items[1 + Rank(M, n)] = Expected(n)
  BY <1>a DEF Placed, Place
<1>6. items = <<UserItem>> \o f
        <=> /\ IsList(items, Cardinality(M) + 1) /\ items[1] = UserItem
            /\ \A n \in M : items[1 + Rank(M, n)] = f[Rank(M, n)]
  BY <1>3, Zenon
<1> QED BY <1>2, <1>4, <1>5, <1>6

LEMMA ToldPlacedNext ==
  ASSUME Mentioned' \in SUBSET Nat, IsFiniteSet(Mentioned'), Ranked(Mentioned')
  PROVE  Told' <=> /\ IsList(items', Cardinality(Mentioned') + 1) /\ items'[1] = UserItem
                   /\ \A n \in Mentioned' : items'[1 + Rank(Mentioned', n)] = Expected(n)'
<1>a. PICK M : M = Mentioned'
  OBVIOUS
<1>b. PICK f : f = [k \in DOMAIN InOrder(M) |-> Expected(InOrder(M)[k])']
  OBVIOUS
<1>0. M \in SUBSET Nat /\ IsFiniteSet(M) /\ Ranked(M)
  BY <1>a
<1>1. /\ DOMAIN InOrder(M) = 1..Cardinality(M)
      /\ \A n \in M : Rank(M, n) \in 1..Cardinality(M) /\ InOrder(M)[Rank(M, n)] = n
  BY ONLY <1>0, Orders, Ranks
<1>2. IsList(f, Cardinality(M)) /\ \A n \in M : f[Rank(M, n)] = Expected(n)'
  BY <1>b, <1>1 DEF IsList
<1>3. \A s, x : s = <<x>> \o f
                  <=> /\ IsList(s, Cardinality(M) + 1) /\ s[1] = x
                      /\ \A n \in M : s[1 + Rank(M, n)] = f[Rank(M, n)]
  BY ONLY <1>0, <1>2, PlacesOf
<1>4. Told' <=> items' = <<UserItem>> \o f
  BY <1>a, <1>b DEF Told, UserItem, UserId
<1>5. items' = <<UserItem>> \o f
        <=> /\ IsList(items', Cardinality(M) + 1) /\ items'[1] = UserItem
            /\ \A n \in M : items'[1 + Rank(M, n)] = f[Rank(M, n)]
  BY <1>3, Zenon
<1> QED BY <1>a, <1>2, <1>4, <1>5
\* Each mentioned item is at its place, and no other has its id.
LEMMA Places ==
  ASSUME MapInv
  PROVE  /\ Placed /\ Cardinality(Mentioned) \in Nat
         /\ Len(items) = Cardinality(Mentioned) + 1
         /\ DOMAIN items = 1..(Cardinality(Mentioned) + 1)
         /\ \A m \in Mentioned : /\ Place(m) \in 2..(Cardinality(Mentioned) + 1)
                                 /\ At(items, Subject(heard[m])) = {Place(m)}
         /\ \A m, n \in Mentioned : Place(m) = Place(n) => m = n
         /\ \A id : id # UserId /\ (\A m \in Mentioned : Subject(heard[m]) # id)
                      => At(items, id) = {}
<1>a. PICK M : M = Mentioned
  OBVIOUS
<1>1. M \in SUBSET Nat /\ IsFiniteSet(M) /\ Ranked(M) /\ heard \in Seq(Update)
  BY <1>a, Subjects DEF MapInv
<1>2. Placed
  BY <1>1, <1>a, ToldPlaced DEF MapInv, ItemsAreWhatWasHeard, Told
<1>b. PICK c : c = Cardinality(M)
  OBVIOUS
<1>3. /\ c \in Nat /\ \A n \in M : Rank(M, n) \in 1..c
      /\ \A m, n \in M : Rank(M, m) = Rank(M, n) => m = n
      /\ \A k \in 1..c : \E n \in M : Rank(M, n) = k
  BY ONLY <1>1, <1>b, Ranks DEF Ranked
<1>4. \A n \in M : Place(n) = 1 + Rank(M, n)
  BY <1>a DEF Place
<1>5. items = [k \in 1..(c + 1) |-> items[k]] /\ items[1] = UserItem
  BY <1>2, <1>a, <1>b DEF Placed, IsList
<1>6. DOMAIN items = 1..(c + 1) /\ Len(items) = c + 1
  <2>1. DOMAIN items = 1..(c + 1)
    BY <1>5
  <2>2. items \in [1..(c + 1) -> {items[k] : k \in 1..(c + 1)}]
    BY <1>5
  <2>3. items \in Seq({items[k] : k \in 1..(c + 1)})
    BY <1>3, <2>2
  <2> QED BY <1>3, <2>1, <2>3
<1>7. \A n \in M : Place(n) \in 2..(c + 1)
  BY <1>3, <1>4
<1>8. \A m, n \in M : Place(m) = Place(n) => m = n
  <2> SUFFICES ASSUME NEW m \in M, NEW n \in M, Place(m) = Place(n) PROVE m = n
    OBVIOUS
  <2>1. Rank(M, m) \in Nat /\ Rank(M, n) \in Nat
    BY <1>3
  <2>2. 1 + Rank(M, m) = 1 + Rank(M, n)
    BY <1>4
  <2>3. Rank(M, m) = Rank(M, n)
    BY <2>1, <2>2
  <2> QED BY <1>3, <2>3
<1>9. \A n \in M : /\ items[Place(n)].id = Subject(heard[n])
                   /\ Subject(heard[n]) # UserId
  BY <1>1, <1>2, <1>a, Subjects DEF Placed
<1>10. items[1].id = UserId
  BY <1>5 DEF UserItem
<1>11. \A k \in 1..(c + 1) : k = 1 \/ \E n \in M : k = Place(n)
  <2> SUFFICES ASSUME NEW k \in 1..(c + 1), k # 1 PROVE \E n \in M : k = Place(n)
    OBVIOUS
  <2>1. k - 1 \in 1..c /\ k = 1 + (k - 1)
    BY <1>3
  <2>2. PICK n \in M : Rank(M, n) = k - 1
    BY <1>3, <2>1
  <2> QED BY <1>4, <2>1, <2>2
<1>12. ASSUME NEW m \in M PROVE At(items, Subject(heard[m])) = {Place(m)}
  <2>1. ASSUME NEW k \in 1..(c + 1), items[k].id = Subject(heard[m])
        PROVE  k = Place(m)
    <3>1. PICK n \in M : k = Place(n)
      BY <1>9, <1>10, <1>11, <2>1
    <3>2. n = m
      BY <1>1, <1>9, <1>a, <2>1, <3>1, OneMention
    <3> QED BY <3>1, <3>2
  <2>2. Place(m) \in 1..(c + 1)
    BY <1>3, <1>7
  <2> QED BY <1>6, <1>9, <2>1, <2>2 DEF At
<1>13. ASSUME NEW id, id # UserId, \A m \in M : Subject(heard[m]) # id
       PROVE  At(items, id) = {}
  BY <1>6, <1>9, <1>10, <1>11, <1>13 DEF At
<1> QED BY <1>2, <1>3, <1>6, <1>7, <1>8, <1>12, <1>13, <1>a, <1>b

\* Put replaces the mentioned item, and adds one that is not mentioned.
LEMMA PutIs ==
  ASSUME MapInv, NEW e
  PROVE  /\ \A m \in Mentioned : e.id = Subject(heard[m]) =>
              Put(items, e) = [items EXCEPT ![Place(m)] = e]
         /\ e.id # UserId /\ (\A m \in Mentioned : Subject(heard[m]) # e.id) =>
              Put(items, e) = Append(items, e)
<1>1. ASSUME NEW m \in Mentioned, e.id = Subject(heard[m])
      PROVE  Put(items, e) = [items EXCEPT ![Place(m)] = e]
  <2>1. At(items, e.id) = {Place(m)} /\ Place(m) \in Nat
    BY <1>1, Places
  <2>2. Min({Place(m)}) = Place(m)
    BY <2>1, MinIs
  <2>3. Min(At(items, e.id)) = Place(m) /\ At(items, e.id) # {}
    BY <2>1, <2>2
  <2> QED BY <2>3 DEF Put
<1>2. ASSUME e.id # UserId, \A m \in Mentioned : Subject(heard[m]) # e.id
      PROVE  Put(items, e) = Append(items, e)
  <2>1. At(items, e.id) = {}
    BY <1>2, Places
  <2> QED BY <2>1 DEF Put
<1> QED BY <1>1, <1>2

\* The next items are those of the next history, if one of them was revised, ...
LEMMA Revised ==
  ASSUME MapInv, Mentioned' = Mentioned, NEW m \in Mentioned,
         \A n \in Mentioned : n # m => Expected(n)' = Expected(n),
         items' = [items EXCEPT ![Place(m)] = Expected(m)']
  PROVE  Told' /\ Ranked(Mentioned)'
<1>1. /\ Mentioned' \in SUBSET Nat /\ IsFiniteSet(Mentioned') /\ Ranked(Mentioned')
      /\ heard \in Seq(Update)
  BY Subjects DEF MapInv
<1>2. PICK c \in Nat : c = Cardinality(Mentioned)
  BY Places
<1>3. /\ items = [k \in 1..(c + 1) |-> items[k]] /\ DOMAIN items = 1..(c + 1)
      /\ items[1] = UserItem
      /\ \A n \in Mentioned : /\ items[Place(n)] = Expected(n)
                              /\ Place(n) \in 2..(c + 1)
                              /\ Place(n) = Place(m) => n = m
  BY <1>2, Places DEF Placed, IsList
<1>4. IsList(items', c + 1) /\ items'[1] = UserItem
  <2>0. Place(m) \in 2..(c + 1)
    BY <1>3
  <2>1. Place(m) \in 1..(c + 1) /\ Place(m) # 1 /\ 1 \in 1..(c + 1)
    BY <1>2, <2>0
  <2>2. items' = [k \in 1..(c + 1) |-> IF k = Place(m) THEN Expected(m)' ELSE items[k]]
    BY <1>3
  <2>3. items' = [k \in 1..(c + 1) |-> items'[k]]
    BY <2>2
  <2> QED BY <1>3, <2>1, <2>2, <2>3 DEF IsList
<1>5. ASSUME NEW n \in Mentioned PROVE items'[Place(n)] = Expected(n)'
  <2>1. CASE n = m
    BY <1>2, <1>3, <2>1
  <2>2. CASE n # m
    BY <1>2, <1>3, <2>2
  <2> QED BY <2>1, <2>2
<1>6. \A n \in Mentioned' : items'[1 + Rank(Mentioned', n)] = Expected(n)'
  BY <1>5 DEF Place
<1> QED BY <1>1, <1>2, <1>4, <1>6, ToldPlacedNext

\* ... if none was, ...
LEMMA Unrevised ==
  ASSUME MapInv, Mentioned' = Mentioned, items' = items,
         \A n \in Mentioned : Expected(n)' = Expected(n)
  PROVE  Told' /\ Ranked(Mentioned)'
<1>1. /\ Mentioned' \in SUBSET Nat /\ IsFiniteSet(Mentioned') /\ Ranked(Mentioned')
  BY Subjects DEF MapInv
<1>2. /\ IsList(items', Cardinality(Mentioned') + 1) /\ items'[1] = UserItem
      /\ \A n \in Mentioned' : items'[1 + Rank(Mentioned', n)] = Expected(n)'
  BY Places DEF Placed, Place
<1> QED BY <1>1, <1>2, ToldPlacedNext

\* ... or if one was added.
LEMMA Extended ==
  ASSUME MapInv, NEW N \in Nat, Mentioned' = Mentioned \cup {N},
         \A n \in Mentioned : n < N /\ Expected(n)' = Expected(n),
         items' = Append(items, Expected(N)')
  PROVE  Told' /\ Ranked(Mentioned)'
<1>a. PICK M : M = Mentioned
  OBVIOUS
<1>1. M \in SUBSET Nat /\ IsFiniteSet(M) /\ Ranked(M) /\ \A n \in M : n < N
  BY <1>a, Subjects DEF MapInv
<1>2. PICK c \in Nat : c = Cardinality(M)
  BY <1>a, Places
<1>3. /\ IsFiniteSet(M \cup {N}) /\ Ranked(M \cup {N})
      /\ Cardinality(M \cup {N}) = c + 1
      /\ \A n \in M : Rank(M \cup {N}, n) = Rank(M, n)
      /\ Rank(M \cup {N}, N) = c + 1
  BY ONLY <1>1, <1>2, N \in Nat, OrderGrows
<1>4. /\ items = [k \in 1..(c + 1) |-> items[k]] /\ items[1] = UserItem
      /\ \A n \in M : /\ items[1 + Rank(M, n)] = Expected(n)
                      /\ 1 + Rank(M, n) \in 2..(c + 1)
  BY <1>a, <1>2, Places DEF Placed, IsList, Place
<1>5. items' = [k \in 1..(c + 1 + 1) |-> IF k = c + 1 + 1 THEN Expected(N)' ELSE items[k]]
  <2>1. c + 1 \in Nat
    BY <1>2
  <2> QED BY <1>4, <2>1, Lengthened
<1>6. IsList(items', c + 1 + 1) /\ items'[1] = UserItem
  BY <1>2, <1>4, <1>5 DEF IsList
<1>7. ASSUME NEW n \in M \cup {N}
      PROVE  items'[1 + Rank(M \cup {N}, n)] = Expected(n)'
  <2>1. CASE n = N
    <3>1. 1 + Rank(M \cup {N}, n) = c + 1 + 1
      BY <1>2, <1>3, <2>1
    <3>2. items'[c + 1 + 1] = Expected(N)'
      BY <1>2, <1>5
    <3> QED BY <2>1, <3>1, <3>2
  <2>2. CASE n \in M
    <3> PICK k : k = 1 + Rank(M, n)
      OBVIOUS
    <3>0. k \in 2..(c + 1) /\ 1 + Rank(M \cup {N}, n) = k
      BY <1>3, <1>4, <2>2
    <3>1. k \in 1..(c + 1 + 1) /\ k # c + 1 + 1 /\ 1 + Rank(M \cup {N}, n) = k
      BY <1>2, <3>0
    <3>2. items'[k] = items[k]
      BY <1>5, <3>1
    <3> QED BY <1>4, <1>a, <2>2, <3>1, <3>2
  <2> QED BY <2>1, <2>2
<1>8. Mentioned' \in SUBSET Nat /\ Mentioned' = M \cup {N}
  BY <1>1, <1>a
<1> QED BY <1>3, <1>6, <1>7, <1>8, ToldPlacedNext
-----------------------------------------------------------------------------
(***************************************************************************)
(* The steps                                                               *)
(***************************************************************************)
\* What is expected of a mention, now and next.
LEMMA ExpectedAre ==
  ASSUME heard \in Seq(Update), NEW u \in Update, heard' = Append(heard, u),
         NEW n \in Mentioned
  PROVE  /\ heard[n].what = "chunk" =>
              Expected(n) = ExpectedMessage /\ Expected(n)' = ExpectedMessage'
         /\ heard[n].what = "plan" =>
              Expected(n) = ExpectedPlan /\ Expected(n)' = ExpectedPlan'
         /\ \A id : IsTool(heard[n]) /\ IdOf[heard[n].call] = id =>
              Expected(n) = ExpectedTool(id) /\ Expected(n)' = ExpectedTool(id)'
<1>1. heard'[n] = heard[n]
  BY Subjects, Hearing
<1>2. ASSUME heard[n].what = "chunk"
      PROVE  Expected(n) = ExpectedMessage /\ Expected(n)' = ExpectedMessage'
  BY <1>1, <1>2 DEF Expected
<1>3. ASSUME heard[n].what = "plan"
      PROVE  Expected(n) = ExpectedPlan /\ Expected(n)' = ExpectedPlan'
  BY <1>1, <1>3 DEF Expected
<1>4. ASSUME NEW id, IsTool(heard[n]), IdOf[heard[n].call] = id
      PROVE  Expected(n) = ExpectedTool(id) /\ Expected(n)' = ExpectedTool(id)'
  <2>1. heard[n].what # "chunk" /\ heard[n].what # "plan"
    BY <1>4 DEF IsTool
  <2> QED BY <1>1, <1>4, <2>1 DEF Expected
<1> QED BY <1>2, <1>3, <1>4

\* An update says nothing new of an item it is not about.
LEMMA ExpectedStays ==
  ASSUME heard \in Seq(Update), NEW u \in Update, heard' = Append(heard, u),
         Ranked(Saying("chunk")), answered' = answered, NEW n \in Mentioned,
         \/ heard[n].what = "chunk" /\ u.what # "chunk"
         \/ heard[n].what = "plan" /\ u.what # "plan"
         \/ \E id \in Ids : /\ IsTool(heard[n]) /\ IdOf[heard[n].call] = id
                            /\ ~Sets(u, id) /\ ~Merges(u, id)
  PROVE  Expected(n)' = Expected(n)
<1>1. CASE heard[n].what = "chunk" /\ u.what # "chunk"
  <2>1. Spoken' = Spoken
    BY <1>1, MessageKept
  <2>2. ExpectedMessage' = ExpectedMessage
    BY <2>1 DEF ExpectedMessage, Spoken, AgentId
  <2> QED BY <1>1, <2>2, ExpectedAre
<1>2. CASE heard[n].what = "plan" /\ u.what # "plan"
  <2>1. Saying("plan") # {}
    BY <1>2, Subjects DEF Saying
  <2> QED BY <1>2, <2>1, PlanIs, ExpectedAre
<1>3. ASSUME NEW id \in Ids, IsTool(heard[n]), IdOf[heard[n].call] = id,
             ~Sets(u, id), ~Merges(u, id)
      PROVE  Expected(n)' = Expected(n)
  <2>1. Opened(id)
    BY <1>3, Subjects DEF IsTool
  <2>2. ExpectedTool(id)' = ExpectedTool(id)
    BY <1>3, <2>1, ToolKept
  <2> QED BY <1>3, <2>2, ExpectedAre
<1> QED BY <1>1, <1>2, <1>3

\* The record takes the item the mapper has put.
LEMMA Recorded ==
  ASSUME MapInv, ~answered, NEW e, UpsertItem(e), items' = Put(items, e),
         status' = status
  PROVE  status' # "ended" => wire' = items'
<1>1. status # "completed"
  BY DEF MapInv
<1>2. ASSUME status = "inProgress" PROVE wire' = items'
  <2>1. wire = items
    BY <1>2 DEF MapInv
  <2> QED BY <1>2, <2>1 DEF UpsertItem
<1> QED BY <1>1, <1>2 DEF MapInv

\* The places of the tools' items stay, and a new one is the last.
LEMMA ToolsFollow ==
  ASSUME MapInv, NEW u \in Update, heard' = Append(heard, u), NEW i, i = IdOf[u.call],
         \/ tools' = tools /\ ~(IsTool(u) /\ Mentions(u))
         \/ /\ IsTool(u) /\ Mentions(u)
            /\ tools' = [tools EXCEPT ![i] = Len(items) + 1]
  PROVE  /\ tools' \in [Ids -> Nat]
         /\ \A id \in Ids : tools'[id] = IF Opened(id)' THEN Place(First(id))' ELSE 0
<1>a. PICK M : M = Mentioned
  OBVIOUS
<1>b. PICK N \in Nat : N = Len(heard) + 1
  BY Hearing DEF MapInv
<1>c. PICK c \in Nat : c = Cardinality(M)
  BY <1>a, Places
<1>1. M \in SUBSET Nat /\ IsFiniteSet(M) /\ Ranked(M) /\ \A n \in M : n < N
  BY <1>a, <1>b, MentionedGrows DEF MapInv
<1>2. Mentioned' = M \cup IF Mentions(u) THEN {N} ELSE {}
  BY <1>a, <1>b, MentionedGrows DEF MapInv
<1>3. /\ \A n \in M : Rank(M \cup {N}, n) = Rank(M, n)
      /\ Rank(M \cup {N}, N) = c + 1
  BY ONLY <1>1, <1>c, N \in Nat, OrderGrows
<1>4. \A n \in M : Rank(Mentioned', n) = Rank(M, n)
  <2>1. CASE Mentions(u)
    BY <1>2, <1>3, <2>1
  <2>2. CASE ~Mentions(u)
    <3>1. Mentioned' = M
      BY <1>2, <2>2
    <3> QED BY <3>1
  <2> QED BY <2>1, <2>2
<1>5. ASSUME NEW id \in Ids
      PROVE  /\ Opened(id)' <=> Opened(id) \/ Opens(u, id)
             /\ Opened(id) => First(id)' = First(id) /\ First(id) \in M
             /\ ~Opened(id) /\ Opens(u, id) => /\ First(id)' = N /\ id = i
                                               /\ IsTool(u) /\ Mentions(u)
  <2>1. heard \in Seq(Update)
    BY DEF MapInv
  <2>2. /\ Opened(id)' <=> Opened(id) \/ Opens(u, id)
        /\ Opened(id) => First(id)' = First(id)
        /\ ~Opened(id) /\ Opens(u, id) => First(id)' = N
    BY <1>b, <2>1, FirstStays
  <2>3. Opened(id) => First(id) \in M
    BY <1>a, <2>1, Subjects
  <2>4. Opens(u, id) /\ ~Opened(id) => IsTool(u) /\ id = i /\ Mentions(u)
    BY DEF Opens, Concerns, Mentions
  <2> QED BY <2>2, <2>3, <2>4
<1>6. ASSUME NEW id \in Ids PROVE Place(First(id))' = 1 + Rank(Mentioned', First(id)')
  BY DEF Place
<1>7. ASSUME NEW id \in Ids, Opened(id)
      PROVE  tools[id] = Place(First(id))' /\ Opened(id)' /\ tools[id] \in Nat
  <2>1. tools[id] = 1 + Rank(M, First(id)) /\ tools[id] \in Nat
    BY <1>7, <1>a DEF MapInv, Place
  <2> QED BY <1>4, <1>5, <1>6, <1>7, <2>1
<1>8. ASSUME NEW id \in Ids, ~Opened(id) PROVE tools[id] = 0
  BY <1>8 DEF MapInv
<1>9. DOMAIN tools = Ids /\ tools \in [Ids -> Nat]
  BY DEF MapInv
<1>10. CASE tools' = tools /\ ~(IsTool(u) /\ Mentions(u))
  <2>1. \A id \in Ids : ~Opened(id) => ~Opened(id)'
    BY <1>5, <1>10
  <2> QED BY <1>7, <1>8, <1>9, <1>10, <2>1
<1>11. CASE IsTool(u) /\ Mentions(u) /\ tools' = [tools EXCEPT ![i] = Len(items) + 1]
  <2>1. i \in Ids /\ ~Opened(i) /\ Opens(u, i)
    <3>1. u.what # "chunk" /\ u.what # "plan"
      BY <1>11 DEF IsTool
    <3> QED BY <1>11, <3>1, Fields DEF Mentions
  <2>2. Opened(i)' /\ First(i)' = N
    BY <1>5, <2>1
  <2>3. Place(First(i))' = 1 + (c + 1)
    BY <1>2, <1>3, <1>6, <1>11, <2>1, <2>2
  <2>4. Len(items) + 1 = 1 + (c + 1) /\ Len(items) + 1 \in Nat
    <3>1. Len(items) = c + 1
      BY <1>a, <1>c, Places
    <3> QED BY <1>c, <3>1
  <2>5. \A id \in Ids : id # i => (Opened(id)' <=> Opened(id))
    BY <1>5
  <2>6. \A id \in Ids : id # i => tools'[id] = tools[id]
    BY <1>9, <1>11
  <2>7. tools'[i] = Len(items) + 1
    BY <1>9, <1>11, <2>1
  <2>8. tools' \in [Ids -> Nat]
    BY <1>9, <1>11, <2>4
  <2>9. ASSUME NEW id \in Ids
        PROVE  tools'[id] = IF Opened(id)' THEN Place(First(id))' ELSE 0
    <3>1. CASE id = i
      BY <2>2, <2>3, <2>4, <2>7, <3>1
    <3>2. CASE id # i
      BY <1>7, <1>8, <2>5, <2>6, <3>2
    <3> QED BY <3>1, <3>2
  <2> QED BY <2>8, <2>9
<1> QED BY <1>10, <1>11

\* What a step with an update has to show.
LEMMA Applied ==
  ASSUME MapInv, NEW u \in Update, heard' = Append(heard, u),
         answered' = answered, status' = status,
         Told', Ranked(Mentioned)', status' # "ended" => wire' = items',
         tools' \in [Ids -> Nat],
         \A id \in Ids : tools'[id] = IF Opened(id)' THEN Place(First(id))' ELSE 0
  PROVE  MapInv'
<1>1. heard \in Seq(Update) /\ heard' \in Seq(Update) /\ Ranked(Saying("chunk"))
  BY Hearing DEF MapInv
<1>2. Ranked(Saying("chunk"))'
  <2>1. CASE u.what = "chunk"
    BY <1>1, <2>1, MessageGrows
  <2>2. CASE u.what # "chunk"
    BY <1>1, <2>2, MessageKept
  <2> QED BY <2>1, <2>2
<1>3. ItemsAreWhatWasHeard'
  BY DEF Told, ItemsAreWhatWasHeard
<1> QED BY <1>1, <1>2, <1>3 DEF MapInv
\* The items of messages and plans with a new text, and of a finished message.
LEMMA ItemChanged ==
  ASSUME NEW i, NEW type, NEW text, NEW st, NEW item,
         item = [id |-> i, type |-> type, text |-> text, status |-> st],
         NEW a, NEW b
  PROVE  /\ [item EXCEPT !.text = b] = [id |-> i, type |-> type, text |-> b, status |-> st]
         /\ [item EXCEPT !.status = a]
              = [id |-> i, type |-> type, text |-> text, status |-> a]
<1> DEFINE F == {"id", "type", "text", "status"}
<1>1. DOMAIN item = F
  OBVIOUS
<1>2. [item EXCEPT !.text = b] = [k \in F |-> IF k = "text" THEN b ELSE item[k]]
  BY <1>1
<1>3. [item EXCEPT !.status = a] = [k \in F |-> IF k = "status" THEN a ELSE item[k]]
  BY <1>1
<1> QED BY <1>2, <1>3

\* The message with its text as it was put together.
LEMMA MessageIs ==
  /\ ExpectedMessage = [id |-> AgentId, type |-> "agentMessage", text |-> Spoken,
                        status |-> IF answered THEN "completed" ELSE "inProgress"]
  /\ ExpectedMessage' = [id |-> AgentId, type |-> "agentMessage", text |-> Spoken',
                         status |-> IF answered' THEN "completed" ELSE "inProgress"]
BY DEF ExpectedMessage, Spoken, AgentId

\* The items that are not of tools.
Named(w, id) == (w = "chunk" /\ id = AgentId) \/ (w = "plan" /\ id = PlanId)

\* Where the message and the plan are.
LEMMA WhereSaid ==
  ASSUME MapInv, NEW w, NEW id, Named(w, id)
  PROVE  /\ Saying(w) # {} =>
              \E m \in Mentioned : /\ heard[m].what = w /\ Subject(heard[m]) = id
                                   /\ At(items, id) = {Place(m)}
                                   /\ At(items, id) # {} /\ Min(At(items, id)) = Place(m)
                                   /\ items[Place(m)] = Expected(m)
                                   /\ \A n \in Mentioned : n # m => heard[n].what # w
         /\ Saying(w) = {} => /\ At(items, id) = {}
                              /\ \A n \in Mentioned : /\ heard[n].what # w
                                                      /\ Subject(heard[n]) # id
<1>1. heard \in Seq(Update)
  BY DEF MapInv
<1>2. \A n \in Mentioned : heard[n].what = w <=> Subject(heard[n]) = id
  <2> SUFFICES ASSUME NEW n \in Mentioned
               PROVE  heard[n].what = w <=> Subject(heard[n]) = id
    OBVIOUS
  <2>1. AgentId # PlanId /\ AgentId \notin Ids /\ PlanId \notin Ids
    BY ReservedAssumption DEF AgentId, PlanId
  <2>2. CASE heard[n].what = "chunk"
    BY <2>1, <2>2 DEF Subject, Named
  <2>3. CASE heard[n].what = "plan"
    BY <2>1, <2>3 DEF Subject, Named
  <2>4. CASE IsTool(heard[n]) /\ IdOf[heard[n].call] \in Ids
    <3>1. heard[n].what # "chunk" /\ heard[n].what # "plan"
      BY <2>4 DEF IsTool
    <3> QED BY <2>1, <2>4, <3>1 DEF Subject, Named
  <2> QED BY <1>1, <2>2, <2>3, <2>4, Subjects
<1>3. ASSUME Saying(w) # {}
      PROVE  \E m \in Mentioned : /\ heard[m].what = w /\ Subject(heard[m]) = id
                                  /\ At(items, id) = {Place(m)}
                                  /\ At(items, id) # {} /\ Min(At(items, id)) = Place(m)
                                  /\ items[Place(m)] = Expected(m)
                                  /\ \A n \in Mentioned : n # m => heard[n].what # w
  <2>1. PICK m : m = Min(Saying(w))
    OBVIOUS
  <2>2. m \in Mentioned /\ heard[m].what = w /\ Subject(heard[m]) = id
    BY <1>1, <1>2, <1>3, <2>1, Subjects DEF Named
  <2>3. At(items, id) = {Place(m)} /\ Place(m) \in Nat /\ items[Place(m)] = Expected(m)
    BY <2>2, Places DEF Placed
  <2>4. Min({Place(m)}) = Place(m)
    BY <2>3, MinIs
  <2>5. \A n \in Mentioned : n # m => heard[n].what # w
    BY <1>1, <1>2, <2>2, OneMention
  <2> QED BY <2>2, <2>3, <2>4, <2>5
<1>4. ASSUME Saying(w) = {}
      PROVE  /\ At(items, id) = {}
             /\ \A n \in Mentioned : heard[n].what # w /\ Subject(heard[n]) # id
  <2>1. \A n \in Mentioned : heard[n].what # w
    BY <1>1, <1>4, Subjects DEF Saying
  <2>2. \A n \in Mentioned : Subject(heard[n]) # id
    BY <1>2, <2>1
  <2>3. id # UserId
    BY DEF Named, UserId, AgentId, PlanId
  <2> QED BY <2>1, <2>2, <2>3, Places
<1> QED BY <1>3, <1>4

\* A step that puts what is expected of a message or of a plan.
LEMMA PutSaid ==
  ASSUME MapInv, ~answered, NEW u \in Update, heard' = Append(heard, u),
         answered' = answered, status' = status, tools' = tools,
         NEW w, NEW id, Named(w, id),
         u.what = w, NEW e, e.id = id,
         e = IF w = "chunk" THEN ExpectedMessage' ELSE ExpectedPlan',
         items' = Put(items, e), UpsertItem(e)
  PROVE  MapInv'
<1>1. heard \in Seq(Update) /\ Ranked(Saying("chunk"))
  BY DEF MapInv
<1>2. PICK N \in Nat : N = Len(heard) + 1
  BY <1>1, Hearing
<1>3. /\ heard'[N] = u /\ Mentioned' = Mentioned \cup IF Mentions(u) THEN {N} ELSE {}
      /\ \A n \in Mentioned : n < N
  BY <1>1, <1>2, Hearing, MentionedGrows
<1>4. ASSUME NEW n \in Mentioned, heard[n].what # w PROVE Expected(n)' = Expected(n)
  <2>1. ~IsTool(u)
    BY DEF IsTool, Named
  <2>2. \A i : ~Sets(u, i) /\ ~Merges(u, i)
    BY <2>1 DEF Sets, Opens, Merges, Concerns
  <2>3. \/ heard[n].what = "chunk" \/ heard[n].what = "plan"
        \/ \E i \in Ids : IsTool(heard[n]) /\ IdOf[heard[n].call] = i
    BY <1>1, Subjects
  <2> QED BY <1>1, <1>4, <2>2, <2>3, ExpectedStays DEF Named
<1>5. Told' /\ Ranked(Mentioned)'
  <2>1. CASE Saying(w) # {}
    <3>1. PICK m \in Mentioned : /\ heard[m].what = w /\ Subject(heard[m]) = id
                                 /\ \A n \in Mentioned : n # m => heard[n].what # w
      BY <2>1, WhereSaid
    <3>2. Mentioned' = Mentioned
      <4>1. ~Mentions(u)
        BY <2>1 DEF Mentions, IsTool, Named
      <4>2. Mentioned' = Mentioned \cup {}
        BY <1>3, <4>1
      <4> QED BY <4>2
    <3>3. Expected(m)' = e
      BY <1>1, <3>1, ExpectedAre DEF Named
    <3>4. items' = [items EXCEPT ![Place(m)] = e]
      BY <3>1, PutIs
    <3>5. \A n \in Mentioned : n # m => Expected(n)' = Expected(n)
      BY <1>4, <3>1
    <3> QED BY <3>2, <3>3, <3>4, <3>5, Revised
  <2>2. CASE Saying(w) = {}
    <3>1. \A n \in Mentioned : heard[n].what # w /\ Subject(heard[n]) # id
      BY <2>2, WhereSaid
    <3>2. Mentioned' = Mentioned \cup {N}
      BY <1>3, <2>2 DEF Mentions, Named
    <3>3. Expected(N)' = e
      BY <1>3 DEF Expected, Named
    <3>4. id # UserId
      BY DEF Named, UserId, AgentId, PlanId
    <3>5. items' = Append(items, e)
      BY <3>1, <3>4, PutIs
    <3> QED BY <1>2, <1>3, <1>4, <3>1, <3>2, <3>3, <3>5, Extended
  <2> QED BY <2>1, <2>2
<1>6. status' # "ended" => wire' = items'
  BY Recorded
<1>7. ~IsTool(u)
  BY DEF IsTool, Named
<1>8. /\ tools' \in [Ids -> Nat]
      /\ \A i \in Ids : tools'[i] = IF Opened(i)' THEN Place(First(i))' ELSE 0
  BY <1>7, ToolsFollow
<1> QED BY <1>5, <1>6, <1>8, Applied
\* upsert_agent
LEMMA ChunkStep ==
  ASSUME MapInv, ~answered, NEW u \in Update, heard' = Append(heard, u),
         answered' = answered, status' = status, u.what = "chunk",
         AgentMessageChunk(u)
  PROVE  MapInv'
<1>1. PICK e : e = IF At(items, AgentId) # {}
                   THEN [items[Min(At(items, AgentId))] EXCEPT !.text = Append(@, u.text)]
                   ELSE [id |-> AgentId, type |-> "agentMessage",
                         text |-> <<u.text>>, status |-> "inProgress"]
  OBVIOUS
<1>2. items' = Put(items, e) /\ UpsertItem(e) /\ tools' = tools
  BY <1>1 DEF AgentMessageChunk
<1>3. heard \in Seq(Update) /\ Ranked(Saying("chunk"))
  BY DEF MapInv
<1>4. /\ Spoken' = Append(Spoken, u.text)
      /\ Saying("chunk") = {} => Spoken' = <<u.text>>
  BY <1>3, MessageGrows
<1>5. ExpectedMessage' = [id |-> AgentId, type |-> "agentMessage", text |-> Spoken',
                          status |-> "inProgress"]
  BY MessageIs
<1>6. Named("chunk", AgentId)
  BY DEF Named
<1>7. e = ExpectedMessage'
  <2>1. CASE Saying("chunk") # {}
    <3>1. PICK m \in Mentioned : /\ heard[m].what = "chunk" /\ At(items, AgentId) # {}
                                 /\ Min(At(items, AgentId)) = Place(m)
                                 /\ items[Place(m)] = Expected(m)
      BY <1>6, <2>1, WhereSaid
    <3>2. PICK old : old = items[Min(At(items, AgentId))]
      OBVIOUS
    <3>3. old = [id |-> AgentId, type |-> "agentMessage", text |-> Spoken,
                 status |-> "inProgress"]
      BY <1>3, <3>1, <3>2, ExpectedAre, MessageIs
    <3>4. e = [old EXCEPT !.text = Append(Spoken, u.text)]
      <4>1. e = [old EXCEPT !.text = Append(old.text, u.text)]
        BY <1>1, <3>1, <3>2
      <4>2. old.text = Spoken
        BY <3>3
      <4> QED BY <4>1, <4>2
    <3>5. e = [id |-> AgentId, type |-> "agentMessage", text |-> Append(Spoken, u.text),
               status |-> "inProgress"]
      BY <3>3, <3>4, ItemChanged
    <3> QED BY <1>4, <1>5, <3>5
  <2>2. CASE Saying("chunk") = {}
    <3>1. At(items, AgentId) = {}
      BY <1>6, <2>2, WhereSaid
    <3> QED BY <1>1, <1>4, <1>5, <2>2, <3>1
  <2> QED BY <2>1, <2>2
<1>8. e.id = AgentId
  BY <1>5, <1>7
<1> QED BY <1>2, <1>6, <1>7, <1>8, PutSaid

\* upsert_plan
LEMMA PlanStep ==
  ASSUME MapInv, ~answered, NEW u \in Update, heard' = Append(heard, u),
         answered' = answered, status' = status, u.what = "plan", Plan(u)
  PROVE  MapInv'
<1>1. PICK e : e = IF At(items, PlanId) # {}
                   THEN [items[Min(At(items, PlanId))] EXCEPT !.text = <<u.text>>]
                   ELSE [id |-> PlanId, type |-> "plan", text |-> <<u.text>>,
                         status |-> "inProgress"]
  OBVIOUS
<1>2. items' = Put(items, e) /\ UpsertItem(e) /\ tools' = tools
  BY <1>1 DEF Plan
<1>0. Named("plan", PlanId)
  BY DEF Named
<1>3. heard \in Seq(Update)
  BY DEF MapInv
<1>4. ExpectedPlan' = [id |-> PlanId, type |-> "plan", text |-> <<u.text>>,
                       status |-> "inProgress"]
  BY <1>3, PlanIs
<1>5. e = ExpectedPlan'
  <2>1. CASE Saying("plan") # {}
    <3>1. PICK m \in Mentioned : /\ heard[m].what = "plan" /\ At(items, PlanId) # {}
                                 /\ Min(At(items, PlanId)) = Place(m)
                                 /\ items[Place(m)] = Expected(m)
      BY <2>1, <1>0, WhereSaid
    <3>2. PICK old : old = items[Min(At(items, PlanId))]
      OBVIOUS
    <3>3. old = ExpectedPlan
      BY <1>3, <3>1, <3>2, ExpectedAre
    <3>4. PICK text : text = <<heard[Max(Saying("plan"))].text>>
      OBVIOUS
    <3>5. old = [id |-> PlanId, type |-> "plan", text |-> text, status |-> "inProgress"]
      BY <3>3, <3>4 DEF ExpectedPlan
    <3>6. e = [old EXCEPT !.text = <<u.text>>]
      BY <1>1, <3>1, <3>2
    <3>7. e = [id |-> PlanId, type |-> "plan", text |-> <<u.text>>,
               status |-> "inProgress"]
      BY <3>5, <3>6, ItemChanged
    <3> QED BY <1>4, <3>7
  <2>2. CASE Saying("plan") = {}
    <3>1. At(items, PlanId) = {}
      BY <2>2, <1>0, WhereSaid
    <3> QED BY <1>1, <1>4, <3>1
  <2> QED BY <2>1, <2>2
<1>6. e.id = PlanId
  BY <1>4, <1>5
<1> QED BY <1>2, <1>5, <1>6, <1>0, PutSaid

\* An update that changes no item: a thought, or a tool without an item type.
LEMMA SkipStep ==
  ASSUME MapInv, ~answered, NEW u \in Update, heard' = Append(heard, u),
         answered' = answered, status' = status, ~Mentions(u), u.what \notin {"chunk", "plan"},
         \A id \in Ids : Opened(id) => ~Sets(u, id) /\ ~Merges(u, id), Skip
  PROVE  MapInv'
<1>1. heard \in Seq(Update) /\ Ranked(Saying("chunk"))
  BY DEF MapInv
<1>2. Mentioned' = Mentioned
  <2>1. Mentioned' = Mentioned \cup {}
    BY <1>1, MentionedGrows
  <2> QED BY <2>1
<1>3. \A n \in Mentioned : Expected(n)' = Expected(n)
  BY <1>1, Subjects, ExpectedStays
<1>4. Told' /\ Ranked(Mentioned)'
  BY <1>2, <1>3, Unrevised DEF Skip
<1>5. /\ tools' \in [Ids -> Nat]
      /\ \A id \in Ids : tools'[id] = IF Opened(id)' THEN Place(First(id))' ELSE 0
  BY ToolsFollow DEF Skip
<1>6. status' # "ended" => wire' = items'
  BY DEF Skip, MapInv
<1> QED BY <1>4, <1>5, <1>6, Applied

\* The item of a tool that has one is revised in its place, ...
LEMMA ReviseTool ==
  ASSUME MapInv, ~answered, NEW u \in Update, heard' = Append(heard, u),
         answered' = answered, status' = status, IsTool(u),
         NEW id, id = IdOf[u.call], Opened(id),
         NEW e, e = ExpectedTool(id)', e.id = id,
         items' = [items EXCEPT ![tools[id]] = e], tools' = tools, UpsertItem(e)
  PROVE  MapInv'
<1>1. heard \in Seq(Update) /\ Ranked(Saying("chunk")) /\ id \in Ids
  BY Fields DEF MapInv
<1>2. PICK m \in Mentioned : /\ m = First(id) /\ IsTool(heard[m])
                             /\ IdOf[heard[m].call] = id /\ tools[id] = Place(m)
  BY <1>1, Subjects DEF MapInv
<1>3. Subject(heard[m]) = id
  BY <1>2 DEF Subject, IsTool
<1>4. Mentioned' = Mentioned
  <2>1. ~Mentions(u)
    BY DEF Mentions, IsTool
  <2>2. Mentioned' = Mentioned \cup {}
    BY <1>1, <2>1, MentionedGrows
  <2> QED BY <2>2
<1>5. Expected(m)' = e
  BY <1>1, <1>2, ExpectedAre
<1>6. ASSUME NEW n \in Mentioned, n # m PROVE Expected(n)' = Expected(n)
  <2>1. Subject(heard[n]) # id
    BY <1>1, <1>3, <1>6, OneMention
  <2>2. \A i : IsTool(heard[n]) /\ IdOf[heard[n].call] = i => ~Sets(u, i) /\ ~Merges(u, i)
    BY <2>1 DEF Subject, IsTool, Sets, Opens, Merges, Concerns
  <2>3. u.what # "chunk" /\ u.what # "plan"
    BY DEF IsTool
  <2> QED BY <1>1, <2>2, <2>3, Subjects, ExpectedStays
<1>7. Told' /\ Ranked(Mentioned)'
  BY <1>2, <1>4, <1>5, <1>6, Revised
<1>8. items' = Put(items, e)
  <2>1. e.id = Subject(heard[m])
    BY <1>3
  <2>2. Put(items, e) = [items EXCEPT ![Place(m)] = e]
    BY <2>1, PutIs
  <2> QED BY <1>2, <2>2
<1>9. status' # "ended" => wire' = items'
  BY <1>8, Recorded
<1>10. /\ tools' \in [Ids -> Nat]
       /\ \A i \in Ids : tools'[i] = IF Opened(i)' THEN Place(First(i))' ELSE 0
  <2>1. ~Mentions(u)
    BY DEF Mentions, IsTool
  <2> QED BY <2>1, ToolsFollow
<1> QED BY <1>7, <1>9, <1>10, Applied

\* ... and that of one that has none is added.
LEMMA OpenTool ==
  ASSUME MapInv, ~answered, NEW u \in Update, heard' = Append(heard, u),
         answered' = answered, status' = status, IsTool(u),
         NEW id, id = IdOf[u.call], ~Opened(id), Opens(u, id),
         NEW e, e = OwnItem(u, id),
         items' = Append(items, e), tools' = [tools EXCEPT ![id] = Len(items) + 1],
         UpsertItem(e)
  PROVE  MapInv'
<1>1. heard \in Seq(Update) /\ Ranked(Saying("chunk")) /\ id \in Ids
  BY Fields DEF MapInv
<1>2. PICK N \in Nat : N = Len(heard) + 1
  BY <1>1, Hearing
<1>3. Mentions(u)
  BY DEF Mentions
<1>4. /\ heard'[N] = u /\ Mentioned' = Mentioned \cup {N}
      /\ \A n \in Mentioned : n < N
  BY <1>1, <1>2, <1>3, Hearing, MentionedGrows
<1>5. Expected(N)' = e
  <2>1. u.what # "chunk" /\ u.what # "plan"
    BY DEF IsTool
  <2>2. Expected(N)' = ExpectedTool(id)'
    BY <1>4, <2>1 DEF Expected
  <2>3. ExpectedTool(id)' = OwnItem(u, id)
    BY <1>1, ToolOpened
  <2> QED BY <2>2, <2>3
<1>6. ASSUME NEW n \in Mentioned PROVE Subject(heard[n]) # id
  <2>1. id # AgentId /\ id # PlanId
    BY <1>1, ReservedAssumption
  <2>2. CASE heard[n].what \in {"chunk", "plan"}
    BY <2>1, <2>2 DEF Subject
  <2>3. ASSUME NEW i \in Ids, IsTool(heard[n]), IdOf[heard[n].call] = i, Opened(i)
        PROVE  Subject(heard[n]) # id
    BY <2>3 DEF Subject, IsTool
  <2> QED BY <1>1, <2>2, <2>3, Subjects
<1>7. ASSUME NEW n \in Mentioned PROVE Expected(n)' = Expected(n)
  <2>1. Subject(heard[n]) # id
    BY <1>6
  <2>2. \A i : IsTool(heard[n]) /\ IdOf[heard[n].call] = i => ~Sets(u, i) /\ ~Merges(u, i)
    BY <2>1 DEF Subject, IsTool, Sets, Opens, Merges, Concerns
  <2>3. u.what # "chunk" /\ u.what # "plan"
    BY DEF IsTool
  <2> QED BY <1>1, <2>2, <2>3, Subjects, ExpectedStays
<1>8. Told' /\ Ranked(Mentioned)'
  BY <1>2, <1>4, <1>5, <1>7, Extended
<1>9. items' = Put(items, e)
  <2>1. e.id = id
    BY DEF OwnItem
  <2>2. id # UserId
    BY <1>1, ReservedAssumption
  <2> QED BY <1>6, <2>1, <2>2, PutIs
<1>10. status' # "ended" => wire' = items'
  BY <1>9, Recorded
<1>11. /\ tools' \in [Ids -> Nat]
       /\ \A i \in Ids : tools'[i] = IF Opened(i)' THEN Place(First(i))' ELSE 0
  BY <1>3, ToolsFollow
<1> QED BY <1>8, <1>10, <1>11, Applied
\* A tool that has an item knows its place.
LEMMA OpenedPlace ==
  ASSUME MapInv, NEW id \in Ids, Opened(id)
  PROVE  /\ tools[id] # 0 /\ tools[id] \in DOMAIN items
         /\ items[tools[id]] = ExpectedTool(id)
<1>1. heard \in Seq(Update)
  BY DEF MapInv
<1>2. PICK m \in Mentioned : /\ m = First(id) /\ IsTool(heard[m])
                             /\ IdOf[heard[m].call] = id /\ tools[id] = Place(m)
  BY <1>1, Subjects DEF MapInv
<1>3. Expected(m) = ExpectedTool(id)
  BY <1>2 DEF Expected, IsTool
<1>4. items[Place(m)] = Expected(m)
  BY Places DEF Placed
<1>5. PICK c \in Nat : c = Cardinality(Mentioned)
  BY Places
<1>6. Place(m) \in 2..(c + 1) /\ DOMAIN items = 1..(c + 1)
  BY <1>5, Places
<1>7. Place(m) # 0 /\ Place(m) \in 1..(c + 1)
  BY <1>5, <1>6
<1> QED BY <1>2, <1>3, <1>4, <1>6, <1>7

\* apply_tool_call
LEMMA CallStep ==
  ASSUME MapInv, ~answered, NEW u \in Update, heard' = Append(heard, u),
         answered' = answered, status' = status, u.what = "call", ToolCall(u)
  PROVE  MapInv'
<1>1. PICK id : id = IdOf[u.call]
  OBVIOUS
<1>2. heard \in Seq(Update) /\ IsTool(u) /\ id \in Ids /\ Concerns(u, id)
  BY <1>1, Fields DEF MapInv, IsTool, Concerns
<1>3. OwnType(u) = MapKind(u.kind, <<u.text>>, u.raw)
  BY DEF OwnType
<1>4. CASE OwnType(u) = None
  <2>1. Skip
    BY <1>3, <1>4 DEF ToolCall
  <2>2. ~Mentions(u)
    BY <1>4 DEF Mentions, Opens
  <2>3. \A i : ~Sets(u, i) /\ ~Merges(u, i)
    BY <1>4 DEF Sets, Opens, Merges
  <2> QED BY <2>1, <2>2, <2>3, SkipStep
<1>5. CASE OwnType(u) # None
  <2>1. PICK e : e = OwnItem(u, id)
    OBVIOUS
  <2>2. e = [id |-> id, type |-> OwnType(u), text |-> <<u.text>>, status |-> u.status]
    BY <2>1, Fields DEF OwnItem, Title, Given
  <2>3. e.id = id /\ StoreTool(e)
    BY <1>1, <1>3, <1>5, <2>2 DEF ToolCall
  <2>4. Sets(u, id) /\ Opens(u, id)
    BY <1>2, <1>5 DEF Sets, Opens
  <2>5. CASE Opened(id)
    <3>1. tools[id] # 0
      BY <1>2, <2>5, OpenedPlace
    <3>2. items' = [items EXCEPT ![tools[id]] = e] /\ tools' = tools /\ UpsertItem(e)
      BY <2>3, <3>1 DEF StoreTool
    <3>3. e = ExpectedTool(id)'
      BY <1>2, <2>1, <2>4, <2>5, ToolReplaced
    <3> QED BY <1>1, <1>2, <2>3, <2>5, <3>2, <3>3, ReviseTool
  <2>6. CASE ~Opened(id)
    <3>1. tools[id] = 0
      BY <1>2, <2>6 DEF MapInv
    <3>2. /\ items' = Append(items, e) /\ tools' = [tools EXCEPT ![id] = Len(items) + 1]
          /\ UpsertItem(e)
      BY <2>3, <3>1 DEF StoreTool
    <3> QED BY <1>1, <1>2, <2>1, <2>4, <2>6, <3>2, OpenTool
  <2> QED BY <2>5, <2>6
<1> QED BY <1>4, <1>5

\* apply_tool_update
LEMMA UpdateStep ==
  ASSUME MapInv, ~answered, NEW u \in Update, heard' = Append(heard, u),
         answered' = answered, status' = status, u.what = "update", ToolCallUpdate(u)
  PROVE  MapInv'
<1>1. PICK id : id = IdOf[u.call]
  OBVIOUS
<1>2. heard \in Seq(Update) /\ IsTool(u) /\ id \in Ids /\ Concerns(u, id) /\ Merges(u, id)
  BY <1>1, Fields DEF MapInv, IsTool, Concerns, Merges
<1>3. OwnType(u) = MapKind(Given(u.kind, "other"), Title(u, <<>>), "none")
  BY DEF OwnType
<1>4. CASE Opened(id)
  <2>1. tools[id] # 0 /\ items[tools[id]] = ExpectedTool(id) /\ tools[id] \in DOMAIN items
    BY <1>2, <1>4, OpenedPlace
  <2>2. PICK e : e = Merge(items[tools[id]], u)
    OBVIOUS
  <2>3. items' = [items EXCEPT ![tools[id]] = e] /\ tools' = tools /\ UpsertItem(e)
    BY <1>1, <2>1, <2>2 DEF ToolCallUpdate
  <2>4. e = ExpectedTool(id)'
    BY <1>2, <1>4, <2>1, <2>2, ToolMerged
  <2>5. e.id = id
    BY <2>4 DEF ExpectedTool
  <2> QED BY <1>1, <1>2, <1>4, <2>3, <2>4, <2>5, ReviseTool
<1>5. CASE ~Opened(id) /\ OwnType(u) = None
  <2>1. tools[id] = 0
    BY <1>2, <1>5 DEF MapInv
  <2>2. Skip
    BY <1>1, <1>3, <1>5, <2>1 DEF ToolCallUpdate
  <2>3. ~Mentions(u)
    BY <1>5 DEF Mentions, Opens
  <2>4. \A i \in Ids : Opened(i) => ~Sets(u, i) /\ ~Merges(u, i)
    BY <1>1, <1>5 DEF Sets, Opens, Merges, Concerns
  <2> QED BY <2>2, <2>3, <2>4, SkipStep
<1>6. CASE ~Opened(id) /\ OwnType(u) # None
  <2>1. tools[id] = 0
    BY <1>2, <1>6 DEF MapInv
  <2>2. PICK e : e = OwnItem(u, id)
    OBVIOUS
  <2>3. e.id = id /\ StoreTool(e)
    BY <1>1, <1>3, <1>6, <2>1, <2>2 DEF ToolCallUpdate, OwnItem
  <2>4. /\ items' = Append(items, e) /\ tools' = [tools EXCEPT ![id] = Len(items) + 1]
        /\ UpsertItem(e)
    BY <2>1, <2>3 DEF StoreTool
  <2>5. Opens(u, id)
    BY <1>2, <1>6 DEF Opens
  <2> QED BY <1>1, <1>2, <1>6, <2>2, <2>4, <2>5, OpenTool
<1> QED BY <1>4, <1>5, <1>6

\* A thought.
LEMMA ThoughtStep ==
  ASSUME MapInv, ~answered, NEW u \in Update, heard' = Append(heard, u),
         answered' = answered, status' = status, u.what = "thought", Skip
  PROVE  MapInv'
<1>1. ~IsTool(u)
  BY DEF IsTool
<1>2. ~Mentions(u)
  BY <1>1 DEF Mentions
<1>3. \A i : ~Sets(u, i) /\ ~Merges(u, i)
  BY <1>1 DEF Sets, Opens, Merges, Concerns
<1> QED BY <1>2, <1>3, SkipStep

\* What is told of the same history is the same.
LEMMA Unheard ==
  ASSUME heard' = heard
  PROVE  /\ \A w : Saying(w)' = Saying(w)
         /\ Mentioned' = Mentioned /\ Spoken' = Spoken /\ ExpectedPlan' = ExpectedPlan
         /\ \A id : /\ Opened(id)' = Opened(id) /\ First(id)' = First(id)
                    /\ ExpectedTool(id)' = ExpectedTool(id)
<1>1. \A w : Saying(w)' = Saying(w)
  BY DEF Saying
<1>2. \A id : About(id)' = About(id)
  BY <1>1 DEF About
<1>3. \A id : Opening(id)' = Opening(id)
  BY <1>2 DEF Opening
<1>4. \A id : Opened(id)' = Opened(id) /\ First(id)' = First(id)
  BY <1>3 DEF Opened, First
<1>5. \A id : Setting(id)' = Setting(id) /\ Merging(id)' = Merging(id)
  BY <1>2, <1>3, <1>4 DEF Setting, Merging
<1>6. \A id, n : TextOf(id, n)' = TextOf(id, n)
  BY <1>5 DEF TextOf
<1>7. \A id, n : TypeAt(id, n)' = TypeAt(id, n)
  BY <1>5, <1>6 DEF TypeAt
<1>8. ASSUME NEW id PROVE ExpectedTool(id)' = ExpectedTool(id)
  <2>1. StatusOf(id)' = StatusOf(id)
    BY <1>5 DEF StatusOf
  <2>2. TypeOf(id)' = TypeOf(id)
    <3>1. Typing(id)' = Typing(id)
      BY <1>5, <1>7 DEF Typing
    <3>2. PICK n : n = Max(Typing(id)')
      OBVIOUS
    <3>3. TypeOf(id)' = TypeAt(id, n)'
      BY <3>2, NextFields
    <3>4. TypeOf(id) = TypeAt(id, n)
      BY <3>1, <3>2 DEF TypeOf, Typing
    <3> QED BY <1>7, <3>3, <3>4
  <2>3. TextOf(id, Len(heard))' = TextOf(id, Len(heard))
    BY <1>5 DEF TextOf
  <2> QED BY <2>1, <2>2, <2>3 DEF ExpectedTool
<1>9. Mentioned' = Mentioned
  BY <1>1, <1>4 DEF Mentioned
<1>10. Spoken' = Spoken
  BY <1>1 DEF Spoken
<1>11. ExpectedPlan' = ExpectedPlan
  BY <1>1 DEF ExpectedPlan, PlanId
<1> QED BY <1>1, <1>4, <1>8, <1>9, <1>10, <1>11
\* What a step without an update has to show.
LEMMA Unapplied ==
  ASSUME MapInv, heard' = heard, tools' = tools,
         answered' \in BOOLEAN, status' \in {"inProgress", "completed", "ended"},
         status' = "completed" => answered',
         Told', status' # "ended" => wire' = items'
  PROVE  MapInv'
<1>1. /\ Saying("chunk")' = Saying("chunk") /\ Mentioned' = Mentioned
      /\ \A id : Opened(id)' = Opened(id) /\ First(id)' = First(id)
  BY Unheard
<1>2. /\ Ranked(Saying("chunk"))' /\ Ranked(Mentioned)' /\ heard' \in Seq(Update)
      /\ tools' \in [Ids -> Nat]
  BY <1>1 DEF MapInv
<1>3. \A id \in Ids : tools'[id] = IF Opened(id)' THEN Place(First(id))' ELSE 0
  <2> SUFFICES ASSUME NEW id \in Ids
               PROVE  tools'[id] = IF Opened(id)' THEN Place(First(id))' ELSE 0
    OBVIOUS
  <2>1. Place(First(id))' = Place(First(id))
    BY <1>1 DEF Place
  <2> QED BY <1>1, <2>1 DEF MapInv
<1>4. ItemsAreWhatWasHeard'
  BY DEF Told, ItemsAreWhatWasHeard
<1> QED BY <1>2, <1>3, <1>4 DEF MapInv

\* A mention means the same in the same history, but for the message that is
\* finished.
LEMMA ExpectedSame ==
  ASSUME heard \in Seq(Update), heard' = heard, NEW n \in Mentioned
  PROVE  /\ heard[n].what = "chunk" =>
              Expected(n) = ExpectedMessage /\ Expected(n)' = ExpectedMessage'
         /\ heard[n].what # "chunk" \/ answered' = answered => Expected(n)' = Expected(n)
<1>1. ASSUME heard[n].what = "chunk"
      PROVE  Expected(n) = ExpectedMessage /\ Expected(n)' = ExpectedMessage'
  BY <1>1 DEF Expected
<1>2. ASSUME answered' = answered PROVE ExpectedMessage' = ExpectedMessage
  BY <1>2, MessageIs, Unheard
<1>3. ASSUME heard[n].what = "plan" PROVE Expected(n)' = Expected(n)
  BY <1>3, Unheard DEF Expected
<1>4. ASSUME NEW id \in Ids, IsTool(heard[n]), IdOf[heard[n].call] = id
      PROVE  Expected(n)' = Expected(n)
  <2>1. heard[n].what # "chunk" /\ heard[n].what # "plan"
    BY <1>4 DEF IsTool
  <2>2. Expected(n)' = ExpectedTool(id)' /\ Expected(n) = ExpectedTool(id)
    BY <1>4, <2>1 DEF Expected
  <2> QED BY <2>2, Unheard
<1> QED BY <1>1, <1>2, <1>3, <1>4, Subjects

\* The steps that leave the items alone.
LEMMA QuietStep ==
  ASSUME MapInv, UNCHANGED <<items, tools, heard>>, answered' = answered,
         status' \in {"inProgress", "completed", "ended"},
         status' = "completed" => answered', status' # "ended" => wire' = items'
  PROVE  MapInv'
<1>1. heard \in Seq(Update) /\ answered \in BOOLEAN
  BY DEF MapInv
<1>2. Mentioned' = Mentioned /\ \A n \in Mentioned : Expected(n)' = Expected(n)
  BY <1>1, ExpectedSame, Unheard
<1>3. Told'
  BY <1>2, Unrevised
<1> QED BY <1>1, <1>3, Unapplied

\* finish_agent_message
LEMMA FinishStep ==
  ASSUME MapInv, FinishAgentMessage
  PROVE  MapInv'
<1> USE DEF FinishAgentMessage
<1>1. heard \in Seq(Update) /\ heard' = heard /\ tools' = tools
  BY DEF MapInv
<1>2. Mentioned' = Mentioned /\ Spoken' = Spoken
  BY <1>1, Unheard
<1>3. Named("chunk", AgentId)
  BY DEF Named
<1>4. CASE Saying("chunk") # {}
  <2>1. PICK m \in Mentioned : /\ heard[m].what = "chunk" /\ Subject(heard[m]) = AgentId
                               /\ At(items, AgentId) # {}
                               /\ Min(At(items, AgentId)) = Place(m)
                               /\ items[Place(m)] = Expected(m)
                               /\ \A n \in Mentioned : n # m => heard[n].what # "chunk"
    BY <1>3, <1>4, WhereSaid
  <2>2. PICK e : e = [items[Place(m)] EXCEPT !.status = "completed"]
    OBVIOUS
  <2>3. items' = [items EXCEPT ![Place(m)] = e] /\ UpsertItem(e)
    BY <2>1, <2>2
  <2>4. PICK old : old = items[Place(m)]
    OBVIOUS
  <2>5. old = [id |-> AgentId, type |-> "agentMessage", text |-> Spoken,
               status |-> "inProgress"]
    BY <1>1, <2>1, <2>4, ExpectedSame, MessageIs
  <2>6. e = [id |-> AgentId, type |-> "agentMessage", text |-> Spoken,
             status |-> "completed"]
    BY <2>2, <2>4, <2>5, ItemChanged
  <2>7. Expected(m)' = e
    BY <1>1, <1>2, <2>1, <2>6, ExpectedSame, MessageIs
  <2>8. \A n \in Mentioned : n # m => Expected(n)' = Expected(n)
    BY <1>1, <2>1, ExpectedSame
  <2>9. Told'
    BY <1>2, <2>3, <2>7, <2>8, Revised
  <2>10. e.id = Subject(heard[m])
    BY <2>1, <2>6
  <2>11. items' = Put(items, e)
    BY <2>3, <2>10, PutIs
  <2>12. status' # "ended" => wire' = items'
    BY <2>3, <2>11, Recorded
  <2> QED BY <1>1, <2>9, <2>12, Unapplied DEF MapInv
<1>5. CASE Saying("chunk") = {}
  <2>1. At(items, AgentId) = {} /\ \A n \in Mentioned : heard[n].what # "chunk"
    BY <1>3, <1>5, WhereSaid
  <2>2. items' = items /\ wire' = wire
    BY <2>1
  <2>3. \A n \in Mentioned : Expected(n)' = Expected(n)
    BY <1>1, <2>1, ExpectedSame
  <2>4. Told'
    BY <1>2, <2>2, <2>3, Unrevised
  <2> QED BY <1>1, <2>2, <2>4, Unapplied DEF MapInv
<1> QED BY <1>4, <1>5

LEMMA MapInit ==
  Init => MapInv
<1> SUFFICES ASSUME Init PROVE MapInv
  OBVIOUS
<1>1. /\ heard = <<>> /\ DOMAIN heard = {} /\ heard \in Seq(Update)
      /\ status = "inProgress" /\ answered = FALSE
      /\ items = <<UserItem>> /\ wire = items /\ tools = [i \in Ids |-> 0]
  BY DEF Init
<1>2. \A w : Saying(w) = {}
  BY <1>1 DEF Saying
<1>3. \A id : ~Opened(id)
  BY <1>2 DEF Opened, Opening, About
<1>4. Mentioned = {}
  BY <1>2, <1>3 DEF Mentioned
<1>5. IsFiniteSet({}) /\ Cardinality({}) = 0
  BY FS_EmptySet
<1>6. Ranked({})
  BY <1>5 DEF Ranked
<1>7. Placed
  <2>1. IsList(<<UserItem>>, 0 + 1)
    BY DEF IsList
  <2> QED BY <1>1, <1>4, <1>5, <2>1 DEF Placed
<1>8. Told
  BY <1>4, <1>5, <1>6, <1>7, ToldPlaced
<1>9. ItemsAreWhatWasHeard
  BY <1>1, <1>8 DEF Told, ItemsAreWhatWasHeard
<1> QED BY <1>1, <1>2, <1>3, <1>4, <1>6, <1>9 DEF MapInv

LEMMA MapNext ==
  MapInv /\ [Next]_vars => MapInv'
<1> SUFFICES ASSUME MapInv, [Next]_vars PROVE MapInv'
  OBVIOUS
<1>1. ASSUME NEW u \in Updates, Apply(u) PROVE MapInv'
  <2>1. /\ u \in Update /\ ~answered /\ heard' = Append(heard, u)
        /\ answered' = answered /\ status' = status
    BY <1>1, UpdatesAssumption DEF Apply
  <2>2. CASE u.what = "chunk" /\ AgentMessageChunk(u)
    BY <2>1, <2>2, ChunkStep
  <2>3. CASE u.what = "plan" /\ Plan(u)
    BY <2>1, <2>3, PlanStep
  <2>4. CASE u.what = "call" /\ ToolCall(u)
    BY <2>1, <2>4, CallStep
  <2>5. CASE u.what = "update" /\ ToolCallUpdate(u)
    BY <2>1, <2>5, UpdateStep
  <2>6. CASE u.what = "thought" /\ Skip
    BY <2>1, <2>6, ThoughtStep
  <2> QED BY <1>1, <2>2, <2>3, <2>4, <2>5, <2>6 DEF Apply
<1>2. CASE FinishAgentMessage
  BY <1>2, FinishStep
<1>3. CASE PublishStop
  BY <1>3, QuietStep DEF PublishStop, MapInv
<1>4. CASE PublishElsewhere
  BY <1>4, QuietStep DEF PublishElsewhere, MapInv
<1>5. CASE UNCHANGED vars
  BY <1>5, QuietStep DEF vars, MapInv
<1> QED BY <1>1, <1>2, <1>3, <1>4, <1>5 DEF Next

-----------------------------------------------------------------------------
(***************************************************************************)
(* The theorems                                                            *)
(***************************************************************************)
\* Mapper and Ledger::upsert_item together: the mapper knows the place of each
\* tool's item, the items are those of the history, and the record differs from
\* the mapper's items only in a turn that was ended before its prompt returned.
THEOREM MapperInvariant == Spec => []MapInv
BY MapInit, MapNext, PTL DEF Spec

\* apply_update merges one update at a time into the items; whatever the
\* updates, their number and their order, the items are those the whole history
\* amounts to, and so are those in the record of a turn in progress.
THEOREM ItemsTellTheHistory == Spec => []ItemsAreWhatWasHeard
<1>1. MapInv => ItemsAreWhatWasHeard
  BY DEF MapInv
<1> QED BY <1>1, MapperInvariant, PTL

\* publish_stop comes after finish_agent_message: a turn recorded as completed
\* has its message finished, with every chunk of it.
THEOREM CompletedTurnIsWhole == Spec => []CompletedTurnHasItsMessage
<1>1. MapInv => CompletedTurnHasItsMessage
  <2> SUFFICES ASSUME MapInv, status = "completed", NEW k \in At(wire, AgentId)
               PROVE  /\ wire[k].status = "completed"
                      /\ Len(wire[k].text) = Cardinality(Saying("chunk"))
    BY DEF CompletedTurnHasItsMessage
  <2>1. /\ wire = items /\ answered /\ heard \in Seq(Update)
        /\ Ranked(Saying("chunk"))
    BY DEF MapInv
  <2>2. Named("chunk", AgentId)
    BY DEF Named
  <2>3. Saying("chunk") # {}
    BY <2>1, <2>2, WhereSaid
  <2>4. PICK m \in Mentioned : /\ heard[m].what = "chunk"
                               /\ At(items, AgentId) = {Place(m)}
                               /\ items[Place(m)] = Expected(m)
    BY <2>2, <2>3, WhereSaid
  <2>5. wire[k] = ExpectedMessage
    BY <2>1, <2>4 DEF Expected
  <2>6. wire[k].status = "completed" /\ wire[k].text = Spoken
    BY <2>1, <2>5, MessageIs
  <2>7. Len(Spoken) = Cardinality(Saying("chunk"))
    <3>1. PICK S : S = Saying("chunk")
      OBVIOUS
    <3>2. S \in SUBSET Nat /\ IsFiniteSet(S) /\ Ranked(S)
      BY <2>1, <3>1, Positions
    <3>3. PICK c \in Nat : c = Cardinality(S)
      BY <3>2, FS_CardinalityType
    <3>4. DOMAIN InOrder(S) = 1..c
      BY ONLY <3>2, <3>3, Orders
    <3>5. Spoken = [j \in 1..c |-> heard[InOrder(S)[j]].text]
      BY <3>1, <3>4 DEF Spoken
    <3>6. Spoken \in [1..c -> {heard[InOrder(S)[j]].text : j \in 1..c}]
      BY <3>5
    <3>7. Len(Spoken) = c
      BY <3>3, <3>6
    <3> QED BY <3>1, <3>3, <3>7
  <2> QED BY <2>6, <2>7
<1> QED BY <1>1, MapperInvariant, PTL
=============================================================================
