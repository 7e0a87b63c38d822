---------------------------- MODULE MCAcpSession ----------------------------
(***************************************************************************)
(* AcpSession for TLC.                                                     *)
(***************************************************************************)
EXTENDS AcpSession

CONSTANTS r1, r2, s1, s2

\* A request that can be answered either way, one that cannot be allowed and
\* one that cannot be refused.
SomeOptions == {{"allowOnce", "rejectOnce"}, {"rejectAlways"}, {"allowAlways"}}

Stored == {None, s1}
=============================================================================
