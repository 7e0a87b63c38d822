------------------------------ MODULE MCSocket ------------------------------
(***************************************************************************)
(* Socket for TLC.                                                         *)
(***************************************************************************)
EXTENDS Socket

CONSTANTS s1, s2

SomeArgs ==
  {[listen |-> "unix:///path", home |-> "home", unknown |-> FALSE],
   [listen |-> "unix://path", home |-> "home", unknown |-> FALSE],
   [listen |-> None, home |-> "home", unknown |-> FALSE],
   [listen |-> "unix:///path", home |-> "relative", unknown |-> FALSE]}

\* The request of a client, and what may be wrong with it, once or twice.
Good == [headers |-> "whole", line |-> "three", method |-> "GET",
         target |-> "/", version |-> "HTTP/1.1", upgrade |-> <<"websocket">>,
         connection |-> <<{"keep-alive", "upgrade"}>>, key |-> <<16>>,
         ws |-> <<"13">>]

Faulty(r) ==
  {[r EXCEPT !.headers = "large"], [r EXCEPT !.headers = "cut"],
   [r EXCEPT !.headers = "no colon"], [r EXCEPT !.line = "four"],
   [r EXCEPT !.method = "POST"], [r EXCEPT !.target = "/chat"],
   [r EXCEPT !.version = "HTTP/1.0"], [r EXCEPT !.upgrade = <<>>],
   [r EXCEPT !.upgrade = <<"h2c", "websocket">>],
   [r EXCEPT !.connection = <<{"keep-alive"}>>], [r EXCEPT !.key = <<8>>],
   [r EXCEPT !.key = <<>>], [r EXCEPT !.ws = <<"8">>], [r EXCEPT !.ws = <<>>]}

SomeRequests ==
  {Good} \cup Faulty(Good) \cup UNION {Faulty(r) : r \in Faulty(Good)}

Text == [opcode |-> "text", fin |-> TRUE, masked |-> TRUE, reserved |-> FALSE,
         length |-> "fits",
         body |-> [json |-> TRUE, method |-> "model/list", id |-> TRUE,
                   ccas |-> FALSE, accepted |-> TRUE]]

\* One frame of each kind that is treated differently.
SomeFrames ==
  {Text, [Text EXCEPT !.body.method = "thread/start"],
   [Text EXCEPT !.body.method = "turn/start"],
   [Text EXCEPT !.body.method = "turn/start", !.body.accepted = FALSE],
   [Text EXCEPT !.body.id = FALSE], [Text EXCEPT !.opcode = "ping"],
   [Text EXCEPT !.opcode = "pong"], [Text EXCEPT !.masked = FALSE]}
=============================================================================
