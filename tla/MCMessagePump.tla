---------------------------- MODULE MCMessagePump ----------------------------
(* Instances of MessagePump for TLC. *)
EXTENDS MessagePump

CONSTANTS a, b, c

\* One node writes to two others.
FanOut == {<< a, b >>, << a, c >>}
\* Two nodes write to the same one.
FanIn == {<< b, a >>, << c, a >>}
ToB == {<< a, b >>}
Sturdy == {}
\* With and without a body.
Sizes == [k \in 1..MaxPushed |-> IF k % 2 = 1 THEN 2 ELSE 0]
=============================================================================
