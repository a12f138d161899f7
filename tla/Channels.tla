------------------------------ MODULE Channels ------------------------------
(***************************************************************************)
(* What the layer of messages promises to the layer above (NETWORK.md, on  *)
(* start_reading and start_writing): the messages that a node pushes for a *)
(* peer are received by that peer whole, each once, in the order in which  *)
(* they were pushed.  A connection that breaks loses what was under way.   *)
(***************************************************************************)
EXTENDS Naturals, Sequences

CONSTANTS Links,        \* the pairs <<a, b>> where a pushes messages for b
          Message(_, _) \* the k-th message of a link, as its receiver has it

VARIABLES pushed,   \* how many messages were pushed, for every link
          received  \* the messages received, for every link

channelVars == << pushed, received >>

Init == /\ pushed = [l \in Links |-> 0]
        /\ received = [l \in Links |-> << >>]

Push(l) == /\ pushed' = [pushed EXCEPT ![l] = @ + 1]
           /\ UNCHANGED received

Receive(l) ==
    /\ Len(received[l]) < pushed[l]
    /\ received' = [received EXCEPT ![l] = Append(@, Message(l, Len(@) + 1))]
    /\ UNCHANGED pushed

Next == \E l \in Links : Push(l) \/ Receive(l)

Spec == Init /\ [][Next]_channelVars
=============================================================================
