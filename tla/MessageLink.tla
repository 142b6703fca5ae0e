---------------------------- MODULE MessageLink ------------------------------
(***************************************************************************)
(* What a FarBus connection promises to the code above it: in each         *)
(* direction the messages that were sent arrive whole, in order and once,  *)
(* until the connection ends.  A new connection starts from nothing.       *)
(***************************************************************************)
EXTENDS Naturals, Sequences

CONSTANTS Directions, Messages

VARIABLES
    sent,   \* direction -> messages handed to the connection
    got     \* direction -> messages it has delivered

Init ==
    /\ sent = [d \in Directions |-> <<>>]
    /\ got = [d \in Directions |-> <<>>]

Send(d, m) ==
    /\ sent' = [sent EXCEPT ![d] = Append(@, m)]
    /\ UNCHANGED got

Deliver(d) ==
    /\ Len(got[d]) < Len(sent[d])
    /\ got' = [got EXCEPT ![d] = Append(@, sent[d][Len(@) + 1])]
    /\ UNCHANGED sent

Reopen ==
    /\ sent' = [d \in Directions |-> <<>>]
    /\ got' = [d \in Directions |-> <<>>]

Next ==
    \/ \E d \in Directions, m \in Messages : Send(d, m)
    \/ \E d \in Directions : Deliver(d)
    \/ Reopen

Spec == Init /\ [][Next]_<<sent, got>>
=============================================================================
