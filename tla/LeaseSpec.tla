------------------------------ MODULE LeaseSpec ------------------------------
(***************************************************************************)
(* What the server promises about leases, whatever its connections, tasks  *)
(* and hotplug loop do: a device is leased to at most one peer, only while *)
(* it is available; a lease never passes from one peer to another without  *)
(* having been given back; a device that goes away takes its lease along   *)
(* in the same step.                                                       *)
(***************************************************************************)
CONSTANTS Devices, Peers, NoPeer

VARIABLES
    available,  \* devices that can be leased
    holder      \* device -> peer, or NoPeer

Init ==
    /\ available \subseteq Devices
    /\ holder = [d \in Devices |-> NoPeer]

\* p gets a device that is there and free.
Grant(d, p) ==
    /\ d \in available
    /\ holder[d] = NoPeer
    /\ holder' = [holder EXCEPT ![d] = p]
    /\ UNCHANGED available

\* Devices leave one peer at a time, by a detach or by the end of a connection.
GiveBack(p, D) ==
    /\ \A d \in D : holder[d] = p
    /\ holder' = [d \in Devices |-> IF d \in D THEN NoPeer ELSE holder[d]]
    /\ UNCHANGED available

\* A rescan of the hardware: some devices come, some go.
Rescan(A) ==
    /\ available' = A
    /\ holder' = [d \in Devices |-> IF d \in available \ A THEN NoPeer ELSE holder[d]]

Next ==
    \/ \E d \in Devices, p \in Peers : Grant(d, p)
    \/ \E p \in Peers, D \in SUBSET Devices : GiveBack(p, D)
    \/ \E A \in SUBSET Devices : Rescan(A)

Spec == Init /\ [][Next]_<<available, holder>>
=============================================================================
