------------------------------ MODULE LeaseBook ------------------------------
(***************************************************************************)
(* crates/farbus-core/src/lease.rs: the table of exclusive device leases.  *)
(* The table is a plain value behind ServerState.leases (a Mutex), so its  *)
(* operations are operators on the value; a module that holds the table in *)
(* a variable applies one of them per critical section.                    *)
(***************************************************************************)
CONSTANTS
    Peers,      \* client identities (certificate fingerprints)
    NoPeer      \* "no owner": the device has no entry in the table

ASSUME NoPeerAssumption == NoPeer \notin Peers

\* HashMap<DeviceId, PeerFingerprint> over the device ids of D.
LeaseTable(D) == [D -> Peers \cup {NoPeer}]

\* The owner recorded for d, NoPeer for None.
owner(owners, d) == owners[d]

\* Mutation: a second peer takes the lease over.
CanAcquireLeased(owners, d, p) == p \in Peers

\* acquire() is Ok: free, or already owned by the same peer (reentrant).
CanAcquire(owners, d, p) == owners[d] \in {p, NoPeer}

\* The table acquire() leaves behind; Err leaves it alone.
acquire(owners, d, p) ==
    IF CanAcquire(owners, d, p) THEN [owners EXCEPT ![d] = p] ELSE owners

\* The table release() leaves behind; NotOwner and NotLeased leave it alone.
release(owners, d, p) ==
    IF owners[d] = p THEN [owners EXCEPT ![d] = NoPeer] ELSE owners

\* Mutation: the condition of retain() inverted.
release_all_inverted(owners, p) ==
    [d \in DOMAIN owners |-> IF owners[d] = p THEN owners[d] ELSE NoPeer]

\* Drops every lease of p.
release_all(owners, p) ==
    [d \in DOMAIN owners |-> IF owners[d] = p THEN NoPeer ELSE owners[d]]

\* Mutation: the condition of retain() inverted.
release_devices_inverted(owners, removed) ==
    [d \in DOMAIN owners |-> IF d \in removed THEN owners[d] ELSE NoPeer]

\* Drops the leases of the devices in removed, whoever owns them.
release_devices(owners, removed) ==
    [d \in DOMAIN owners |-> IF d \in removed THEN NoPeer ELSE owners[d]]
=============================================================================
