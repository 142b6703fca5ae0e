------------------------------- MODULE Session -------------------------------
(***************************************************************************)
(* The FarBus server: ServerState and serve_session                        *)
(* (crates/farbus-core/src/session.rs) with the hotplug loop of            *)
(* crates/farbus-server/src/main.rs.                                       *)
(*                                                                         *)
(* One connection is one call of serve_session: a reader that handles one  *)
(* message at a time, a writer, and a Tokio task for every accepted URB.   *)
(* Connections share the inventory, the lease table, the tokens and the    *)
(* pairing PIN, each behind its own lock.  A step of the model is what     *)
(* happens between two points where another task can get in and tell.      *)
(* A reply that changes nothing on the server (every Error, DeviceList,    *)
(* UrbUnlinked) is a stuttering step of these variables.                   *)
(***************************************************************************)
EXTENDS DeviceInventory, LeaseBook, PairingPin

CONSTANTS
    Sessions,       \* connection slots; a slot is reused after it closes
    NoSession,      \* a task whose connection is gone
    TaskIds,        \* bound: URB tasks alive at once, over all connections
    MaxInFlight,    \* MAX_IN_FLIGHT_URBS, permits of one connection: 64
    MaxTokens,      \* bound: bearer tokens issued
    NoScan          \* the hotplug loop has no scan result in hand

TokenIds == 1..MaxTokens

ASSUME SessionAssumption ==
    /\ NoSession \notin Sessions
    /\ IsFiniteSet(TaskIds)
    /\ MaxInFlight \in Nat \ {0}
    /\ MaxTokens \in Nat
    /\ \A keys \in SUBSET HostKeys : NoScan \notin Scans(keys)

VARIABLES
    owners,     \* LeaseBook: id -> peer
    tokenOwner, \* bearer token -> the peer it was issued to
    live,       \* tokens that are less than 24 hours old
    conn,       \* where the connection is in serve_session
    peer,       \* fingerprint of the connection's Hello
    principal,  \* peer authenticated on the connection by PIN or token
    pc,         \* where the reader is in its UrbSubmit arm
    urb,        \* device of the URB the reader is handling
    tasks,      \* the spawned URB tasks
    bus,        \* physical devices that are plugged in
    scan        \* result of the blocking libusb scan, not yet applied

serverVars  == <<owners, tokenOwner, live>>
connVars    == <<conn, peer, principal, pc, urb>>
hotplugVars == <<bus, scan>>
vars == <<inventoryVars, pin, serverVars, connVars, tasks, hotplugVars>>

\* open: reader running.  draining: the reader has seen EOF, the writer goes on for
\* a client that may still read.  hungup: the same for a client that is known to be
\* gone.  ended: try_join has returned, the teardown is to come.
ConnStates == {"closed", "open", "draining", "hungup", "ended"}

\* ready: waiting for a message.  leased: token and lease checked.
\* waiting: presence token taken, waiting for a permit.
ReaderStates == {"ready", "leased", "waiting"}

\* spawned: not run yet.  snapped: a host device, handed to the blocking pool.
\* executing: talking to the hardware.  executed: hardware answered, last
\* presence check to come.  finished: permit given back, completion not sent.
Phases == {"free", "spawned", "snapped", "executing", "executed", "finished"}

Task == [phase : Phases, sess : Sessions \cup {NoSession},
         peer : Peers \cup {NoPeer}, dev : {0} \cup Ids,
         key : Keys \cup {NoDevice}, ok : BOOLEAN]

NoTask == [phase |-> "free", sess |-> NoSession, peer |-> NoPeer, dev |-> 0,
           key |-> NoDevice, ok |-> FALSE]

TypeOK ==
    /\ InventoryTypeOK
    /\ pin \in Pin
    /\ owners \in LeaseTable(Ids)
    /\ tokenOwner \in [TokenIds -> Peers \cup {NoPeer}]
    /\ live \subseteq TokenIds
    /\ conn \in [Sessions -> ConnStates]
    /\ peer \in [Sessions -> Peers \cup {NoPeer}]
    /\ principal \in [Sessions -> Peers \cup {NoPeer}]
    /\ pc \in [Sessions -> ReaderStates]
    /\ urb \in [Sessions -> {0} \cup Ids]
    /\ tasks \in [TaskIds -> Task]
    /\ bus \subseteq HostKeys
    /\ scan = NoScan \/ \E keys \in SUBSET HostKeys : scan \in Scans(keys)

Init ==
    /\ InventoryInit
    /\ pin = issue
    /\ owners = [d \in Ids |-> NoPeer]
    /\ tokenOwner = [t \in TokenIds |-> NoPeer]
    /\ live = {}
    /\ conn = [s \in Sessions |-> "closed"]
    /\ peer = [s \in Sessions |-> NoPeer]
    /\ principal = [s \in Sessions |-> NoPeer]
    /\ pc = [s \in Sessions |-> "ready"]
    /\ urb = [s \in Sessions |-> 0]
    /\ tasks = [t \in TaskIds |-> NoTask]
    /\ bus = {present[i].key : i \in HostIds}
    /\ scan = NoScan

-----------------------------------------------------------------------------
(* The reader: one action per message it handles.                          *)

Ready(s) == conn[s] = "open" /\ pc[s] = "ready"

\* The listener accepts a connection and the TLS handshake succeeds.
Accept(s) ==
    /\ conn[s] = "closed"
    /\ conn' = [conn EXCEPT ![s] = "open"]
    /\ UNCHANGED <<inventoryVars, pin, serverVars, peer, principal, pc, urb, tasks, hotplugVars>>

\* Every Hello is answered and sets the fingerprint of the connection; what the
\* connection is authenticated as stays.
HandleHello(s, p) ==
    /\ Ready(s)
    /\ peer' = [peer EXCEPT ![s] = p]
    /\ UNCHANGED <<inventoryVars, pin, serverVars, conn, principal, pc, urb, tasks, hotplugVars>>

\* The PIN is only looked at when the fingerprint is the one of the Hello.
HandlePairRequest(s, p, match) ==
    /\ Ready(s)
    /\ peer[s] = p
    /\ pin' = validate_pairing_pin(pin, match)
    /\ IF Validates(pin, match)
       THEN \E t \in TokenIds :
              /\ tokenOwner[t] = NoPeer
              /\ \A u \in TokenIds : u < t => tokenOwner[u] # NoPeer
              /\ tokenOwner' = [tokenOwner EXCEPT ![t] = p]
              /\ live' = live \cup {t}
              /\ principal' = [principal EXCEPT ![s] = p]
       ELSE UNCHANGED <<tokenOwner, live, principal>>
    /\ UNCHANGED <<inventoryVars, owners, conn, peer, pc, urb, tasks, hotplugVars>>

\* The token of a request is known, belongs to the connection's peer and has
\* not expired; otherwise the request gets an Error and changes nothing.
Authorized(s, t) ==
    /\ tokenOwner[t] # NoPeer
    /\ peer[s] = tokenOwner[t]
    /\ t \in live

HandleDeviceListRequest(s, t) ==
    /\ Ready(s)
    /\ Authorized(s, t)
    /\ principal' = [principal EXCEPT ![s] = tokenOwner[t]]
    /\ UNCHANGED <<inventoryVars, pin, serverVars, conn, peer, pc, urb, tasks, hotplugVars>>

\* Mutation: the token of the request is not looked at.
AttachUnchecked(s, t, d) ==
    /\ Ready(s)
    /\ peer[s] # NoPeer
    /\ principal' = [principal EXCEPT ![s] = peer[s]]
    /\ owners' = IF present[d] # NoDevice /\ present[d].exported
                 THEN acquire(owners, d, peer[s]) ELSE owners
    /\ UNCHANGED <<inventoryVars, pin, tokenOwner, live, conn, peer, pc, urb, tasks, hotplugVars>>

\* Looking the device up and taking the lease is one step: the read lock on
\* the inventory is held until acquire() has returned.
HandleAttachRequest(s, t, d) ==
    /\ Ready(s)
    /\ Authorized(s, t)
    /\ principal' = [principal EXCEPT ![s] = tokenOwner[t]]
    /\ owners' = IF present[d] # NoDevice /\ present[d].exported
                 THEN acquire(owners, d, tokenOwner[t]) ELSE owners
    /\ UNCHANGED <<inventoryVars, pin, tokenOwner, live, conn, peer, pc, urb, tasks, hotplugVars>>

HandleDetachRequest(s, t, d) ==
    /\ Ready(s)
    /\ Authorized(s, t)
    /\ principal' = [principal EXCEPT ![s] = tokenOwner[t]]
    /\ owners' = release(owners, d, tokenOwner[t])
    /\ UNCHANGED <<inventoryVars, pin, tokenOwner, live, conn, peer, pc, urb, tasks, hotplugVars>>

\* Mutation: the lease of the device is not looked at.
SubmitUnleased(s, d) ==
    /\ Ready(s)
    /\ principal[s] # NoPeer
    /\ \E t \in live : tokenOwner[t] = principal[s]
    /\ pc' = [pc EXCEPT ![s] = "leased"]
    /\ urb' = [urb EXCEPT ![s] = d]
    /\ UNCHANGED <<inventoryVars, pin, serverVars, conn, peer, principal, tasks, hotplugVars>>

\* UrbSubmit, up to the lease check.  Any live token of the principal will do.
\* A refusal answers -13 and changes nothing.  Tokens and leases are two locks,
\* but a token that expires between them might as well expire after both.
SubmitCheck(s, d) ==
    /\ Ready(s)
    /\ principal[s] # NoPeer
    /\ \E t \in live : tokenOwner[t] = principal[s]
    /\ owner(owners, d) = principal[s]
    /\ pc' = [pc EXCEPT ![s] = "leased"]
    /\ urb' = [urb EXCEPT ![s] = d]
    /\ UNCHANGED <<inventoryVars, pin, serverVars, conn, peer, principal, tasks, hotplugVars>>

\* The presence token is taken under a lock of its own; a device removed since
\* the lease check has none, and the URB is answered -1.
SubmitPresence(s) ==
    /\ conn[s] = "open" /\ pc[s] = "leased"
    /\ IF urb[s] \in presence
       THEN pc' = [pc EXCEPT ![s] = "waiting"] /\ UNCHANGED urb
       ELSE pc' = [pc EXCEPT ![s] = "ready"] /\ urb' = [urb EXCEPT ![s] = 0]
    /\ UNCHANGED <<inventoryVars, pin, serverVars, conn, peer, principal, tasks, hotplugVars>>

\* Tasks of s that hold one of its permits.
InFlight(s) == {t \in TaskIds : tasks[t].sess = s /\ tasks[t].phase # "finished"}

\* A permit is free: spawn the task and read on.
SubmitSpawn(s, t) ==
    /\ conn[s] = "open" /\ pc[s] = "waiting"
    /\ Cardinality(InFlight(s)) < MaxInFlight
    /\ tasks[t].phase = "free"
    /\ tasks' = [tasks EXCEPT ![t] =
                   [NoTask EXCEPT !.phase = "spawned", !.sess = s,
                                  !.peer = principal[s], !.dev = urb[s]]]
    /\ pc' = [pc EXCEPT ![s] = "ready"]
    /\ urb' = [urb EXCEPT ![s] = 0]
    /\ UNCHANGED <<inventoryVars, pin, serverVars, conn, peer, principal, hotplugVars>>

-----------------------------------------------------------------------------
(* The end of a connection.                                                *)

\* EOF between two messages: the reader returns Ok and drops its sender.
ReaderEof(s) ==
    /\ Ready(s)
    /\ conn' = [conn EXCEPT ![s] = "draining"]
    /\ UNCHANGED <<inventoryVars, pin, serverVars, peer, principal, pc, urb, tasks, hotplugVars>>

\* The client closes its other half too, and the server's host is told: what is
\* written to it from now on goes through or fails, and does not wait.
HangUp(s) ==
    /\ conn[s] = "draining"
    /\ conn' = [conn EXCEPT ![s] = "hungup"]
    /\ UNCHANGED <<inventoryVars, pin, serverVars, peer, principal, pc, urb, tasks, hotplugVars>>

\* A read or a write fails: try_join drops both halves wherever they are.  The
\* tasks are detached and run on, their completions go nowhere.
SessionError(s) ==
    /\ conn[s] \in {"open", "draining", "hungup"}
    /\ conn' = [conn EXCEPT ![s] = "ended"]
    /\ pc' = [pc EXCEPT ![s] = "ready"]
    /\ urb' = [urb EXCEPT ![s] = 0]
    /\ tasks' = [t \in TaskIds |->
                   IF tasks[t].sess = s THEN [tasks[t] EXCEPT !.sess = NoSession]
                   ELSE tasks[t]]
    /\ UNCHANGED <<inventoryVars, pin, serverVars, peer, principal, hotplugVars>>

\* Mutation: the session keeps a sender of its own, the queue never closes.
DrainedNever(s) == conn[s] \in {"draining", "hungup"} /\ FALSE

\* No sender of the connection's queue is left.
Drained(s) == conn[s] \in {"draining", "hungup"} /\ \A t \in TaskIds : tasks[t].sess # s

\* The writer has written all that was in the queue, or waited for room in it: any
\* time after the last sender is gone, or never when the client is there and does
\* not read.
WriterEnds(s) ==
    /\ Drained(s)
    /\ conn' = [conn EXCEPT ![s] = "ended"]
    /\ UNCHANGED <<inventoryVars, pin, serverVars, peer, principal, pc, urb, tasks, hotplugVars>>

\* After try_join: every lease of the connection's principal is dropped, of the last
\* one if there were several.
Teardown(s) ==
    /\ conn[s] = "ended"
    /\ owners' = IF principal[s] = NoPeer THEN owners
                 ELSE release_all(owners, principal[s])
    /\ conn' = [conn EXCEPT ![s] = "closed"]
    /\ peer' = [peer EXCEPT ![s] = NoPeer]
    /\ principal' = [principal EXCEPT ![s] = NoPeer]
    /\ UNCHANGED <<inventoryVars, pin, tokenOwner, live, pc, urb, tasks, hotplugVars>>

-----------------------------------------------------------------------------
(* A URB task: complete_session_urb, then the completion.                  *)

\* Moves task t to a phase, with what it knows of the outcome.
TaskStep(t, phase, ok) ==
    /\ tasks' = [tasks EXCEPT ![t] = [@ EXCEPT !.phase = phase, !.ok = ok]]
    /\ UNCHANGED <<inventoryVars, pin, serverVars, connVars, hotplugVars>>

\* First presence check, snapshot of the inventory and choice of the backend.
\* No removal between the check and the snapshot gives another outcome.
TaskLookup(t) ==
    LET d == tasks[t].dev
    IN  /\ tasks[t].phase = "spawned"
        /\ \/ /\ d \in retired \/ present[d] = NoDevice
              /\ TaskStep(t, "finished", FALSE)
           \/ /\ d \notin retired /\ present[d] # NoDevice
              /\ present[d].key \in EmulatedKeys
              /\ \E ok \in BOOLEAN : TaskStep(t, "finished", ok)
           \/ /\ d \notin retired /\ present[d] # NoDevice
              /\ present[d].key \in HostKeys
              /\ tasks' = [tasks EXCEPT ![t] =
                   [@ EXCEPT !.key = present[d].key,
                             !.phase = IF present[d].exported THEN "snapped"
                                       ELSE "executed"]]
              /\ UNCHANGED <<inventoryVars, pin, serverVars, connVars, hotplugVars>>

\* The blocking thread starts: second presence check.
TaskStart(t) ==
    /\ tasks[t].phase = "snapped"
    /\ TaskStep(t, IF tasks[t].dev \in retired THEN "executed" ELSE "executing", FALSE)

\* The transfer ends within its 500 ms; it can only succeed on hardware that is
\* there.
TaskTransfer(t) ==
    /\ tasks[t].phase = "executing"
    /\ \E ok \in BOOLEAN : (ok => tasks[t].key \in bus) /\ TaskStep(t, "executed", ok)

\* Mutation: the last presence check left out.
FinishUnchecked(t) ==
    /\ tasks[t].phase = "executed"
    /\ TaskStep(t, "finished", tasks[t].ok)

\* Mutation: a failed transfer ends the task without giving back the permit.
FinishOnSuccess(t) ==
    /\ tasks[t].phase = "executed"
    /\ tasks[t].ok /\ tasks[t].dev \notin retired
    /\ TaskStep(t, "finished", TRUE)

\* Last presence check; the permit is dropped before the completion is sent.
TaskFinish(t) ==
    /\ tasks[t].phase = "executed"
    /\ TaskStep(t, "finished", tasks[t].ok /\ tasks[t].dev \notin retired)

\* The completion is the writer's: it enters the connection's queue, or waits for
\* room there, or is dropped with it.
TaskReply(t) ==
    /\ tasks[t].phase = "finished"
    /\ tasks' = [tasks EXCEPT ![t] = NoTask]
    /\ UNCHANGED <<inventoryVars, pin, serverVars, connVars, hotplugVars>>

-----------------------------------------------------------------------------
(* Hotplug, and the passing of time.                                       *)

\* Enough ids are left for every port: the counter does not saturate.
IdsLeft == next_id + Cardinality(HostKeys) <= MaxId

Plug(k) ==
    /\ k \notin bus /\ IdsLeft
    /\ bus' = bus \cup {k}
    /\ UNCHANGED <<inventoryVars, pin, serverVars, connVars, tasks, scan>>

Unplug(k) ==
    /\ k \in bus
    /\ bus' = bus \ {k}
    /\ UNCHANGED <<inventoryVars, pin, serverVars, connVars, tasks, scan>>

\* A scan of the bus and the export policy on its result; a scan that fails is
\* skipped (a stuttering step).
HotplugScan ==
    /\ scan = NoScan
    /\ \E v \in Scans(bus) : scan' = v
    /\ UNCHANGED <<inventoryVars, pin, serverVars, connVars, tasks, bus>>

\* refresh_host_devices: leases of removed devices are dropped before the write
\* lock on the inventory is.
RefreshHostDevices ==
    /\ scan # NoScan
    /\ refresh_hosts(scan)
    /\ owners' = release_devices(owners, Removed(scan))
    /\ scan' = NoScan
    /\ UNCHANGED <<pin, tokenOwner, live, connVars, tasks, bus>>

ExpireToken(t) ==
    /\ t \in live
    /\ live' = live \ {t}
    /\ UNCHANGED <<inventoryVars, pin, owners, tokenOwner, connVars, tasks, hotplugVars>>

ExpirePin ==
    /\ PinExpires
    /\ UNCHANGED <<inventoryVars, serverVars, connVars, tasks, hotplugVars>>

RenewPin ==
    /\ pin # renew_expired_pin(pin)
    /\ pin' = renew_expired_pin(pin)
    /\ UNCHANGED <<inventoryVars, serverVars, connVars, tasks, hotplugVars>>

-----------------------------------------------------------------------------
Attach == \E s \in Sessions, t \in TokenIds, d \in Ids : HandleAttachRequest(s, t, d)

Reader(s) ==
    \/ Accept(s)
    \/ \E p \in Peers : HandleHello(s, p)
    \/ \E p \in Peers, m \in BOOLEAN : HandlePairRequest(s, p, m)
    \/ \E t \in TokenIds : HandleDeviceListRequest(s, t)
    \/ \E t \in TokenIds, d \in Ids : HandleDetachRequest(s, t, d)
    \/ \E d \in Ids : SubmitCheck(s, d)
    \/ SubmitPresence(s)
    \/ \E t \in TaskIds : SubmitSpawn(s, t)

Ending(s) == ReaderEof(s) \/ HangUp(s) \/ SessionError(s) \/ WriterEnds(s) \/ Teardown(s)

TaskNext(t) ==
    TaskLookup(t) \/ TaskStart(t) \/ TaskTransfer(t) \/ TaskFinish(t) \/ TaskReply(t)

Environment ==
    \/ \E k \in HostKeys : Plug(k) \/ Unplug(k)
    \/ HotplugScan
    \/ RefreshHostDevices
    \/ \E t \in TokenIds : ExpireToken(t)
    \/ ExpirePin
    \/ RenewPin

\* Every step but an attach.
Other ==
    \/ \E s \in Sessions : Reader(s) \/ Ending(s)
    \/ \E t \in TaskIds : TaskNext(t)
    \/ Environment

Next == Attach \/ Other

Spec == Init /\ [][Next]_vars

\* Fairness.  Tokio polls every task that is ready and a hardware transfer ends
\* within 500 ms, so a URB task, a reader that is not waiting for its client, a
\* teardown and the hotplug loop all move on, and so does a writer whose client is
\* gone.  A client that is there need not read, so that its writer owes nothing;
\* nor do clients, connections, plugs and timeouts.  HotplugScan says that scans do
\* not fail for ever.
Fairness ==
    /\ \A s \in Sessions : /\ WF_vars(Teardown(s))
                           /\ WF_vars(conn[s] = "hungup" /\ WriterEnds(s))
                           /\ WF_vars(SubmitPresence(s))
                           /\ WF_vars(\E t \in TaskIds : SubmitSpawn(s, t))
    /\ \A t \in TaskIds : WF_vars(TaskNext(t))
    /\ WF_vars(HotplugScan) /\ WF_vars(RefreshHostDevices)

FairSpec == Spec /\ Fairness

-----------------------------------------------------------------------------
(* Properties.                                                             *)

\* No lease on a device that has gone: attach holds the inventory's read lock
\* from the lookup to acquire(), and a refresh its write lock from the update
\* to release_devices(), so no attach slips in between.
LeasedDevicePresent ==
    \A d \in Ids : owners[d] # NoPeer => present[d] # NoDevice

\* Strengthening for the property below: a connection is only ever authenticated by
\* a token issued to the peer it is authenticated as, and a closed one is not at all.
PrincipalSound ==
    \A s \in Sessions : principal[s] # NoPeer =>
        /\ conn[s] # "closed"
        /\ \E t \in TokenIds : tokenOwner[t] = principal[s]

\* A lease is only ever held by a peer that was given a bearer token, that is,
\* by one that once knew the PIN.
LeaseHolderPaired ==
    \A d \in Ids : owners[d] # NoPeer => \E t \in TokenIds : tokenOwner[t] = owners[d]

\* docs/THREAT_MODEL.md, "Controls": a connection has at most MaxInFlight URBs
\* in flight, also when the reader waits for a permit with a URB in hand.
InFlightBounded == \A s \in Sessions : Cardinality(InFlight(s)) <= MaxInFlight

\* A transfer that was under way when its device was seen to go never ends as a
\* success: a client is not told that a device it has lost did the work.
NoSuccessAfterRemoval ==
    [][\A t \in TaskIds :
         tasks[t].phase # "finished" /\ tasks'[t].phase = "finished" /\ tasks'[t].ok
            => tasks[t].dev \notin retired]_vars

\* The server implements the abstract lease service.
Abstract == INSTANCE LeaseSpec WITH
    Devices <- Ids,
    available <- {i \in Ids : present[i] # NoDevice},
    holder <- owners

ImplementsLeaseSpec == Abstract!Spec

\* A connection whose client is gone is torn down, and its leases with it, whatever
\* its URBs are doing.  (A client that has only closed its own half and does not read
\* keeps the writer, and so its leases, for as long as it likes.)
DrainingCloses == \A s \in Sessions : conn[s] = "hungup" ~> conn[s] = "closed"

\* A reader stopped by backpressure gets its permit (or its connection ends).
BackpressureEnds == \A s \in Sessions : pc[s] = "waiting" ~> pc[s] = "ready"

\* An unplugged device loses its id, and with it its lease, unless it is back
\* on its port before a scan noticed.
RemovalNoticed ==
    \A k \in HostKeys : k \notin bus ~> (k \in bus \/ known_ids[k] = 0)
=============================================================================
