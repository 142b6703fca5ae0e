---------------------------- MODULE SessionProofs ----------------------------
(***************************************************************************)
(* Proofs about the server of module Session, for any number of            *)
(* connections, peers, devices, URB tasks and tokens, and at the end about *)
(* SessionAudit: what a URB task may touch.                                *)
(***************************************************************************)
EXTENDS SessionAudit, InventoryProofs, FiniteSetTheorems

\* The PIN operations keep the PIN well formed: the attempt counter of a PIN
\* that is not locked out has room for one more.
LEMMA PinOperationsTyped ==
    ASSUME NEW p \in Pin, NEW match \in BOOLEAN
    PROVE  /\ issue \in Pin
           /\ validate_pairing_pin(p, match) \in Pin
           /\ renew_expired_pin(p) \in Pin
           /\ [p EXCEPT !.expired = TRUE] \in Pin
<1>1. issue \in Pin
  BY MaxAttemptsAssumption DEF issue, Pin
<1>2. AfterIsValid(p, match) \in Pin
  <2>1. CASE Locked(p) \/ p.consumed \/ p.expired
    BY <2>1 DEF AfterIsValid
  <2>2. CASE ~Locked(p) /\ ~p.consumed /\ ~p.expired
    <3>1. p.attempts + 1 \in 0..MaxAttempts
      BY <2>2, MaxAttemptsAssumption DEF Locked, Pin
    <3> QED BY <2>2, <3>1 DEF AfterIsValid, Pin
  <2> QED BY <2>1, <2>2
<1>3. [p EXCEPT !.expired = TRUE] \in Pin
  BY DEF Pin
<1> QED BY <1>1, <1>2, <1>3 DEF validate_pairing_pin, renew_expired_pin

\* The lease operations keep the table a table.
LEMMA LeaseOperationsTyped ==
    ASSUME NEW table \in LeaseTable(Ids), NEW d \in Ids, NEW p \in Peers, NEW D
    PROVE  /\ acquire(table, d, p) \in LeaseTable(Ids)
           /\ release(table, d, p) \in LeaseTable(Ids)
           /\ release_all(table, p) \in LeaseTable(Ids)
           /\ release_devices(table, D) \in LeaseTable(Ids)
BY DEF LeaseTable, acquire, release, release_all, release_devices

LEMMA TypeInit == Init => TypeOK
<1> SUFFICES ASSUME Init PROVE TypeOK
  OBVIOUS
<1>1. InventoryTypeOK
  BY InitGivesInv DEF Init, InventoryInv
<1>2. pin \in Pin
  BY MaxAttemptsAssumption DEF Init, issue, Pin
<1>3. NoTask \in Task
  BY DEF NoTask, Task, Phases
<1>4. bus \subseteq HostKeys
  BY DEF Init, HostIds
<1>5. /\ owners \in LeaseTable(Ids)
      /\ tokenOwner \in [TokenIds -> Peers \cup {NoPeer}]
      /\ live \subseteq TokenIds
      /\ conn \in [Sessions -> ConnStates]
      /\ peer \in [Sessions -> Peers \cup {NoPeer}]
      /\ principal \in [Sessions -> Peers \cup {NoPeer}]
      /\ pc \in [Sessions -> ReaderStates]
      /\ urb \in [Sessions -> {0} \cup Ids]
      /\ scan = NoScan
  BY DEF Init, LeaseTable, ConnStates, ReaderStates
<1>6. tasks \in [TaskIds -> Task]
  BY <1>3 DEF Init
<1> QED BY <1>1, <1>2, <1>4, <1>5, <1>6 DEF TypeOK

\* The reader's steps are well typed.
LEMMA TypeReader ==
    ASSUME TypeOK, NEW s \in Sessions, Reader(s) \/ Attach
    PROVE  TypeOK'
<1> USE DEF TypeOK, inventoryVars, serverVars, connVars, hotplugVars, InventoryTypeOK
<1>1. CASE Accept(s)
  BY <1>1 DEF Accept, ConnStates
<1>2. ASSUME NEW p \in Peers, HandleHello(s, p) PROVE TypeOK'
  BY <1>2 DEF HandleHello
<1>3. ASSUME NEW p \in Peers, NEW m \in BOOLEAN, HandlePairRequest(s, p, m) PROVE TypeOK'
  <2>1. pin' \in Pin
    BY <1>3, PinOperationsTyped DEF HandlePairRequest
  <2>2. /\ tokenOwner' \in [TokenIds -> Peers \cup {NoPeer}]
        /\ live' \subseteq TokenIds
        /\ principal' \in [Sessions -> Peers \cup {NoPeer}]
    BY <1>3 DEF HandlePairRequest
  <2> QED BY <1>3, <2>1, <2>2 DEF HandlePairRequest
<1>4. ASSUME NEW t \in TokenIds, HandleDeviceListRequest(s, t) PROVE TypeOK'
  BY <1>4 DEF HandleDeviceListRequest
<1>5. ASSUME NEW r \in Sessions, NEW t \in TokenIds, NEW d \in Ids, HandleAttachRequest(r, t, d)
      PROVE  TypeOK'
  <2>1. tokenOwner[t] \in Peers
    BY <1>5 DEF HandleAttachRequest, Authorized
  <2>2. owners' \in LeaseTable(Ids)
    BY <1>5, <2>1, LeaseOperationsTyped DEF HandleAttachRequest
  <2> QED BY <1>5, <2>2 DEF HandleAttachRequest
<1>6. ASSUME NEW t \in TokenIds, NEW d \in Ids, HandleDetachRequest(s, t, d) PROVE TypeOK'
  <2>1. tokenOwner[t] \in Peers
    BY <1>6 DEF HandleDetachRequest, Authorized
  <2>2. owners' \in LeaseTable(Ids)
    BY <1>6, <2>1, LeaseOperationsTyped DEF HandleDetachRequest
  <2> QED BY <1>6, <2>2 DEF HandleDetachRequest
<1>7. ASSUME NEW d \in Ids, SubmitCheck(s, d) PROVE TypeOK'
  BY <1>7 DEF SubmitCheck, ReaderStates
<1>8. CASE SubmitPresence(s)
  BY <1>8 DEF SubmitPresence, ReaderStates
<1>9. ASSUME NEW t \in TaskIds, SubmitSpawn(s, t) PROVE TypeOK'
  <2>1. [NoTask EXCEPT !.phase = "spawned", !.sess = s,
                       !.peer = principal[s], !.dev = urb[s]] \in Task
    BY DEF NoTask, Task, Phases
  <2>2. tasks' \in [TaskIds -> Task]
    BY <1>9, <2>1 DEF SubmitSpawn
  <2> QED BY <1>9, <2>2 DEF SubmitSpawn, ReaderStates
<1> QED BY <1>1, <1>2, <1>3, <1>4, <1>5, <1>6, <1>7, <1>8, <1>9 DEF Reader, Attach

\* So are the steps that end a connection.
LEMMA TypeEnding ==
    ASSUME TypeOK, NEW s \in Sessions, Ending(s)
    PROVE  TypeOK'
<1> USE DEF TypeOK, inventoryVars, serverVars, connVars, hotplugVars, InventoryTypeOK
<1>1. CASE ReaderEof(s) \/ HangUp(s) \/ WriterEnds(s)
  BY <1>1 DEF ReaderEof, HangUp, WriterEnds, ConnStates
<1>2. CASE SessionError(s)
  <2>1. \A t \in TaskIds : [tasks[t] EXCEPT !.sess = NoSession] \in Task
    BY DEF Task
  <2>2. tasks' \in [TaskIds -> Task]
    BY <1>2, <2>1 DEF SessionError
  <2> QED BY <1>2, <2>2 DEF SessionError, ConnStates, ReaderStates
<1>3. CASE Teardown(s)
  <2>1. owners' \in LeaseTable(Ids)
    BY <1>3 DEF Teardown, LeaseTable, release_all
  <2> QED BY <1>3, <2>1 DEF Teardown, ConnStates
<1> QED BY <1>1, <1>2, <1>3 DEF Ending

\* And the steps of a URB task.
LEMMA TypeTask ==
    ASSUME TypeOK, NEW t \in TaskIds, TaskNext(t)
    PROVE  TypeOK'
<1> USE DEF TypeOK, inventoryVars, serverVars, connVars, hotplugVars, InventoryTypeOK
<1>1. ASSUME NEW phase \in Phases, NEW ok \in BOOLEAN, TaskStep(t, phase, ok)
      PROVE  TypeOK'
  <2>1. [tasks[t] EXCEPT !.phase = phase, !.ok = ok] \in Task
    BY DEF Task
  <2>2. tasks' \in [TaskIds -> Task]
    BY <1>1, <2>1 DEF TaskStep
  <2> QED BY <1>1, <2>2 DEF TaskStep
<1>2. CASE TaskLookup(t)
  <2> DEFINE d == tasks[t].dev
  <2>1. CASE TaskStep(t, "finished", FALSE)
    BY <1>1, <2>1 DEF Phases
  <2>2. CASE \E ok \in BOOLEAN : TaskStep(t, "finished", ok)
    BY <1>1, <2>2 DEF Phases
  <2>3. CASE /\ present[d].key \in HostKeys
             /\ tasks' = [tasks EXCEPT ![t] =
                  [@ EXCEPT !.key = present[d].key,
                            !.phase = IF present[d].exported THEN "snapped"
                                      ELSE "executed"]]
             /\ UNCHANGED <<inventoryVars, pin, serverVars, connVars, hotplugVars>>
    <3>1. present[d].key \in Keys
      BY <2>3 DEF Keys
    <3>2. \A phase \in Phases :
            [tasks[t] EXCEPT !.key = present[d].key, !.phase = phase] \in Task
      BY <3>1 DEF Task
    <3>3. tasks' \in [TaskIds -> Task]
      BY <2>3, <3>2 DEF Phases
    <3> QED BY <2>3, <3>3
  <2> QED BY <1>2, <2>1, <2>2, <2>3 DEF TaskLookup
<1>3. CASE TaskStart(t)
  BY <1>1, <1>3 DEF TaskStart, Phases
<1>4. CASE TaskTransfer(t)
  BY <1>1, <1>4 DEF TaskTransfer, Phases
<1>5. CASE TaskFinish(t)
  <2>1. (tasks[t].ok /\ tasks[t].dev \notin retired) \in BOOLEAN
    OBVIOUS
  <2> QED BY <1>1, <1>5, <2>1 DEF TaskFinish, Phases
<1>6. CASE TaskReply(t)
  <2>1. NoTask \in Task
    BY DEF NoTask, Task, Phases
  <2> QED BY <1>6, <2>1 DEF TaskReply
<1> QED BY <1>2, <1>3, <1>4, <1>5, <1>6 DEF TaskNext

\* A scan in hand is a scan of some set of ports.
LEMMA ScanInHand ==
    ASSUME TypeOK, RefreshHostDevices
    PROVE  \E keys \in SUBSET HostKeys : scan \in Scans(keys) /\ refresh_hosts(scan)
BY DEF TypeOK, RefreshHostDevices

\* And those of the hotplug loop and of time.
LEMMA TypeEnvironment ==
    ASSUME TypeOK, Environment
    PROVE  TypeOK'
<1> USE DEF inventoryVars, serverVars, connVars, hotplugVars
<1>1. ASSUME NEW k \in HostKeys, Plug(k) \/ Unplug(k) PROVE TypeOK'
  BY <1>1 DEF Plug, Unplug, TypeOK, InventoryTypeOK
<1>2. CASE HotplugScan
  <2>1. bus \in SUBSET HostKeys /\ scan' \in Scans(bus)
    BY <1>2 DEF HotplugScan, TypeOK
  <2> QED BY <1>2, <2>1 DEF HotplugScan, TypeOK, InventoryTypeOK
<1>3. CASE RefreshHostDevices
  <2>1. InventoryTypeOK'
    BY <1>3, ScanInHand, RefreshKeepsType DEF TypeOK
  <2>2. owners' \in LeaseTable(Ids)
    BY <1>3 DEF RefreshHostDevices, TypeOK, LeaseTable, release_devices
  <2> QED BY <1>3, <2>1, <2>2 DEF RefreshHostDevices, TypeOK
<1>4. ASSUME NEW t \in TokenIds, ExpireToken(t) PROVE TypeOK'
  BY <1>4 DEF ExpireToken, TypeOK, InventoryTypeOK
<1>5. CASE ExpirePin
  <2>1. pin' \in Pin
    BY <1>5, PinOperationsTyped DEF ExpirePin, PinExpires, TypeOK
  <2> QED BY <1>5, <2>1 DEF ExpirePin, TypeOK, InventoryTypeOK
<1>6. CASE RenewPin
  <2>1. pin' \in Pin
    BY <1>6, PinOperationsTyped DEF RenewPin, TypeOK
  <2> QED BY <1>6, <2>1 DEF RenewPin, TypeOK, InventoryTypeOK
<1> QED BY <1>1, <1>2, <1>3, <1>4, <1>5, <1>6 DEF Environment

LEMMA TypeStep == TypeOK /\ [Next]_vars => TypeOK'
<1> SUFFICES ASSUME TypeOK, [Next]_vars PROVE TypeOK'
  OBVIOUS
<1>1. CASE Attach
  BY <1>1, TypeReader DEF Attach
<1>2. CASE Other
  BY <1>2, TypeReader, TypeEnding, TypeTask, TypeEnvironment DEF Other
<1>3. CASE UNCHANGED vars
  BY <1>3 DEF vars, inventoryVars, serverVars, connVars, hotplugVars, TypeOK, InventoryTypeOK
<1> QED BY <1>1, <1>2, <1>3 DEF Next

\* Type correctness of the server.
THEOREM SessionTypeOK == Spec => []TypeOK
  BY TypeInit, TypeStep, PTL DEF Spec

-----------------------------------------------------------------------------
(* Safety of the leases.                                                   *)

\* The inductive invariant.
SessionInv ==
    /\ TypeOK
    /\ PrincipalSound
    /\ LeasedDevicePresent
    /\ LeaseHolderPaired

LEMMA SessionInvInit == Init => SessionInv
<1> SUFFICES ASSUME Init PROVE SessionInv
  OBVIOUS
<1>1. /\ \A d \in Ids : owners[d] = NoPeer
      /\ \A s \in Sessions : principal[s] = NoPeer
  BY DEF Init
<1> QED BY <1>1, TypeInit DEF SessionInv, PrincipalSound, LeasedDevicePresent,
                              LeaseHolderPaired

\* Steps that leave the inventory, the leases, the tokens and the principals alone.
LEMMA QuietStep ==
    ASSUME SessionInv, TypeOK',
           UNCHANGED <<present, owners, tokenOwner, principal>>,
           \A s \in Sessions : conn[s] # "closed" => conn'[s] # "closed"
    PROVE  SessionInv'
BY DEF SessionInv, PrincipalSound, LeasedDevicePresent, LeaseHolderPaired

\* A connection becomes authenticated as the peer of its Hello (again, or for
\* the first time), and at most one lease changes, to that peer or to nobody.
LEMMA AuthStep ==
    ASSUME SessionInv, TypeOK',
           NEW s \in Sessions, conn[s] = "open", peer[s] \in Peers,
           NEW t \in TokenIds, tokenOwner'[t] = peer[s],
           \A u \in TokenIds : tokenOwner[u] # NoPeer => tokenOwner'[u] = tokenOwner[u],
           principal' = [principal EXCEPT ![s] = peer[s]],
           \A d \in Ids : \/ owners'[d] \in {owners[d], NoPeer}
                          \/ owners'[d] = peer[s] /\ present[d] # NoDevice,
           UNCHANGED <<present, conn>>
    PROVE  SessionInv'
<1> USE DEF SessionInv
<1>1. principal \in [Sessions -> Peers \cup {NoPeer}] /\ peer[s] # NoPeer
  BY NoPeerAssumption DEF TypeOK
<1>2. \A r \in Sessions : principal'[r] = IF r = s THEN peer[s] ELSE principal[r]
  BY <1>1
<1>3. \A p \in Peers : (\E u \in TokenIds : tokenOwner[u] = p)
                          => \E u \in TokenIds : tokenOwner'[u] = p
  BY NoPeerAssumption
<1>4. PrincipalSound'
  <2> SUFFICES ASSUME NEW r \in Sessions, principal'[r] # NoPeer
               PROVE  /\ conn[r] # "closed"
                      /\ \E u \in TokenIds : tokenOwner'[u] = principal'[r]
    BY DEF PrincipalSound
  <2>1. CASE r = s
    BY <1>2, <2>1
  <2>2. CASE r # s
    BY <1>1, <1>2, <1>3, <2>2 DEF PrincipalSound
  <2> QED BY <2>1, <2>2
<1>5. LeasedDevicePresent'
  BY DEF LeasedDevicePresent
<1>6. LeaseHolderPaired'
  <2> SUFFICES ASSUME NEW d \in Ids, owners'[d] # NoPeer
               PROVE  \E u \in TokenIds : tokenOwner'[u] = owners'[d]
    BY DEF LeaseHolderPaired
  <2>1. CASE owners'[d] = peer[s]
    BY <2>1
  <2>2. CASE owners'[d] = owners[d]
    <3>1. owners[d] \in Peers
      BY <2>2 DEF TypeOK, LeaseTable
    <3> QED BY <1>3, <2>2, <3>1 DEF LeaseHolderPaired
  <2> QED BY <2>1, <2>2
<1> QED BY <1>4, <1>5, <1>6

\* The authorization check, unfolded.
LEMMA AuthorizedFacts ==
    ASSUME TypeOK, NEW s \in Sessions, NEW t \in TokenIds, Authorized(s, t)
    PROVE  tokenOwner[t] = peer[s] /\ peer[s] \in Peers
BY DEF TypeOK, Authorized

LEMMA InvReader ==
    ASSUME SessionInv, TypeOK', NEW s \in Sessions, Reader(s)
    PROVE  SessionInv'
<1> USE DEF inventoryVars, serverVars, connVars, hotplugVars
<1>0. TypeOK
  BY DEF SessionInv
<1>1. CASE Accept(s)
  BY <1>0, <1>1, QuietStep DEF Accept, TypeOK
<1>2. ASSUME NEW p \in Peers, HandleHello(s, p) PROVE SessionInv'
  BY <1>2, QuietStep DEF HandleHello
<1>3. ASSUME NEW p \in Peers, NEW m \in BOOLEAN, HandlePairRequest(s, p, m) PROVE SessionInv'
  <2>1. CASE Validates(pin, m)
    <3>1. PICK t \in TokenIds : /\ tokenOwner[t] = NoPeer
                                /\ tokenOwner' = [tokenOwner EXCEPT ![t] = p]
                                /\ principal' = [principal EXCEPT ![s] = p]
      BY <1>3, <2>1 DEF HandlePairRequest
    <3>2. /\ conn[s] = "open" /\ peer[s] = p
          /\ UNCHANGED <<present, owners, conn>>
      BY <1>3 DEF HandlePairRequest, Ready
    <3>3. /\ tokenOwner'[t] = p
          /\ \A u \in TokenIds : tokenOwner[u] # NoPeer => tokenOwner'[u] = tokenOwner[u]
      BY <1>0, <3>1 DEF TypeOK
    <3> QED BY <3>1, <3>2, <3>3, AuthStep
  <2>2. CASE ~Validates(pin, m)
    BY <1>3, <2>2, QuietStep DEF HandlePairRequest
  <2> QED BY <2>1, <2>2
<1>4. ASSUME NEW t \in TokenIds, HandleDeviceListRequest(s, t) PROVE SessionInv'
  <2>1. tokenOwner[t] = peer[s] /\ peer[s] \in Peers
    BY <1>0, <1>4, AuthorizedFacts DEF HandleDeviceListRequest
  <2> QED BY <1>4, <2>1, AuthStep DEF HandleDeviceListRequest, Ready
<1>5. ASSUME NEW t \in TokenIds, NEW d \in Ids, HandleDetachRequest(s, t, d)
      PROVE  SessionInv'
  <2>1. tokenOwner[t] = peer[s] /\ peer[s] \in Peers
    BY <1>0, <1>5, AuthorizedFacts DEF HandleDetachRequest
  <2>2. \A e \in Ids : owners'[e] \in {owners[e], NoPeer}
    BY <1>0, <1>5 DEF HandleDetachRequest, release, TypeOK, LeaseTable
  <2> QED BY <1>5, <2>1, <2>2, AuthStep DEF HandleDetachRequest, Ready
<1>6. ASSUME NEW d \in Ids, SubmitCheck(s, d) PROVE SessionInv'
  BY <1>6, QuietStep DEF SubmitCheck
<1>7. CASE SubmitPresence(s)
  BY <1>7, QuietStep DEF SubmitPresence
<1>8. ASSUME NEW t \in TaskIds, SubmitSpawn(s, t) PROVE SessionInv'
  BY <1>8, QuietStep DEF SubmitSpawn
<1> QED BY <1>1, <1>2, <1>3, <1>4, <1>5, <1>6, <1>7, <1>8 DEF Reader

\* An attach looks the device up and takes the lease in one step, so what it
\* leases is present.
LEMMA InvAttach ==
    ASSUME SessionInv, TypeOK', Attach
    PROVE  SessionInv'
<1>0. TypeOK
  BY DEF SessionInv
<1>1. PICK s \in Sessions, t \in TokenIds, d \in Ids : HandleAttachRequest(s, t, d)
  BY DEF Attach
<1>2. tokenOwner[t] = peer[s] /\ peer[s] \in Peers
  BY <1>0, <1>1, AuthorizedFacts DEF HandleAttachRequest
<1>3. \A e \in Ids : \/ owners'[e] \in {owners[e], NoPeer}
                     \/ owners'[e] = peer[s] /\ present[e] # NoDevice
  BY <1>0, <1>1, <1>2 DEF HandleAttachRequest, acquire, TypeOK, LeaseTable
<1> QED BY <1>1, <1>2, <1>3, AuthStep DEF HandleAttachRequest, Ready, inventoryVars

\* The end of a connection drops every lease of its principal.
LEMMA InvEnding ==
    ASSUME SessionInv, TypeOK', NEW s \in Sessions, Ending(s)
    PROVE  SessionInv'
<1> USE DEF inventoryVars, serverVars, connVars, hotplugVars
<1>0. TypeOK
  BY DEF SessionInv
<1>1. CASE ReaderEof(s) \/ HangUp(s) \/ WriterEnds(s)
  BY <1>0, <1>1, QuietStep DEF ReaderEof, HangUp, WriterEnds, TypeOK
<1>2. CASE SessionError(s)
  BY <1>0, <1>2, QuietStep DEF SessionError, TypeOK
<1>3. CASE Teardown(s)
  <2>1. \A d \in Ids : owners'[d] # NoPeer =>
                          owners'[d] = owners[d] /\ owners[d] # principal[s]
    BY <1>0, <1>3 DEF Teardown, release_all, TypeOK, LeaseTable
  <2>2. \A r \in Sessions : r # s => /\ conn'[r] = conn[r]
                                     /\ principal'[r] = principal[r]
    BY <1>0, <1>3 DEF Teardown, TypeOK
  <2>3. principal'[s] = NoPeer /\ UNCHANGED <<present, tokenOwner>>
    BY <1>0, <1>3 DEF Teardown, TypeOK
  <2>4. PrincipalSound'
    BY <2>2, <2>3 DEF SessionInv, PrincipalSound
  <2>5. LeasedDevicePresent'
    BY <2>1, <2>3 DEF SessionInv, LeasedDevicePresent
  <2>6. LeaseHolderPaired'
    BY <2>1, <2>3 DEF SessionInv, LeaseHolderPaired
  <2> QED BY <2>4, <2>5, <2>6 DEF SessionInv
<1> QED BY <1>1, <1>2, <1>3 DEF Ending

LEMMA InvTask ==
    ASSUME SessionInv, TypeOK', NEW t \in TaskIds, TaskNext(t)
    PROVE  SessionInv'
<1>1. UNCHANGED <<present, owners, tokenOwner, conn, peer, principal>>
  BY DEF TaskNext, TaskLookup, TaskStart, TaskTransfer, TaskFinish, TaskReply, TaskStep,
         inventoryVars, serverVars, connVars
<1> QED BY <1>1, QuietStep

\* A refresh takes a device and its lease away in one step.
LEMMA InvEnvironment ==
    ASSUME SessionInv, TypeOK', Environment
    PROVE  SessionInv'
<1> USE DEF inventoryVars, serverVars, connVars, hotplugVars
<1>1. ASSUME NEW k \in HostKeys, Plug(k) \/ Unplug(k) PROVE SessionInv'
  BY <1>1, QuietStep DEF Plug, Unplug
<1>2. CASE HotplugScan
  BY <1>2, QuietStep DEF HotplugScan
<1>3. CASE RefreshHostDevices
  <2>1. PICK keys \in SUBSET HostKeys : scan \in Scans(keys) /\ refresh_hosts(scan)
    BY <1>3, ScanInHand DEF SessionInv
  <2>2. \A d \in Ids : owners'[d] # NoPeer => owners'[d] = owners[d] /\ d \notin Removed(scan)
    BY <1>3 DEF RefreshHostDevices, release_devices, SessionInv, TypeOK, LeaseTable
  <2>3. \A i \in ScannedIds(scan) : DeviceFor(scan, i) # NoDevice
    BY <2>1, DeviceForScanned, ScanShape, InventoryAssumption
  <2>4. \A d \in Ids : present[d] # NoDevice /\ d \notin Removed(scan) => present'[d] # NoDevice
    BY <2>1, <2>3 DEF refresh_hosts, KnownIdsAfter, PresenceAfter
  <2>5. LeasedDevicePresent'
    BY <2>2, <2>4 DEF SessionInv, LeasedDevicePresent
  <2> QED BY <1>3, <2>2, <2>5 DEF RefreshHostDevices, SessionInv, PrincipalSound,
                                  LeaseHolderPaired
<1>4. ASSUME NEW t \in TokenIds, ExpireToken(t) PROVE SessionInv'
  BY <1>4, QuietStep DEF ExpireToken
<1>5. CASE ExpirePin \/ RenewPin
  BY <1>5, QuietStep DEF ExpirePin, RenewPin
<1> QED BY <1>1, <1>2, <1>3, <1>4, <1>5 DEF Environment

LEMMA SessionInvStep == SessionInv /\ [Next]_vars => SessionInv'
<1> SUFFICES ASSUME SessionInv, [Next]_vars PROVE SessionInv'
  OBVIOUS
<1>1. TypeOK'
  BY TypeStep DEF SessionInv
<1>2. CASE Attach
  BY <1>1, <1>2, InvAttach
<1>3. CASE Other
  BY <1>1, <1>3, InvReader, InvEnding, InvTask, InvEnvironment DEF Other
<1>4. CASE UNCHANGED vars
  BY <1>1, <1>4, QuietStep DEF vars, inventoryVars, serverVars, connVars
<1> QED BY <1>2, <1>3, <1>4 DEF Next

LEMMA SessionInvariant == Spec => []SessionInv
  BY SessionInvInit, SessionInvStep, PTL DEF Spec

\* No lease on a device that has gone, whatever attaches, scans and connections
\* interleave.
THEOREM LeasesOnPresentDevicesOnly == Spec => []LeasedDevicePresent
  BY SessionInvariant, PTL DEF SessionInv

\* Every lease holder was given a token, hence once knew the PIN.
THEOREM LeaseHoldersPaired == Spec => []LeaseHolderPaired
  BY SessionInvariant, PTL DEF SessionInv

-----------------------------------------------------------------------------
(* The server implements the abstract lease service.                       *)

Available == {i \in Ids : present[i] # NoDevice}

\* A step that touches neither the inventory nor the leases is a stutter there.
LEMMA QuietRefines ==
    ASSUME UNCHANGED <<present, owners>>
    PROVE  UNCHANGED <<Available, owners>>
BY DEF Available

\* An attach grants a free device that is there, or changes no lease.
LEMMA AttachRefines ==
    ASSUME SessionInv, Attach
    PROVE  Abstract!Next \/ UNCHANGED <<Available, owners>>
<1>0. TypeOK
  BY DEF SessionInv
<1>1. PICK s \in Sessions, t \in TokenIds, d \in Ids : HandleAttachRequest(s, t, d)
  BY DEF Attach
<1>2. tokenOwner[t] \in Peers
  BY <1>0, <1>1, AuthorizedFacts DEF HandleAttachRequest
<1>3. UNCHANGED present
  BY <1>1 DEF HandleAttachRequest, inventoryVars
<1>4. CASE present[d] # NoDevice /\ owners[d] = NoPeer /\ owners' # owners
  <2>1. owners' = [owners EXCEPT ![d] = tokenOwner[t]]
    BY <1>1, <1>4 DEF HandleAttachRequest, acquire, CanAcquire
  <2>2. Abstract!Grant(d, tokenOwner[t])
    BY <1>3, <1>4, <2>1 DEF Abstract!Grant
  <2> QED BY <1>2, <2>2 DEF Abstract!Next
<1>5. CASE ~(present[d] # NoDevice /\ owners[d] = NoPeer /\ owners' # owners)
  <2>1. owners' = owners
    BY <1>0, <1>1, <1>5 DEF HandleAttachRequest, acquire, CanAcquire, TypeOK, LeaseTable
  <2> QED BY <1>3, <2>1, QuietRefines
<1> QED BY <1>4, <1>5

\* A detach, and the end of a connection, give back leases of one peer.
LEMMA GiveBackRefines ==
    ASSUME TypeOK, NEW p \in Peers, UNCHANGED present,
           NEW D \in SUBSET Ids, \A d \in D : owners[d] = p,
           owners' = [d \in Ids |-> IF d \in D THEN NoPeer ELSE owners[d]]
    PROVE  Abstract!Next
<1>1. Abstract!GiveBack(p, D)
  BY DEF Abstract!GiveBack
<1> QED BY <1>1 DEF Abstract!Next

LEMMA DetachRefines ==
    ASSUME SessionInv, NEW s \in Sessions, NEW t \in TokenIds, NEW d \in Ids,
           HandleDetachRequest(s, t, d)
    PROVE  Abstract!Next \/ UNCHANGED <<Available, owners>>
<1>0. TypeOK
  BY DEF SessionInv
<1>1. tokenOwner[t] \in Peers /\ UNCHANGED present
  BY <1>0, AuthorizedFacts DEF HandleDetachRequest, inventoryVars
<1>2. CASE owners[d] = tokenOwner[t]
  <2>1. owners' = [e \in Ids |-> IF e \in {d} THEN NoPeer ELSE owners[e]]
    BY <1>0, <1>2 DEF HandleDetachRequest, release, TypeOK, LeaseTable
  <2> QED BY <1>0, <1>1, <1>2, <2>1, GiveBackRefines
<1>3. CASE owners[d] # tokenOwner[t]
  BY <1>1, <1>3, QuietRefines DEF HandleDetachRequest, release
<1> QED BY <1>2, <1>3

LEMMA TeardownRefines ==
    ASSUME SessionInv, NEW s \in Sessions, Teardown(s)
    PROVE  Abstract!Next \/ UNCHANGED <<Available, owners>>
<1>0. TypeOK
  BY DEF SessionInv
<1>1. UNCHANGED present
  BY DEF Teardown, inventoryVars
<1>2. CASE principal[s] = NoPeer
  BY <1>1, <1>2, QuietRefines DEF Teardown
<1>3. CASE principal[s] # NoPeer
  <2> DEFINE D == {d \in Ids : owners[d] = principal[s]}
  <2>1. principal[s] \in Peers
    BY <1>0, <1>3 DEF TypeOK
  <2>2. owners' = [d \in Ids |-> IF d \in D THEN NoPeer ELSE owners[d]]
    BY <1>0, <1>3 DEF Teardown, release_all, TypeOK, LeaseTable
  <2> QED BY <1>0, <1>1, <2>1, <2>2, GiveBackRefines
<1> QED BY <1>2, <1>3

\* A refresh is a rescan: exactly the devices that go lose their leases.
LEMMA RefreshRefines ==
    ASSUME SessionInv, RefreshHostDevices
    PROVE  Abstract!Next
<1>0. TypeOK
  BY DEF SessionInv
<1>1. PICK keys \in SUBSET HostKeys : scan \in Scans(keys) /\ refresh_hosts(scan)
  BY <1>0, ScanInHand
<1>2. \A i \in ScannedIds(scan) : DeviceFor(scan, i) # NoDevice
  BY <1>1, DeviceForScanned, ScanShape, InventoryAssumption
<1>3. ASSUME NEW d \in Ids
      PROVE  d \in Available \ Available' <=> d \in Removed(scan)
  <2>1. d \in Removed(scan) => present[d] # NoDevice /\ d \notin ScannedIds(scan)
    BY DEF Removed, HostIds
  <2>2. present'[d] = IF d \in ScannedIds(scan) THEN DeviceFor(scan, d)
                      ELSE IF d \in Removed(scan) THEN NoDevice ELSE present[d]
    BY <1>1 DEF refresh_hosts, KnownIdsAfter, PresenceAfter
  <2> QED BY <1>2, <2>1, <2>2 DEF Available
<1>4. owners' = [d \in Ids |-> IF d \in Removed(scan) THEN NoPeer ELSE owners[d]]
  BY <1>0 DEF RefreshHostDevices, release_devices, TypeOK, LeaseTable
<1>5. owners' = [d \in Ids |-> IF d \in Available \ Available' THEN NoPeer ELSE owners[d]]
  BY <1>3, <1>4
<1>6. Available' \in SUBSET Ids
  BY DEF Available
<1>7. \E A \in SUBSET Ids : A = Available'
  BY <1>6
<1>8. PICK A \in SUBSET Ids : A = Available'
  BY <1>7
<1>9. Abstract!Rescan(A)
  BY <1>5, <1>8 DEF Abstract!Rescan, Available
<1> QED BY <1>9 DEF Abstract!Next

\* Everything else leaves devices and leases alone.
LEMMA OtherRefines ==
    ASSUME SessionInv, Other
    PROVE  Abstract!Next \/ UNCHANGED <<Available, owners>>
<1> USE DEF inventoryVars, serverVars
<1>1. ASSUME NEW s \in Sessions, Reader(s)
      PROVE  Abstract!Next \/ UNCHANGED <<Available, owners>>
  <2>1. CASE \E t \in TokenIds, d \in Ids : HandleDetachRequest(s, t, d)
    BY <2>1, DetachRefines
  <2>2. CASE ~\E t \in TokenIds, d \in Ids : HandleDetachRequest(s, t, d)
    <3>1. UNCHANGED <<present, owners>>
      BY <1>1, <2>2 DEF Reader, Accept, HandleHello, HandlePairRequest,
           HandleDeviceListRequest, SubmitCheck, SubmitPresence, SubmitSpawn
    <3> QED BY <3>1, QuietRefines
  <2> QED BY <2>1, <2>2
<1>2. ASSUME NEW s \in Sessions, Ending(s)
      PROVE  Abstract!Next \/ UNCHANGED <<Available, owners>>
  BY <1>2, TeardownRefines, QuietRefines DEF Ending, ReaderEof, HangUp, SessionError,
       WriterEnds
<1>3. ASSUME NEW t \in TaskIds, TaskNext(t) PROVE UNCHANGED <<Available, owners>>
  <2>1. UNCHANGED <<present, owners>>
    BY <1>3 DEF TaskNext, TaskLookup, TaskStart, TaskTransfer, TaskFinish, TaskReply, TaskStep
  <2> QED BY <2>1, QuietRefines
<1>4. CASE Environment
  <2>1. CASE RefreshHostDevices
    BY <2>1, RefreshRefines
  <2>2. CASE ~RefreshHostDevices
    <3>1. UNCHANGED <<present, owners>>
      BY <1>4, <2>2 DEF Environment, Plug, Unplug, HotplugScan, ExpireToken, ExpirePin, RenewPin
    <3> QED BY <3>1, QuietRefines
  <2> QED BY <2>1, <2>2
<1> QED BY <1>1, <1>2, <1>3, <1>4 DEF Other

\* The server implements the abstract lease service of module LeaseSpec.
THEOREM SessionImplementsLeaseSpec == Spec => ImplementsLeaseSpec
<1>1. Init => Abstract!Init
  BY DEF Init, Abstract!Init
<1>2. SessionInv /\ [Next]_vars =>
        [Abstract!Next]_<<{i \in Ids : present[i] # NoDevice}, owners>>
  <2> SUFFICES ASSUME SessionInv, [Next]_vars
               PROVE  Abstract!Next \/ UNCHANGED <<Available, owners>>
    BY DEF Available
  <2>1. CASE UNCHANGED vars
    BY <2>1, QuietRefines DEF vars, inventoryVars, serverVars
  <2> QED BY <2>1, AttachRefines, OtherRefines DEF Next
<1> QED BY <1>1, <1>2, SessionInvariant, PTL DEF Spec, ImplementsLeaseSpec, Abstract!Spec

-----------------------------------------------------------------------------
(* The bound on the URBs in flight.                                        *)

\* A connection that gains no task stays below its bound.
LEMMA NoNewTask ==
    ASSUME InFlightBounded, NEW s \in Sessions, InFlight(s)' \subseteq InFlight(s)
    PROVE  Cardinality(InFlight(s)') <= MaxInFlight
<1>1. IsFiniteSet(InFlight(s))
  BY SessionAssumption, FS_Subset DEF InFlight
<1>2. /\ IsFiniteSet(InFlight(s)')
      /\ Cardinality(InFlight(s)') <= Cardinality(InFlight(s))
  BY <1>1, FS_Subset
<1>3. Cardinality(InFlight(s)) \in Nat /\ Cardinality(InFlight(s)') \in Nat
  BY <1>1, <1>2, FS_CardinalityType
<1> QED BY <1>2, <1>3, SessionAssumption DEF InFlightBounded

\* Only SubmitSpawn gives a connection a task.
LEMMA TasksOnlySpawned ==
    ASSUME TypeOK, [Next]_vars, ~\E s \in Sessions, t \in TaskIds : SubmitSpawn(s, t)
    PROVE  \A s \in Sessions : InFlight(s)' \subseteq InFlight(s)
<1>0. tasks \in [TaskIds -> Task]
  BY DEF TypeOK
<1>a. ASSUME NEW t \in TaskIds, NEW phase \in Phases \ {"free"}, NEW ok \in BOOLEAN, TaskStep(t, phase, ok),
             tasks[t].phase # "finished"
      PROVE  \A s \in Sessions : InFlight(s)' \subseteq InFlight(s)
  <2>1. \A u \in TaskIds : tasks'[u].sess = tasks[u].sess
    BY <1>0, <1>a DEF TaskStep, Task
  <2>2. \A u \in TaskIds : tasks'[u].phase # "finished" => tasks[u].phase # "finished"
    BY <1>0, <1>a DEF TaskStep, Task
  <2> QED BY <2>1, <2>2 DEF InFlight
<1>1. ASSUME NEW t \in TaskIds, TaskNext(t)
      PROVE  \A s \in Sessions : InFlight(s)' \subseteq InFlight(s)
  <2>1. CASE TaskLookup(t)
    <3>1. CASE \E ok \in BOOLEAN : TaskStep(t, "finished", ok)
      BY <2>1, <3>1, <1>a DEF TaskLookup, Phases
    <3>2. ASSUME NEW key, NEW phase,
                 tasks' = [tasks EXCEPT ![t] = [@ EXCEPT !.key = key, !.phase = phase]]
          PROVE  \A s \in Sessions : InFlight(s)' \subseteq InFlight(s)
      <4>1. \A u \in TaskIds : tasks'[u].sess = tasks[u].sess
        BY <1>0, <3>2 DEF Task
      <4>2. \A u \in TaskIds : tasks'[u].phase # "finished" => tasks[u].phase # "finished"
        BY <1>0, <2>1, <3>2 DEF TaskLookup, Task
      <4> QED BY <4>1, <4>2 DEF InFlight
    <3> QED BY <2>1, <3>1, <3>2 DEF TaskLookup
  <2>2. CASE TaskStart(t)
    BY <2>2, <1>a DEF TaskStart, Phases
  <2>3. CASE TaskTransfer(t)
    BY <2>3, <1>a DEF TaskTransfer, Phases
  <2>4. CASE TaskFinish(t)
    <3>1. (tasks[t].ok /\ tasks[t].dev \notin retired) \in BOOLEAN
      OBVIOUS
    <3> QED BY <2>4, <3>1, <1>a DEF TaskFinish, Phases
  <2>5. CASE TaskReply(t)
    <3>1. \A u \in TaskIds : tasks'[u] = tasks[u] \/ tasks'[u].sess = NoSession
      BY <1>0, <2>5 DEF TaskReply, NoTask
    <3> QED BY <3>1, SessionAssumption DEF InFlight
  <2> QED BY <1>1, <2>1, <2>2, <2>3, <2>4, <2>5 DEF TaskNext
<1>2. ASSUME NEW s \in Sessions, SessionError(s)
      PROVE  \A r \in Sessions : InFlight(r)' \subseteq InFlight(r)
  <2>1. \A u \in TaskIds : tasks'[u] = tasks[u] \/ tasks'[u].sess = NoSession
    BY <1>0, <1>2 DEF SessionError, Task
  <2> QED BY <2>1, SessionAssumption DEF InFlight
<1>3. CASE UNCHANGED tasks
  BY <1>3 DEF InFlight
<1>4. CASE UNCHANGED vars
  BY <1>3, <1>4 DEF vars
<1>5. CASE Attach
  BY <1>3, <1>5 DEF Attach, HandleAttachRequest
<1>6. ASSUME NEW s \in Sessions, Reader(s) PROVE UNCHANGED tasks
  BY <1>6 DEF Reader, Accept, HandleHello, HandlePairRequest, HandleDeviceListRequest,
       HandleDetachRequest, SubmitCheck, SubmitPresence
<1>7. ASSUME NEW s \in Sessions, Ending(s), ~SessionError(s) PROVE UNCHANGED tasks
  BY <1>7 DEF Ending, ReaderEof, HangUp, WriterEnds, Teardown
<1>8. CASE Environment
  BY <1>3, <1>8 DEF Environment, Plug, Unplug, HotplugScan, RefreshHostDevices, ExpireToken,
       ExpirePin, RenewPin
<1> QED BY <1>1, <1>2, <1>3, <1>4, <1>5, <1>6, <1>7, <1>8 DEF Next, Other

\* The permit is asked for before the task is spawned.
LEMMA SpawnWithinBound ==
    ASSUME TypeOK, InFlightBounded, NEW s \in Sessions, NEW t \in TaskIds, SubmitSpawn(s, t)
    PROVE  InFlightBounded'
<1>1. ASSUME NEW u \in TaskIds, u # t PROVE tasks'[u] = tasks[u]
  BY <1>1 DEF SubmitSpawn, TypeOK
<1>2. tasks'[t].sess = s
  BY DEF SubmitSpawn, TypeOK, NoTask
<1>3. ASSUME NEW r \in Sessions, r # s PROVE Cardinality(InFlight(r)') <= MaxInFlight
  <2>1. InFlight(r)' \subseteq InFlight(r)
    BY <1>1, <1>2, <1>3 DEF InFlight
  <2> QED BY <2>1, NoNewTask
<1>4. Cardinality(InFlight(s)') <= MaxInFlight
  <2>1. InFlight(s)' \subseteq InFlight(s) \cup {t}
    BY <1>1 DEF InFlight
  <2>2. IsFiniteSet(InFlight(s))
    BY SessionAssumption, FS_Subset DEF InFlight
  <2>3. /\ IsFiniteSet(InFlight(s) \cup {t})
        /\ Cardinality(InFlight(s) \cup {t}) <= Cardinality(InFlight(s)) + 1
    <3> DEFINE S == InFlight(s)
    <3>1. IsFiniteSet(S)
      BY <2>2
    <3> HIDE DEF S
    <3>2. Cardinality(S) \in Nat
      BY <3>1, FS_CardinalityType
    <3>3. /\ IsFiniteSet(S \cup {t})
          /\ t \in S => Cardinality(S \cup {t}) = Cardinality(S)
          /\ t \notin S => Cardinality(S \cup {t}) = Cardinality(S) + 1
      BY <3>1, FS_AddElement
    <3>4. IsFiniteSet(S \cup {t}) /\ Cardinality(S \cup {t}) <= Cardinality(S) + 1
      BY <3>2, <3>3
    <3> QED BY <3>4 DEF S
  <2>4. IsFiniteSet(InFlight(s)') /\ Cardinality(InFlight(s)') <= Cardinality(InFlight(s) \cup {t})
    BY <2>1, <2>3, FS_Subset
  <2>5. Cardinality(InFlight(s)) < MaxInFlight
    BY DEF SubmitSpawn
  <2>6. /\ Cardinality(InFlight(s)) \in Nat /\ Cardinality(InFlight(s)') \in Nat
        /\ Cardinality(InFlight(s) \cup {t}) \in Nat
    BY <2>2, <2>3, <2>4, FS_CardinalityType
  <2> QED BY <2>3, <2>4, <2>5, <2>6, SessionAssumption
<1> QED BY <1>3, <1>4 DEF InFlightBounded

\* No connection ever has more URBs in flight than it has permits, for any
\* number of connections, tasks and permits (docs/THREAT_MODEL.md, "Controls").
THEOREM InFlightWithinBound == Spec => []InFlightBounded
<1>1. Init => InFlightBounded
  <2> SUFFICES ASSUME Init, NEW s \in Sessions PROVE Cardinality(InFlight(s)) <= MaxInFlight
    BY DEF InFlightBounded
  <2>1. InFlight(s) = {}
    BY SessionAssumption DEF Init, InFlight, NoTask
  <2> QED BY <2>1, FS_EmptySet, SessionAssumption
<1>2. TypeOK /\ InFlightBounded /\ [Next]_vars => InFlightBounded'
  <2> SUFFICES ASSUME TypeOK, InFlightBounded, [Next]_vars PROVE InFlightBounded'
    OBVIOUS
  <2>1. CASE \E s \in Sessions, t \in TaskIds : SubmitSpawn(s, t)
    BY <2>1, SpawnWithinBound
  <2>2. CASE ~\E s \in Sessions, t \in TaskIds : SubmitSpawn(s, t)
    <3>1. \A s \in Sessions : Cardinality(InFlight(s)') <= MaxInFlight
      BY <2>2, TasksOnlySpawned, NoNewTask
    <3> QED BY <3>1 DEF InFlightBounded
  <2> QED BY <2>1, <2>2
<1> QED BY <1>1, <1>2, SessionTypeOK, PTL DEF Spec

-----------------------------------------------------------------------------
(* Removal and completion.                                                 *)

\* What a task's own step does to a finished outcome.
LEMMA FinishingChecksPresence ==
    ASSUME TypeOK, [Next]_vars, NEW t \in TaskIds, tasks[t].phase # "finished",
           tasks'[t].phase = "finished", tasks'[t].ok
    PROVE  tasks[t].dev \notin retired
<1>0. tasks \in [TaskIds -> Task]
  BY DEF TypeOK
<1>1. ASSUME NEW u \in TaskIds, TaskNext(u) PROVE tasks[t].dev \notin retired
  <2>1. ASSUME NEW phase, NEW ok, TaskStep(u, phase, ok)
        PROVE  t = u /\ phase = "finished" /\ ok = tasks'[t].ok
    BY <1>0, <2>1 DEF TaskStep, Task
  <2>2. CASE TaskLookup(u)
    <3>1. CASE /\ u = t
               /\ tasks' = [tasks EXCEPT ![u] =
                   [@ EXCEPT !.key = present[tasks[u].dev].key,
                             !.phase = IF present[tasks[u].dev].exported THEN "snapped"
                                       ELSE "executed"]]
      BY <1>0, <3>1 DEF Task
    <3>2. CASE /\ u # t
               /\ tasks' = [tasks EXCEPT ![u] =
                   [@ EXCEPT !.key = present[tasks[u].dev].key,
                             !.phase = IF present[tasks[u].dev].exported THEN "snapped"
                                       ELSE "executed"]]
      BY <1>0, <3>2
    <3> QED BY <2>1, <2>2, <3>1, <3>2 DEF TaskLookup
  <2>3. CASE TaskStart(u)
    BY <2>1, <2>3 DEF TaskStart
  <2>4. CASE TaskTransfer(u)
    BY <2>1, <2>4 DEF TaskTransfer
  <2>5. CASE TaskFinish(u)
    BY <2>1, <2>5 DEF TaskFinish
  <2>6. CASE TaskReply(u)
    BY <1>0, <2>6 DEF TaskReply, NoTask
  <2> QED BY <1>1, <2>2, <2>3, <2>4, <2>5, <2>6 DEF TaskNext
<1>2. ASSUME NEW s \in Sessions, NEW u \in TaskIds, SubmitSpawn(s, u) PROVE FALSE
  BY <1>0, <1>2 DEF SubmitSpawn, NoTask
<1>3. ASSUME NEW s \in Sessions, SessionError(s) PROVE FALSE
  BY <1>0, <1>3 DEF SessionError, Task
<1>4. CASE UNCHANGED tasks
  BY <1>4
<1>5. ASSUME NEW s \in Sessions, Reader(s) \/ Ending(s)
      PROVE  tasks[t].dev \notin retired
  BY <1>2, <1>3, <1>4, <1>5 DEF Reader, Ending, Accept, HandleHello, HandlePairRequest,
     HandleDeviceListRequest, HandleDetachRequest, SubmitCheck, SubmitPresence, ReaderEof,
     HangUp, WriterEnds, Teardown
<1>6. CASE Attach \/ Environment \/ UNCHANGED vars
  BY <1>4, <1>6 DEF Attach, HandleAttachRequest, Environment, Plug, Unplug, HotplugScan,
     RefreshHostDevices, ExpireToken, ExpirePin, RenewPin, vars
<1> QED BY <1>1, <1>5, <1>6 DEF Next, Other

\* complete_session_urb looks at the presence token after the hardware has
\* answered: a transfer whose device was seen to go does not end as a success,
\* whatever the hotplug loop did while it was under way.
THEOREM RemovedDevicesNeverSucceed == Spec => NoSuccessAfterRemoval
<1>1. TypeOK /\ [Next]_vars =>
        [\A t \in TaskIds :
           tasks[t].phase # "finished" /\ tasks'[t].phase = "finished" /\ tasks'[t].ok
              => tasks[t].dev \notin retired]_vars
  BY FinishingChecksPresence
<1> QED BY SessionTypeOK, <1>1, PTL DEF Spec, NoSuccessAfterRemoval

-----------------------------------------------------------------------------
(* SessionAudit.  The history variable `grants` only ever grows, so what a *)
(* check established when it was made is still true of `grants` when a     *)
(* later step acts on it.                                                  *)

\* The reader of a connection that has ended is not in the middle of a message.
ReaderStops == \A s \in Sessions : pc[s] # "ready" => conn[s] = "open"

\* Whoever owns a device was granted it.
OwnersGranted == \A d \in Ids : owners[d] # NoPeer => owners[d] \in grants[d]

\* A URB that has passed the lease check is one of a peer that was granted the
\* device: nothing else sets the principal while the reader has a URB in hand.
ReaderGranted ==
    \A s \in Sessions : pc[s] # "ready" =>
        urb[s] \in Ids /\ principal[s] # NoPeer /\ principal[s] \in grants[urb[s]]

TasksGranted ==
    \A t \in TaskIds : tasks[t].phase # "free" =>
        tasks[t].dev \in Ids /\ tasks[t].peer \in grants[tasks[t].dev]

AuditInv ==
    /\ TypeOK /\ grants \in [Ids -> SUBSET Peers]
    /\ ReaderStops /\ OwnersGranted /\ ReaderGranted /\ TasksGranted

-----------------------------------------------------------------------------
LEMMA AuditInitInv == AuditInit => AuditInv
<1> SUFFICES ASSUME AuditInit PROVE AuditInv
  OBVIOUS
<1>1. TypeOK
  BY TypeInit DEF AuditInit
<1> QED BY <1>1 DEF AuditInit, Init, AuditInv, ReaderStops, OwnersGranted, ReaderGranted,
                    TasksGranted, NoTask

\* The history variables only watch: a step of the audited server is one of the
\* server.
LEMMA AuditStepIsStep == [AuditNext]_auditVars => [Next]_vars
BY DEF AuditNext, AuditAttach, AuditOther, Next, Attach, auditVars

LEMMA GrantsGrow ==
    ASSUME AuditInv, TypeOK', RecordGrants
    PROVE  /\ grants' \in [Ids -> SUBSET Peers]
           /\ \A d \in Ids : grants[d] \subseteq grants'[d]
           /\ OwnersGranted'
<1>1. \A d \in Ids : owners'[d] \in Peers \cup {NoPeer}
  BY DEF TypeOK, LeaseTable
<1> QED BY <1>1 DEF RecordGrants, AuditInv, OwnersGranted

\* A step that leaves the readers, the principals and the tasks alone.
LEMMA QuietAudit ==
    ASSUME AuditInv, TypeOK', RecordGrants, UNCHANGED <<pc, urb, tasks>>,
           \A s \in Sessions : pc[s] # "ready" => conn'[s] = conn[s] /\ principal'[s] = principal[s]
    PROVE  AuditInv'
<1>1. /\ grants' \in [Ids -> SUBSET Peers] /\ OwnersGranted'
      /\ \A d \in Ids : grants[d] \subseteq grants'[d]
  BY GrantsGrow
<1>2. ReaderStops' /\ ReaderGranted'
  BY <1>1 DEF AuditInv, ReaderStops, ReaderGranted
<1>3. TasksGranted'
  BY <1>1 DEF AuditInv, TasksGranted
<1> QED BY <1>1, <1>2, <1>3 DEF AuditInv

\* A step that changes nothing of a task but how far it is.
LEMMA TaskAudit ==
    ASSUME AuditInv, TypeOK', RecordGrants,
           UNCHANGED <<pc, urb, conn, principal>>,
           \A t \in TaskIds : tasks'[t].phase # "free" =>
              /\ tasks[t].phase # "free"
              /\ tasks'[t].dev = tasks[t].dev /\ tasks'[t].peer = tasks[t].peer
    PROVE  AuditInv'
<1>1. /\ grants' \in [Ids -> SUBSET Peers] /\ OwnersGranted'
      /\ \A d \in Ids : grants[d] \subseteq grants'[d]
  BY GrantsGrow
<1>2. ReaderStops' /\ ReaderGranted'
  BY <1>1 DEF AuditInv, ReaderStops, ReaderGranted
<1>3. TasksGranted'
  BY <1>1 DEF AuditInv, TasksGranted
<1> QED BY <1>1, <1>2, <1>3 DEF AuditInv

\* The lease check, the presence check and the spawn of a URB.
LEMMA AuditSubmit ==
    ASSUME AuditInv, TypeOK', RecordGrants, NEW s \in Sessions,
           \/ \E d \in Ids : SubmitCheck(s, d)
           \/ SubmitPresence(s)
           \/ \E t \in TaskIds : SubmitSpawn(s, t)
    PROVE  AuditInv'
<1> USE DEF serverVars, connVars
<1>1. /\ grants' \in [Ids -> SUBSET Peers] /\ OwnersGranted'
      /\ \A d \in Ids : grants[d] \subseteq grants'[d]
  BY GrantsGrow
<1>2. /\ pc \in [Sessions -> ReaderStates] /\ urb \in [Sessions -> {0} \cup Ids]
      /\ tasks \in [TaskIds -> Task]
  BY DEF AuditInv, TypeOK
<1>3. ASSUME NEW d \in Ids, SubmitCheck(s, d) PROVE AuditInv'
  <2>1. /\ UNCHANGED <<conn, principal, tasks>> /\ conn[s] = "open"
        /\ pc' = [pc EXCEPT ![s] = "leased"] /\ urb' = [urb EXCEPT ![s] = d]
        /\ owners[d] = principal[s] /\ principal[s] # NoPeer
    BY <1>3 DEF SubmitCheck, Ready, owner
  <2>2. principal[s] \in grants'[d]
    BY <1>1, <2>1 DEF AuditInv, OwnersGranted
  <2>3. ReaderStops' /\ ReaderGranted'
    BY <1>1, <1>2, <2>1, <2>2 DEF AuditInv, ReaderStops, ReaderGranted
  <2>4. TasksGranted'
    BY <1>1, <2>1 DEF AuditInv, TasksGranted
  <2> QED BY <1>1, <2>3, <2>4 DEF AuditInv
<1>4. CASE SubmitPresence(s)
  <2>1. UNCHANGED <<conn, principal, tasks>>
    BY <1>4 DEF SubmitPresence
  <2>2. \A e \in Sessions : pc'[e] # "ready" => pc[e] # "ready" /\ urb'[e] = urb[e]
    BY <1>2, <1>4 DEF SubmitPresence
  <2>3. ReaderStops' /\ ReaderGranted'
    BY <1>1, <2>1, <2>2 DEF AuditInv, ReaderStops, ReaderGranted
  <2>4. TasksGranted'
    BY <1>1, <2>1 DEF AuditInv, TasksGranted
  <2> QED BY <1>1, <2>3, <2>4 DEF AuditInv
<1>5. ASSUME NEW t \in TaskIds, SubmitSpawn(s, t) PROVE AuditInv'
  <2>1. UNCHANGED <<conn, principal>> /\ pc[s] # "ready"
    BY <1>5 DEF SubmitSpawn
  <2>2. \A e \in Sessions : pc'[e] # "ready" => pc[e] # "ready" /\ urb'[e] = urb[e]
    BY <1>2, <1>5 DEF SubmitSpawn
  <2>3. ReaderStops' /\ ReaderGranted'
    BY <1>1, <2>1, <2>2 DEF AuditInv, ReaderStops, ReaderGranted
  <2>4. /\ tasks'[t].dev = urb[s] /\ tasks'[t].peer = principal[s]
        /\ \A u \in TaskIds : u # t => tasks'[u] = tasks[u]
    BY <1>2, <1>5 DEF SubmitSpawn, NoTask
  <2>5. urb[s] \in Ids /\ principal[s] \in grants[urb[s]]
    BY <2>1 DEF AuditInv, ReaderGranted
  <2>6. ASSUME NEW u \in TaskIds, tasks'[u].phase # "free"
        PROVE  tasks'[u].dev \in Ids /\ tasks'[u].peer \in grants'[tasks'[u].dev]
    <3>1. CASE u = t
      BY <1>1, <2>4, <2>5, <3>1
    <3>2. CASE u # t
      BY <1>1, <2>4, <2>6, <3>2 DEF AuditInv, TasksGranted
    <3> QED BY <3>1, <3>2
  <2>7. TasksGranted'
    BY <2>6 DEF TasksGranted
  <2> QED BY <1>1, <2>3, <2>7 DEF AuditInv
<1> QED BY <1>3, <1>4, <1>5

LEMMA AuditReader ==
    ASSUME AuditInv, TypeOK', RecordGrants, NEW s \in Sessions, Reader(s)
    PROVE  AuditInv'
<1> USE DEF serverVars, connVars
<1>1. /\ conn \in [Sessions -> ConnStates] /\ principal \in [Sessions -> Peers \cup {NoPeer}]
      /\ \A e \in Sessions : pc[e] # "ready" => conn[e] = "open"
  BY DEF AuditInv, TypeOK, ReaderStops
<1>2. CASE Accept(s)
  BY <1>1, <1>2, QuietAudit DEF Accept
<1>3. ASSUME NEW p \in Peers, HandleHello(s, p) PROVE AuditInv'
  BY <1>3, QuietAudit DEF HandleHello
<1>4. ASSUME NEW p \in Peers, NEW m \in BOOLEAN, HandlePairRequest(s, p, m) PROVE AuditInv'
  <2>1. \A e \in Sessions : pc[e] # "ready" => principal'[e] = principal[e]
    BY <1>1, <1>4 DEF HandlePairRequest, Ready
  <2> QED BY <1>4, <2>1, QuietAudit DEF HandlePairRequest
<1>5. ASSUME NEW t \in TokenIds, HandleDeviceListRequest(s, t) PROVE AuditInv'
  BY <1>1, <1>5, QuietAudit DEF HandleDeviceListRequest, Ready
<1>6. ASSUME NEW t \in TokenIds, NEW d \in Ids, HandleDetachRequest(s, t, d) PROVE AuditInv'
  BY <1>1, <1>6, QuietAudit DEF HandleDetachRequest, Ready
<1> QED BY <1>2, <1>3, <1>4, <1>5, <1>6, AuditSubmit DEF Reader

LEMMA AuditAttaches ==
    ASSUME AuditInv, TypeOK', NEW s \in Sessions, NEW t \in TokenIds, NEW d \in Ids,
           AuditAttach(s, t, d)
    PROVE  AuditInv'
<1>1. principal \in [Sessions -> Peers \cup {NoPeer}]
  BY DEF AuditInv, TypeOK
<1> QED BY <1>1, QuietAudit DEF AuditAttach, HandleAttachRequest, Ready

LEMMA AuditEnding ==
    ASSUME AuditInv, TypeOK', RecordGrants, NEW s \in Sessions, Ending(s)
    PROVE  AuditInv'
<1> USE DEF serverVars, connVars
<1>1. /\ conn \in [Sessions -> ConnStates] /\ principal \in [Sessions -> Peers \cup {NoPeer}]
      /\ pc \in [Sessions -> ReaderStates] /\ tasks \in [TaskIds -> Task]
      /\ \A e \in Sessions : pc[e] # "ready" => conn[e] = "open"
  BY DEF AuditInv, TypeOK, ReaderStops
<1>2. CASE ReaderEof(s) \/ HangUp(s) \/ WriterEnds(s)
  BY <1>1, <1>2, QuietAudit DEF ReaderEof, Ready, HangUp, WriterEnds, Drained
<1>3. CASE Teardown(s)
  <2>1. conn[s] # "open"
    BY <1>3 DEF Teardown
  <2> QED BY <1>1, <1>3, <2>1, QuietAudit DEF Teardown
<1>4. CASE SessionError(s)
  <2>1. /\ grants' \in [Ids -> SUBSET Peers] /\ OwnersGranted'
        /\ \A d \in Ids : grants[d] \subseteq grants'[d]
    BY GrantsGrow
  <2>2. /\ UNCHANGED principal
        /\ \A e \in Sessions : pc'[e] # "ready" =>
              pc[e] # "ready" /\ conn'[e] = conn[e] /\ urb'[e] = urb[e]
    BY <1>1, <1>4 DEF SessionError
  <2>3. \A t \in TaskIds : /\ tasks'[t].phase = tasks[t].phase /\ tasks'[t].dev = tasks[t].dev
                           /\ tasks'[t].peer = tasks[t].peer
    BY <1>1, <1>4 DEF SessionError, Task
  <2>4. ReaderStops' /\ ReaderGranted'
    BY <2>1, <2>2 DEF AuditInv, ReaderStops, ReaderGranted
  <2>5. TasksGranted'
    BY <2>1, <2>3 DEF AuditInv, TasksGranted
  <2> QED BY <2>1, <2>4, <2>5 DEF AuditInv
<1> QED BY <1>2, <1>3, <1>4 DEF Ending

LEMMA AuditTask ==
    ASSUME AuditInv, TypeOK', RecordGrants, NEW t \in TaskIds, TaskNext(t)
    PROVE  AuditInv'
<1>1. tasks \in [TaskIds -> Task]
  BY DEF AuditInv, TypeOK
<1>2. UNCHANGED <<pc, urb, conn, principal>>
  BY DEF TaskNext, TaskLookup, TaskStart, TaskTransfer, TaskFinish, TaskReply, TaskStep, connVars
<1>3. tasks[t].phase # "free"
  BY DEF TaskNext, TaskLookup, TaskStart, TaskTransfer, TaskFinish, TaskReply
<1>4. ASSUME NEW phase, NEW ok, TaskStep(t, phase, ok) PROVE AuditInv'
  <2>1. \A u \in TaskIds : /\ tasks'[u].dev = tasks[u].dev /\ tasks'[u].peer = tasks[u].peer
                           /\ u # t => tasks'[u] = tasks[u]
    BY <1>1, <1>4 DEF TaskStep, Task
  <2> QED BY <1>2, <1>3, <2>1, TaskAudit
<1>5. CASE TaskLookup(t)
  <2>1. CASE \E key, phase : tasks' = [tasks EXCEPT ![t] =
               [@ EXCEPT !.key = key, !.phase = phase]]
    <3>1. \A u \in TaskIds : /\ tasks'[u].dev = tasks[u].dev /\ tasks'[u].peer = tasks[u].peer
                             /\ u # t => tasks'[u] = tasks[u]
      BY <1>1, <2>1 DEF Task
    <3> QED BY <1>2, <1>3, <3>1, TaskAudit
  <2> QED BY <1>4, <1>5, <2>1 DEF TaskLookup
<1>6. CASE TaskReply(t)
  <2>1. \A u \in TaskIds : tasks'[u] = IF u = t THEN NoTask ELSE tasks[u]
    BY <1>1, <1>6 DEF TaskReply
  <2> QED BY <1>2, <2>1, TaskAudit DEF NoTask
<1> QED BY <1>4, <1>5, <1>6 DEF TaskNext, TaskStart, TaskTransfer, TaskFinish

LEMMA AuditNextInv ==
    ASSUME AuditInv, [AuditNext]_auditVars
    PROVE  AuditInv'
<1>1. TypeOK'
  BY AuditStepIsStep, TypeStep DEF AuditInv
<1>2. CASE \E s \in Sessions, t \in TokenIds, d \in Ids : AuditAttach(s, t, d)
  BY <1>1, <1>2, AuditAttaches
<1>3. CASE AuditOther
  <2>1. RecordGrants /\ Other
    BY <1>3 DEF AuditOther
  <2>2. CASE \E s \in Sessions : Reader(s) \/ Ending(s)
    BY <1>1, <2>1, <2>2, AuditReader, AuditEnding
  <2>3. CASE \E t \in TaskIds : TaskNext(t)
    BY <1>1, <2>1, <2>3, AuditTask
  <2>4. CASE Environment
    <3>1. UNCHANGED <<pc, urb, tasks, conn, principal>>
      BY <2>4 DEF Environment, Plug, Unplug, HotplugScan, RefreshHostDevices, ExpireToken,
                  ExpirePin, RenewPin, connVars
    <3> QED BY <1>1, <2>1, <3>1, QuietAudit
  <2> QED BY <2>1, <2>2, <2>3, <2>4 DEF Other
<1>4. CASE UNCHANGED auditVars
  BY <1>1, <1>4 DEF auditVars, vars, serverVars, connVars, AuditInv, ReaderStops,
                    OwnersGranted, ReaderGranted, TasksGranted
<1> QED BY <1>2, <1>3, <1>4 DEF AuditNext

\* A URB runs only for a peer that was granted its device, however many steps,
\* of whatever connections, lie between the lease check of UrbSubmit and the
\* end of its task.
THEOREM UrbsOnlyOfGrantedPeers == AuditSpec => []UrbOnlyAfterGrant
<1>1. AuditInv => UrbOnlyAfterGrant
  BY DEF AuditInv, TasksGranted, UrbOnlyAfterGrant
<1> QED BY AuditInitInv, AuditNextInv, <1>1, PTL DEF AuditSpec

-----------------------------------------------------------------------------
(* Where the leases are asked for.                                         *)

ViaInv ==
    /\ TypeOK
    /\ via \in [Ids -> Sessions \cup {NoSession}]
    /\ LeaseHolderConnected

\* A connection that closes takes the leases of its principal with it, and one that
\* stays is authenticated still.
Ends(s) ==
    \/ conn'[s] # "closed" /\ principal'[s] # NoPeer
    \/ \A d \in Ids : owners[d] = principal[s] => owners'[d] = NoPeer

\* Nothing but an attach gives a lease, and nothing but the end of its connection
\* makes a principal nobody.
LEMMA OtherLeases ==
    ASSUME TypeOK, Other
    PROVE  /\ \A d \in Ids : owners'[d] # NoPeer => owners'[d] = owners[d]
           /\ \A s \in Sessions : conn[s] # "closed" /\ principal[s] # NoPeer => Ends(s)
<1> USE DEF serverVars, connVars
<1> DEFINE Result == /\ \A d \in Ids : owners'[d] # NoPeer => owners'[d] = owners[d]
                     /\ \A s \in Sessions : conn[s] # "closed" /\ principal[s] # NoPeer => Ends(s)
<1>1. /\ owners \in LeaseTable(Ids) /\ conn \in [Sessions -> ConnStates]
      /\ principal \in [Sessions -> Peers \cup {NoPeer}]
      /\ tokenOwner \in [TokenIds -> Peers \cup {NoPeer}]
  BY DEF TypeOK
<1>2. ASSUME UNCHANGED <<owners, principal>>,
             \A s \in Sessions : conn[s] # "closed" => conn'[s] # "closed"
      PROVE  Result
  BY <1>2 DEF Ends
<1>3. ASSUME NEW s \in Sessions, NEW p \in Peers, UNCHANGED conn,
             principal' = [principal EXCEPT ![s] = p],
             \A d \in Ids : owners'[d] \in {owners[d], NoPeer}
      PROVE  Result
  <2>1. p # NoPeer
    BY NoPeerAssumption
  <2> QED BY <1>1, <1>3, <2>1 DEF Ends
<1>4. ASSUME NEW s \in Sessions, Reader(s) PROVE Result
  <2>1. CASE Accept(s)
    BY <1>1, <1>2, <2>1 DEF Accept
  <2>2. ASSUME NEW p \in Peers, HandleHello(s, p) PROVE Result
    BY <1>2, <2>2 DEF HandleHello
  <2>3. ASSUME NEW p \in Peers, NEW m \in BOOLEAN, HandlePairRequest(s, p, m) PROVE Result
    BY <1>2, <1>3, <2>3 DEF HandlePairRequest
  <2>4. ASSUME NEW t \in TokenIds, HandleDeviceListRequest(s, t) PROVE Result
    <3>1. tokenOwner[t] \in Peers
      BY <1>1, <2>4 DEF HandleDeviceListRequest, Authorized
    <3> QED BY <1>3, <2>4, <3>1 DEF HandleDeviceListRequest
  <2>5. ASSUME NEW t \in TokenIds, NEW d \in Ids, HandleDetachRequest(s, t, d) PROVE Result
    <3>1. tokenOwner[t] \in Peers
      BY <1>1, <2>5 DEF HandleDetachRequest, Authorized
    <3>2. \A e \in Ids : owners'[e] \in {owners[e], NoPeer}
      BY <1>1, <2>5 DEF HandleDetachRequest, release, LeaseTable
    <3> QED BY <1>3, <2>5, <3>1, <3>2 DEF HandleDetachRequest
  <2>6. CASE \/ \E d \in Ids : SubmitCheck(s, d)
             \/ SubmitPresence(s)
             \/ \E t \in TaskIds : SubmitSpawn(s, t)
    BY <1>2, <2>6 DEF SubmitCheck, SubmitPresence, SubmitSpawn
  <2> QED BY <1>4, <2>1, <2>2, <2>3, <2>4, <2>5, <2>6 DEF Reader
<1>5. ASSUME NEW s \in Sessions, Ending(s) PROVE Result
  <2>1. CASE ReaderEof(s) \/ HangUp(s) \/ SessionError(s) \/ WriterEnds(s)
    BY <1>1, <1>2, <2>1 DEF ReaderEof, HangUp, SessionError, WriterEnds
  <2>2. CASE Teardown(s)
    <3>1. \A d \in Ids : /\ owners'[d] \in {owners[d], NoPeer}
                         /\ principal[s] # NoPeer /\ owners[d] = principal[s] => owners'[d] = NoPeer
      BY <1>1, <2>2 DEF Teardown, release_all, LeaseTable
    <3>2. \A e \in Sessions : e # s => conn'[e] = conn[e] /\ principal'[e] = principal[e]
      BY <1>1, <2>2 DEF Teardown
    <3> QED BY <3>1, <3>2 DEF Ends
  <2> QED BY <1>5, <2>1, <2>2 DEF Ending
<1>6. ASSUME NEW t \in TaskIds, TaskNext(t) PROVE Result
  BY <1>2, <1>6 DEF TaskNext, TaskLookup, TaskStart, TaskTransfer, TaskFinish, TaskReply, TaskStep
<1>7. CASE Environment
  <2>1. CASE RefreshHostDevices
    <3>1. UNCHANGED <<conn, principal>> /\ (\A d \in Ids : owners'[d] \in {owners[d], NoPeer})
      BY <1>1, <2>1 DEF RefreshHostDevices, release_devices, LeaseTable
    <3> QED BY <3>1 DEF Ends
  <2>2. CASE ~RefreshHostDevices
    <3>1. UNCHANGED <<owners, principal, conn>>
      BY <1>7, <2>2 DEF Environment, Plug, Unplug, HotplugScan, ExpireToken, ExpirePin, RenewPin
    <3> QED BY <1>2, <3>1
  <2> QED BY <2>1, <2>2
<1> QED BY <1>4, <1>5, <1>6, <1>7 DEF Other

\* A lease that its connection has not left is kept with it, or dropped with it.
LEMMA LeaseStays ==
    ASSUME ViaInv, NEW d \in Ids, owners[d] # NoPeer, owners'[d] = owners[d], d \notin switched,
           ~(via[d] # NoSession /\ Switches(via[d])),
           \A s \in Sessions : conn[s] # "closed" /\ principal[s] # NoPeer => Ends(s)
    PROVE  /\ via[d] \in Sessions
           /\ conn'[via[d]] # "closed" /\ principal'[via[d]] = owners[d]
<1>1. /\ via[d] \in Sessions /\ via[d] # NoSession
      /\ conn[via[d]] # "closed" /\ principal[via[d]] = owners[d]
  BY SessionAssumption DEF ViaInv, LeaseHolderConnected
<1>2. principal'[via[d]] \in {NoPeer, principal[via[d]]}
  BY <1>1 DEF Switches
<1>3. Ends(via[d])
  BY <1>1
<1> QED BY <1>1, <1>2, <1>3 DEF Ends

\* Every step of the audited server keeps it.
LEMMA ViaStep ==
    ASSUME ViaInv, [AuditNext]_auditVars
    PROVE  ViaInv'
<1>1. TypeOK /\ TypeOK' /\ via \in [Ids -> Sessions \cup {NoSession}]
  BY AuditStepIsStep, TypeStep DEF ViaInv
<1>2. ASSUME NEW s \in Sessions, NEW t \in TokenIds, NEW d \in Ids, AuditAttach(s, t, d)
      PROVE  ViaInv'
  <2>1. /\ conn[s] = "open" /\ conn' = conn /\ tokenOwner[t] \in Peers
        /\ principal' = [principal EXCEPT ![s] = tokenOwner[t]]
        /\ principal'[s] = tokenOwner[t]
    BY <1>1, <1>2 DEF AuditAttach, HandleAttachRequest, Ready, Authorized, TypeOK
  <2>2. \A e \in Ids : owners'[e] = owners[e] \/ (e = d /\ owners'[e] = principal'[s])
    BY <1>1, <1>2, <2>1 DEF AuditAttach, HandleAttachRequest, acquire, TypeOK, LeaseTable
  <2>3. \A r \in Sessions : conn[r] # "closed" /\ principal[r] # NoPeer => Ends(r)
    <3>1. tokenOwner[t] # NoPeer
      BY <2>1, NoPeerAssumption
    <3> QED BY <1>1, <2>1, <3>1 DEF Ends, TypeOK
  <2>4. \/ /\ owners'[d] = principal'[s]
           /\ via' = [via EXCEPT ![d] = s] /\ switched' = Switched \ {d}
        \/ owners'[d] # principal'[s] /\ via' = via /\ switched' = Switched
    BY <1>2 DEF AuditAttach
  <2>5. via' \in [Ids -> Sessions \cup {NoSession}]
    BY <1>1, <2>4
  <2>6. ASSUME NEW e \in Ids, owners'[e] # NoPeer, e \notin switched'
        PROVE  /\ via'[e] \in Sessions
               /\ conn'[via'[e]] # "closed" /\ principal'[via'[e]] = owners'[e]
    <3>1. CASE e = d /\ owners'[d] = principal'[s]
      <4>1. via'[e] = s
        BY <1>1, <2>4, <3>1
      <4> QED BY <2>1, <3>1, <4>1
    <3>2. CASE ~(e = d /\ owners'[d] = principal'[s])
      <4>1. owners'[e] = owners[e] /\ via'[e] = via[e] /\ e \notin Switched
        BY <1>1, <2>2, <2>4, <2>6, <3>2
      <4>2. e \notin switched /\ ~(via[e] # NoSession /\ Switches(via[e]))
        BY <2>6, <4>1 DEF Switched
      <4> QED BY <2>3, <2>6, <4>1, <4>2, LeaseStays
    <3> QED BY <3>1, <3>2
  <2> QED BY <1>1, <2>5, <2>6 DEF ViaInv, LeaseHolderConnected
<1>3. CASE AuditOther
  <2>1. /\ \A d \in Ids : owners'[d] # NoPeer => owners'[d] = owners[d]
        /\ \A s \in Sessions : conn[s] # "closed" /\ principal[s] # NoPeer => Ends(s)
    BY <1>1, <1>3, OtherLeases DEF AuditOther
  <2>2. /\ via' = [d \in Ids |-> IF owners'[d] = NoPeer THEN NoSession ELSE via[d]]
        /\ switched' = Switched
    BY <1>3 DEF AuditOther
  <2>3. via' \in [Ids -> Sessions \cup {NoSession}]
    BY <1>1, <2>2
  <2>4. ASSUME NEW d \in Ids, owners'[d] # NoPeer, d \notin switched'
        PROVE  /\ via'[d] \in Sessions
               /\ conn'[via'[d]] # "closed" /\ principal'[via'[d]] = owners'[d]
    <3>1. owners'[d] = owners[d] /\ via'[d] = via[d]
      BY <2>1, <2>2, <2>4
    <3>2. d \notin switched /\ ~(via[d] # NoSession /\ Switches(via[d]))
      BY <2>2, <2>4 DEF Switched
    <3> QED BY <2>1, <2>4, <3>1, <3>2, LeaseStays
  <2> QED BY <1>1, <2>3, <2>4 DEF ViaInv, LeaseHolderConnected
<1>4. CASE UNCHANGED auditVars
  BY <1>1, <1>4 DEF auditVars, vars, serverVars, connVars, ViaInv, LeaseHolderConnected
<1> QED BY <1>2, <1>3, <1>4 DEF AuditNext

\* A lease goes with the connection through which it was last asked for, whatever
\* other connections come and go, unless that connection has been authenticated as
\* another peer in the meantime (serve_session takes the fingerprint of every Hello).
THEOREM LeasesHaveAConnection == AuditSpec => []LeaseHolderConnected
<1>1. AuditInit => ViaInv
  BY TypeInit DEF AuditInit, Init, ViaInv, LeaseHolderConnected
<1>2. ViaInv => LeaseHolderConnected
  BY DEF ViaInv
<1> QED BY <1>1, <1>2, ViaStep, PTL DEF AuditSpec
=============================================================================
