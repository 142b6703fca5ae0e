--------------------------- MODULE DeviceInventory ---------------------------
(***************************************************************************)
(* crates/farbus-core/src/usb.rs, DeviceInventory: which devices are       *)
(* present, the id each physical key keeps while it is present, and the    *)
(* presence token (Arc<AtomicBool>) that in-flight work holds on an id.    *)
(*                                                                         *)
(* A device is its DeviceKey and its export flag; a key is (backend, bus   *)
(* path, vendor, product), here a member of HostKeys or EmulatedKeys.  An  *)
(* id has at most one token in `presence`; `retired` holds the ids whose   *)
(* token was stored false, which is what a holder of the token reads.      *)
(***************************************************************************)
EXTENDS Integers, FiniteSets

CONSTANTS
    HostKeys,       \* keys of physical devices the hotplug scan can report
    EmulatedKeys,   \* keys of emulated devices, present from the start
    ExportFlags,    \* the flags the export policy can give a host device
    MaxId,          \* the largest id: u32::MAX in the code
    NoDevice        \* "no entry" in `present`

Keys == HostKeys \cup EmulatedKeys
Ids  == 1..MaxId
Device == [key : Keys, exported : BOOLEAN]

ASSUME InventoryAssumption ==
    /\ IsFiniteSet(HostKeys) /\ IsFiniteSet(EmulatedKeys)
    /\ HostKeys \cap EmulatedKeys = {}
    /\ ExportFlags \subseteq BOOLEAN /\ ExportFlags # {}
    /\ MaxId \in Nat /\ MaxId > Cardinality(Keys)
    /\ NoDevice \notin Device

VARIABLES
    present,    \* id -> device, or NoDevice
    known_ids,  \* key -> id, 0 for "no entry"
    presence,   \* ids that have a token in the presence map
    retired,    \* ids whose token has been stored false
    next_id

inventoryVars == <<present, known_ids, presence, retired, next_id>>

InventoryTypeOK ==
    /\ present \in [Ids -> Device \cup {NoDevice}]
    /\ known_ids \in [Keys -> {0} \cup Ids]
    /\ presence \subseteq Ids
    /\ retired \subseteq Ids
    /\ next_id \in Ids

HostIds == {i \in Ids : present[i] # NoDevice /\ present[i].key \in HostKeys}

\* The vectors a scan can return: every key once, in any order.
Scans(keys) ==
    {v \in [1..Cardinality(keys) -> [key : keys, exported : ExportFlags]] :
        \A i, j \in DOMAIN v : i # j => v[i].key # v[j].key}

-----------------------------------------------------------------------------
\* saturating_add on the id counter.
SatAdd(a, n) == IF a + n > MaxId THEN MaxId ELSE a + n

\* Positions of devices that are not known yet.
NewDevices(v) == {m \in DOMAIN v : known_ids[v[m].key] = 0}

\* Mutation: the counter is read once for the whole scan.
NewBeforeNone(v, j) == {}

\* Those before j: each has taken one id from allocate_id() when the loop
\* reaches position j.
NewBefore(v, j) == {m \in NewDevices(v) : m < j}

\* Mutation: every rescan numbers the devices anew, by position.
IdAtPosition(v, j) == SatAdd(next_id, Cardinality({m \in DOMAIN v : m < j}))

\* The id the loop gives to the device at position j.
IdAt(v, j) ==
    LET k == known_ids[v[j].key]
    IN  IF k # 0 THEN k ELSE SatAdd(next_id, Cardinality(NewBefore(v, j)))

ScannedIds(v) == {IdAt(v, j) : j \in DOMAIN v}

\* Mutation: an empty scan is taken for a failed one.
RemovedUnlessEmpty(v) == IF DOMAIN v = {} THEN {} ELSE HostIds \ ScannedIds(v)

\* InventoryDelta.removed: host ids that the scan no longer reports.
Removed(v) == HostIds \ ScannedIds(v)

\* The device stored under a scanned id: insert() overwrites, the last wins.
DeviceFor(v, i) ==
    LET js == {j \in DOMAIN v : IdAt(v, j) = i}
    IN  v[CHOOSE j \in js : \A m \in js : m <= j]

\* Mutation: the key of a device that has gone keeps its id.
KnownIdsKept(v) ==
    [k \in Keys |-> IF \E j \in DOMAIN v : v[j].key = k
                    THEN IdAt(v, CHOOSE j \in DOMAIN v : v[j].key = k)
                    ELSE known_ids[k]]

\* known_ids: a key that was scanned has its id, one that has gone has none.
KnownIdsAfter(v) ==
    [k \in Keys |->
        IF k \in {present[i].key : i \in Removed(v)} THEN 0
        ELSE IF \E j \in DOMAIN v : v[j].key = k
             THEN IdAt(v, CHOOSE j \in DOMAIN v : v[j].key = k)
             ELSE known_ids[k]]

\* presence: a token for every scanned id, none for a removed one.
PresenceAfter(v) == (presence \ Removed(v)) \cup ScannedIds(v)

refresh_hosts(v) ==
    /\ known_ids' = KnownIdsAfter(v)
    /\ presence' = PresenceAfter(v)
    /\ retired' = retired \cup (Removed(v) \cap presence)
    /\ present' = [i \in Ids |->
         IF i \in ScannedIds(v) THEN DeviceFor(v, i)
         ELSE IF i \in Removed(v) THEN NoDevice ELSE present[i]]
    /\ next_id' = SatAdd(next_id, Cardinality(NewDevices(v)))

\* DeviceInventory::new: the emulated devices and the first scan of the hosts,
\* numbered 1, 2, ... in any order.
InventoryInit ==
    \E keys \in SUBSET HostKeys :
      LET n == Cardinality(EmulatedKeys \cup keys)
      IN  \E d \in [1..n -> [key : EmulatedKeys \cup keys, exported : ExportFlags]] :
            /\ \A i, j \in 1..n : i # j => d[i].key # d[j].key
            /\ present = [i \in Ids |-> IF i <= n THEN d[i] ELSE NoDevice]
            /\ known_ids = [k \in Keys |->
                 IF \E i \in 1..n : d[i].key = k
                 THEN CHOOSE i \in 1..n : d[i].key = k ELSE 0]
            /\ presence = 1..n
            /\ retired = {}
            /\ next_id = n + 1

InventoryNext ==
    \E keys \in SUBSET HostKeys : \E v \in Scans(keys) : refresh_hosts(v)

InventorySpec == InventoryInit /\ [][InventoryNext]_inventoryVars

-----------------------------------------------------------------------------
\* Ids have not run out: below this, allocate_id() has never saturated.
Unsaturated == next_id < MaxId

\* The two maps keyed by id never drift apart: an id has a presence token
\* exactly while it has a device (`present` and `presence` are updated by
\* different statements of refresh_hosts and new).
PresenceMatchesPresent == presence = {i \in Ids : present[i] # NoDevice}

\* known_ids is exactly the inverse of `present`: no id of a device that has
\* gone is remembered, so a replug cannot get its old id back.
KnownIdsExact ==
    Unsaturated => \A k \in Keys, i \in Ids :
        known_ids[k] = i <=> present[i] # NoDevice /\ present[i].key = k

\* The three maps agree after any number of replugs, although each is updated
\* by statements of its own (refresh_hosts).
MapsAgree == PresenceMatchesPresent /\ KnownIdsExact

\* Removal retires the id for good (docs/COMPATIBILITY.md, "Experimental"):
\* no retired id is ever present again, so a token stored false stays the
\* truth about its id, and the counter is above every id ever handed out.
RetiredForGood ==
    Unsaturated => /\ retired \cap presence = {}
                   /\ \A i \in presence \cup retired : i < next_id

\* A device that stays plugged in keeps its id whatever the order in which
\* the scan lists the devices.
StableIds ==
    [][\A k \in Keys : known_ids[k] # 0 /\ known_ids'[k] # 0
                        => known_ids'[k] = known_ids[k]]_inventoryVars
=============================================================================
