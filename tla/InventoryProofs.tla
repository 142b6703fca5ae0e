--------------------------- MODULE InventoryProofs ---------------------------
(***************************************************************************)
(* Proofs about DeviceInventory, for any set of ports and any width of the *)
(* id counter: the maps of the inventory agree with each other after any   *)
(* sequence of scans, and an id that was retired never comes back while    *)
(* the counter has not run out.                                            *)
(***************************************************************************)
EXTENDS DeviceInventory, FiniteSetTheorems, WellFoundedInduction, TLAPS

\* A nonempty set of positions has a last one.
LEMMA LastExists ==
    ASSUME NEW n \in Nat, NEW T \in SUBSET (1..n), T # {}
    PROVE  \E j \in T : \A m \in T : m <= j
<1> DEFINE Gaps == {n - j : j \in T}
<1>1. IsWellFoundedOn(OpToRel(<, Nat), Nat)
  BY NatLessThanWellFounded
<1>2. Gaps \subseteq Nat /\ Gaps # {}
  <2>1. \A j \in T : j \in 1..n
    OBVIOUS
  <2>2. \A j \in T : n - j \in Nat
    BY <2>1
  <2> QED BY <2>2
<1>3. PICK x \in Gaps : \A y \in Gaps : ~ (<<y, x>> \in OpToRel(<, Nat))
  <2> HIDE DEF Gaps
  <2> QED BY <1>1, <1>2, WFMin, Zenon
<1>4. ASSUME NEW y \in Gaps PROVE x <= y
  <2>1. x \in Nat /\ y \in Nat
    BY <1>2
  <2>2. ASSUME y < x PROVE FALSE
    <3>1. <<y, x>> \in {ss \in Nat \X Nat : ss[1] < ss[2]}
      BY <2>1, <2>2
    <3> QED BY <1>3, <3>1, Zenon DEF OpToRel
  <2> QED BY <2>1, <2>2
<1>5. PICK j \in T : x = n - j
  BY <1>3
<1>6. \A m \in T : m <= j
  BY <1>4, <1>5
<1> QED BY <1>6

\* What a scan is made of: positions 1..n, every device a host device.
LEMMA ScanShape ==
    ASSUME NEW keys \in SUBSET HostKeys, NEW v \in Scans(keys)
    PROVE  /\ Cardinality(keys) \in Nat
           /\ DOMAIN v = 1..Cardinality(keys)
           /\ IsFiniteSet(DOMAIN v)
           /\ \A j \in DOMAIN v : v[j] \in Device /\ v[j].key \in HostKeys /\ v[j].key \in Keys
           /\ \A i, j \in DOMAIN v : v[i].key = v[j].key => i = j
<1>1. Cardinality(keys) \in Nat
  BY InventoryAssumption, FS_Subset, FS_CardinalityType
<1>2. DOMAIN v = 1..Cardinality(keys)
  BY DEF Scans
<1>3. IsFiniteSet(1..Cardinality(keys))
  BY <1>1, FS_Interval
<1>4. \A j \in DOMAIN v : v[j] \in [key : keys, exported : ExportFlags]
  BY DEF Scans
<1>5. \A j \in DOMAIN v : v[j] \in Device /\ v[j].key \in HostKeys /\ v[j].key \in Keys
  BY <1>4, InventoryAssumption DEF Device, Keys
<1>6. \A i, j \in DOMAIN v : v[i].key = v[j].key => i = j
  BY DEF Scans
<1> QED BY <1>1, <1>2, <1>3, <1>5, <1>6

\* The number of unknown devices of a scan, before a position and in all.
LEMMA NewCounts ==
    ASSUME NEW keys \in SUBSET HostKeys, NEW v \in Scans(keys)
    PROVE  /\ Cardinality(NewDevices(v)) \in Nat
           /\ \A j \in DOMAIN v : Cardinality(NewBefore(v, j)) \in Nat
           /\ \A j \in NewDevices(v) : Cardinality(NewBefore(v, j)) < Cardinality(NewDevices(v))
           /\ \A i, j \in NewDevices(v) :
                i < j => Cardinality(NewBefore(v, i)) < Cardinality(NewBefore(v, j))
<1>1. IsFiniteSet(NewDevices(v))
  <2>1. NewDevices(v) \subseteq DOMAIN v
    BY DEF NewDevices
  <2> QED BY <2>1, ScanShape, FS_Subset
<1>2. \A j : NewBefore(v, j) \subseteq NewDevices(v)
  BY DEF NewBefore
<1>3. \A j : IsFiniteSet(NewBefore(v, j)) /\ Cardinality(NewBefore(v, j)) \in Nat
  BY <1>1, <1>2, FS_Subset, FS_CardinalityType
<1>4. NewDevices(v) \subseteq Int
  BY ScanShape DEF NewDevices
<1>5. ASSUME NEW S, IsFiniteSet(S), NEW j \in NewDevices(v), j \in S, NewBefore(v, j) \subseteq S
      PROVE  Cardinality(NewBefore(v, j)) < Cardinality(S)
  <2>1. j \notin NewBefore(v, j)
    BY <1>4 DEF NewBefore
  <2>2. Cardinality(NewBefore(v, j) \cup {j}) = Cardinality(NewBefore(v, j)) + 1
    BY <1>3, <2>1, FS_AddElement
  <2>3. Cardinality(NewBefore(v, j) \cup {j}) <= Cardinality(S)
    BY <1>5, FS_Subset
  <2>4. Cardinality(S) \in Nat
    BY <1>5, FS_CardinalityType
  <2> QED BY <1>3, <2>2, <2>3, <2>4
<1>6. \A j \in NewDevices(v) : Cardinality(NewBefore(v, j)) < Cardinality(NewDevices(v))
  BY <1>1, <1>2, <1>5
<1>7. ASSUME NEW i \in NewDevices(v), NEW j \in NewDevices(v), i < j
      PROVE  Cardinality(NewBefore(v, i)) < Cardinality(NewBefore(v, j))
  <2>1. i \in NewBefore(v, j) /\ NewBefore(v, i) \subseteq NewBefore(v, j)
    BY <1>4, <1>7 DEF NewBefore
  <2> QED BY <1>3, <1>5, <2>1
<1> QED BY <1>1, <1>3, <1>6, <1>7, FS_CardinalityType

\* Every id the loop hands out is an id, saturated or not.
LEMMA IdAtType ==
    ASSUME InventoryTypeOK, NEW keys \in SUBSET HostKeys, NEW v \in Scans(keys)
    PROVE  /\ \A j \in DOMAIN v : IdAt(v, j) \in Ids
           /\ ScannedIds(v) \subseteq Ids
           /\ SatAdd(next_id, Cardinality(NewDevices(v))) \in Ids
           /\ next_id <= SatAdd(next_id, Cardinality(NewDevices(v)))
<1>1. \A c \in Nat : SatAdd(next_id, c) \in Ids /\ next_id <= SatAdd(next_id, c)
  BY InventoryAssumption DEF SatAdd, InventoryTypeOK, Ids
<1>2. \A j \in DOMAIN v : known_ids[v[j].key] \in {0} \cup Ids
  BY ScanShape DEF InventoryTypeOK
<1>3. \A j \in DOMAIN v : Cardinality(NewBefore(v, j)) \in Nat
  BY NewCounts
<1>4. \A j \in DOMAIN v : IdAt(v, j) \in Ids
  BY <1>1, <1>2, <1>3 DEF IdAt
<1>5. ScannedIds(v) \subseteq Ids
  BY <1>4 DEF ScannedIds
<1> QED BY <1>1, <1>4, <1>5, NewCounts

\* The device stored under a scanned id is one the scan reported with that id.
LEMMA DeviceForScanned ==
    ASSUME NEW keys \in SUBSET HostKeys, NEW v \in Scans(keys),
           NEW i \in ScannedIds(v)
    PROVE  \E j \in DOMAIN v : IdAt(v, j) = i /\ DeviceFor(v, i) = v[j]
<1> DEFINE js == {j \in DOMAIN v : IdAt(v, j) = i}
<1>1. js # {}
  BY DEF ScannedIds
<1>2. js \in SUBSET (1..Cardinality(keys)) /\ Cardinality(keys) \in Nat
  BY ScanShape
<1>3. \E j \in js : \A m \in js : m <= j
  <2> HIDE DEF js
  <2> QED BY <1>1, <1>2, LastExists
<1>4. (CHOOSE j \in js : \A m \in js : m <= j) \in js
  <2> HIDE DEF js
  <2> QED BY <1>3
<1>5. DeviceFor(v, i) = v[CHOOSE j \in js : \A m \in js : m <= j]
  BY DEF DeviceFor
<1> QED BY <1>4, <1>5

\* A refresh keeps the inventory well typed, with one token per present id.
LEMMA RefreshKeepsType ==
    ASSUME InventoryTypeOK, NEW keys \in SUBSET HostKeys, NEW v \in Scans(keys),
           refresh_hosts(v)
    PROVE  InventoryTypeOK'
<1>1. \A i \in ScannedIds(v) : DeviceFor(v, i) \in Device
  BY DeviceForScanned, ScanShape
<1>2. present' \in [Ids -> Device \cup {NoDevice}]
  BY <1>1 DEF refresh_hosts, KnownIdsAfter, PresenceAfter, InventoryTypeOK
<1>3. known_ids' \in [Keys -> {0} \cup Ids]
  <2>1. ASSUME NEW k \in Keys, \E j \in DOMAIN v : v[j].key = k
        PROVE  IdAt(v, CHOOSE j \in DOMAIN v : v[j].key = k) \in Ids
    <3>1. (CHOOSE j \in DOMAIN v : v[j].key = k) \in DOMAIN v
      BY <2>1
    <3> QED BY <3>1, IdAtType
  <2> QED BY <2>1 DEF refresh_hosts, KnownIdsAfter, PresenceAfter, InventoryTypeOK
<1>4. presence' \subseteq Ids /\ retired' \subseteq Ids /\ next_id' \in Ids
  BY IdAtType DEF refresh_hosts, KnownIdsAfter, PresenceAfter, InventoryTypeOK, Removed, HostIds
<1> QED BY <1>2, <1>3, <1>4 DEF InventoryTypeOK

LEMMA RefreshKeepsPresence ==
    ASSUME InventoryTypeOK, PresenceMatchesPresent,
           NEW keys \in SUBSET HostKeys, NEW v \in Scans(keys), refresh_hosts(v)
    PROVE  PresenceMatchesPresent'
<1>1. \A i \in ScannedIds(v) : DeviceFor(v, i) # NoDevice
  BY DeviceForScanned, ScanShape, InventoryAssumption
<1>2. ScannedIds(v) \subseteq Ids /\ Removed(v) \cap ScannedIds(v) = {}
  BY IdAtType DEF Removed
<1> QED BY <1>1, <1>2 DEF refresh_hosts, KnownIdsAfter, PresenceAfter, PresenceMatchesPresent, InventoryTypeOK

\* The inductive invariant.
InventoryInv ==
    InventoryTypeOK /\ PresenceMatchesPresent /\ KnownIdsExact /\ RetiredForGood

\* While ids last, a known device keeps its id, which is present and below the
\* counter; unknown devices get fresh ids at or above it, each its own.
LEMMA IdsOfAScan ==
    ASSUME InventoryInv, NEW keys \in SUBSET HostKeys, NEW v \in Scans(keys),
           SatAdd(next_id, Cardinality(NewDevices(v))) < MaxId
    PROVE  /\ Unsaturated
           /\ \A j \in DOMAIN v : known_ids[v[j].key] # 0 =>
                /\ IdAt(v, j) = known_ids[v[j].key]
                /\ IdAt(v, j) \in presence
                /\ IdAt(v, j) < next_id
                /\ present[IdAt(v, j)] # NoDevice
                /\ present[IdAt(v, j)].key = v[j].key
           /\ \A j \in DOMAIN v : known_ids[v[j].key] = 0 =>
                /\ next_id <= IdAt(v, j)
                /\ IdAt(v, j) < SatAdd(next_id, Cardinality(NewDevices(v)))
           /\ \A i, j \in DOMAIN v : IdAt(v, i) = IdAt(v, j) => i = j
<1> USE DEF InventoryInv
<1> DEFINE C == Cardinality(NewDevices(v))
           B(j) == Cardinality(NewBefore(v, j))
<1>1. next_id \in Nat /\ MaxId \in Nat /\ C \in Nat
  BY InventoryAssumption, NewCounts DEF InventoryTypeOK, Ids
<1>2. next_id + C < MaxId /\ Unsaturated /\ SatAdd(next_id, C) = next_id + C
  BY <1>1 DEF SatAdd, Unsaturated
<1>3. ASSUME NEW j \in DOMAIN v, known_ids[v[j].key] # 0
      PROVE  /\ IdAt(v, j) = known_ids[v[j].key]
             /\ IdAt(v, j) \in presence
             /\ IdAt(v, j) < next_id
             /\ present[IdAt(v, j)] # NoDevice
             /\ present[IdAt(v, j)].key = v[j].key
  <2>1. IdAt(v, j) = known_ids[v[j].key] /\ v[j].key \in Keys /\ IdAt(v, j) \in Ids
    BY <1>3, ScanShape, IdAtType DEF IdAt
  <2>2. present[IdAt(v, j)] # NoDevice /\ present[IdAt(v, j)].key = v[j].key
    BY <2>1, <1>2 DEF KnownIdsExact
  <2>3. IdAt(v, j) \in presence
    BY <2>1, <2>2 DEF PresenceMatchesPresent
  <2> QED BY <1>2, <2>1, <2>2, <2>3 DEF RetiredForGood
<1>4. ASSUME NEW j \in DOMAIN v, known_ids[v[j].key] = 0
      PROVE  /\ j \in NewDevices(v)
             /\ B(j) \in Nat /\ B(j) < C
             /\ IdAt(v, j) = next_id + B(j)
  <2>1. j \in NewDevices(v)
    BY <1>4 DEF NewDevices
  <2>2. B(j) \in Nat /\ B(j) < C
    BY <2>1, NewCounts
  <2>3. SatAdd(next_id, B(j)) = next_id + B(j)
    BY <1>1, <1>2, <2>2 DEF SatAdd
  <2> QED BY <1>4, <2>1, <2>2, <2>3 DEF IdAt
<1>5. ASSUME NEW i \in DOMAIN v, NEW j \in DOMAIN v, IdAt(v, i) = IdAt(v, j)
      PROVE  i = j
  <2>1. CASE known_ids[v[i].key] # 0 /\ known_ids[v[j].key] # 0
    <3>1. v[i].key = v[j].key
      BY <1>3, <1>5, <2>1
    <3> QED BY <3>1, ScanShape
  <2>2. CASE known_ids[v[i].key] = 0 /\ known_ids[v[j].key] = 0
    <3>1. i \in NewDevices(v) /\ j \in NewDevices(v) /\ B(i) = B(j) /\ B(i) \in Nat
      BY <1>1, <1>4, <1>5, <2>2
    <3>2. ~(i < j) /\ ~(j < i)
      BY <3>1, NewCounts
    <3>3. i \in Int /\ j \in Int
      BY ScanShape
    <3> QED BY <3>2, <3>3
  <2>3. ASSUME NEW a \in DOMAIN v, NEW b \in DOMAIN v,
               known_ids[v[a].key] = 0, known_ids[v[b].key] # 0
        PROVE  IdAt(v, a) # IdAt(v, b)
    BY <1>1, <1>3, <1>4, <2>3, IdAtType DEF Ids
  <2> QED BY <1>5, <2>1, <2>2, <2>3
<1> QED BY <1>1, <1>2, <1>3, <1>4, <1>5

\* A refresh preserves the invariant: the part about ids by cases on whether the
\* scan reports a key and whether it reports an id.
LEMMA RefreshKeepsIds ==
    ASSUME InventoryInv, NEW keys \in SUBSET HostKeys, NEW v \in Scans(keys),
           refresh_hosts(v)
    PROVE  KnownIdsExact' /\ RetiredForGood'
<1> SUFFICES ASSUME next_id' < MaxId
             PROVE  /\ \A k \in Keys, i \in Ids :
                         known_ids'[k] = i <=> present'[i] # NoDevice /\ present'[i].key = k
                    /\ retired' \cap presence' = {}
                    /\ \A i \in presence' \cup retired' : i < next_id'
  BY DEF KnownIdsExact, RetiredForGood, Unsaturated
<1> DEFINE gone == {present[i].key : i \in Removed(v)}
           Reports(k) == \E j \in DOMAIN v : v[j].key = k
<1>0. next_id' = SatAdd(next_id, Cardinality(NewDevices(v)))
  BY DEF refresh_hosts, KnownIdsAfter, PresenceAfter
<1>1. /\ InventoryTypeOK /\ PresenceMatchesPresent
      /\ \A k \in Keys, i \in Ids :
           known_ids[k] = i <=> present[i] # NoDevice /\ present[i].key = k
      /\ retired \cap presence = {}
      /\ \A i \in presence \cup retired : i < next_id
  BY <1>0, IdsOfAScan DEF InventoryInv, KnownIdsExact, RetiredForGood
<1>2. next_id \in Nat /\ next_id' \in Nat /\ next_id <= next_id' /\ Ids \subseteq Nat
  BY <1>0, <1>1, IdAtType, InventoryAssumption DEF InventoryTypeOK, Ids
<1>3. /\ Removed(v) \subseteq Ids
      /\ Removed(v) \cap ScannedIds(v) = {}
      /\ \A i \in Removed(v) : present[i] # NoDevice /\ present[i].key \in Keys
      /\ ScannedIds(v) \subseteq Ids
  BY <1>1, IdAtType DEF Removed, HostIds, Keys
<1>4. ASSUME NEW j \in DOMAIN v
      PROVE  /\ IdAt(v, j) \in ScannedIds(v) /\ IdAt(v, j) \in Ids
             /\ DeviceFor(v, IdAt(v, j)) = v[j]
             /\ v[j] \in Device /\ v[j].key \in Keys /\ v[j] # NoDevice
             /\ v[j].key \notin gone
             /\ known_ids'[v[j].key] = IdAt(v, j)
             /\ present'[IdAt(v, j)] = v[j]
  <2>1. IdAt(v, j) \in ScannedIds(v) /\ IdAt(v, j) \in Ids
    BY IdAtType, <1>1 DEF ScannedIds
  <2>2. DeviceFor(v, IdAt(v, j)) = v[j]
    BY <2>1, <1>0, DeviceForScanned, IdsOfAScan
  <2>3. v[j] \in Device /\ v[j].key \in Keys /\ v[j] # NoDevice
    BY ScanShape, InventoryAssumption
  <2>4. ASSUME NEW i \in Removed(v), v[j].key = present[i].key PROVE FALSE
    <3>1. known_ids[v[j].key] = i /\ i \in Ids /\ i # 0
      BY <1>1, <1>3, <2>4, <2>3 DEF Ids
    <3>2. IdAt(v, j) = i
      BY <1>0, <3>1, IdsOfAScan
    <3> QED BY <3>2, <2>1, <1>3
  <2>5. (CHOOSE m \in DOMAIN v : v[m].key = v[j].key) = j
    BY ScanShape
  <2>6. known_ids'[v[j].key] = IdAt(v, j)
    <3>1. v[j].key \notin gone /\ Reports(v[j].key)
      BY <2>4
    <3> QED BY <2>3, <2>5, <3>1 DEF refresh_hosts, KnownIdsAfter, PresenceAfter
  <2>7. present'[IdAt(v, j)] = v[j]
    BY <2>1, <2>2 DEF refresh_hosts, KnownIdsAfter, PresenceAfter
  <2> QED BY <2>1, <2>2, <2>3, <2>4, <2>6, <2>7
<1>5. ASSUME NEW i \in Ids, i \notin ScannedIds(v)
      PROVE  present'[i] = IF i \in Removed(v) THEN NoDevice ELSE present[i]
  BY <1>5 DEF refresh_hosts, KnownIdsAfter, PresenceAfter
<1>6. ASSUME NEW k \in Keys, ~Reports(k)
      PROVE  known_ids'[k] = IF k \in gone THEN 0 ELSE known_ids[k]
  BY <1>6 DEF refresh_hosts, KnownIdsAfter, PresenceAfter
<1>7. ASSUME NEW k \in Keys, NEW i \in Ids
      PROVE  known_ids'[k] = i <=> present'[i] # NoDevice /\ present'[i].key = k
  <2>1. CASE Reports(k)
    <3>1. PICK j \in DOMAIN v : v[j].key = k
      BY <2>1
    <3>2. CASE i \in ScannedIds(v)
      <4>1. PICK m \in DOMAIN v : i = IdAt(v, m)
        BY <3>2 DEF ScannedIds
      <4>2. present'[i] = v[m] /\ v[m] # NoDevice /\ known_ids'[k] = IdAt(v, j)
        BY <1>4, <3>1, <4>1
      <4>3. IdAt(v, j) = IdAt(v, m) <=> v[m].key = v[j].key
        BY <1>0, IdsOfAScan, ScanShape
      <4> QED BY <3>1, <4>1, <4>2, <4>3
    <3>3. CASE i \notin ScannedIds(v)
      <4>1. known_ids'[k] # i
        BY <1>4, <3>1, <3>3
      <4>2. ASSUME present'[i] # NoDevice, present'[i].key = k PROVE FALSE
        <5>1. present[i] # NoDevice /\ present[i].key = k
          BY <1>5, <3>3, <4>2
        <5>2. known_ids[k] = i /\ i # 0
          BY <1>1, <5>1 DEF Ids
        <5>3. IdAt(v, j) = i
          BY <1>0, <3>1, <5>2, IdsOfAScan
        <5> QED BY <1>4, <3>3, <5>3
      <4> QED BY <4>1, <4>2
    <3> QED BY <3>2, <3>3
  <2>2. CASE ~Reports(k)
    <3>1. ASSUME known_ids'[k] = i PROVE present'[i] # NoDevice /\ present'[i].key = k
      <4>1. k \notin gone /\ known_ids[k] = i
        BY <1>6, <2>2, <3>1 DEF Ids
      <4>2. present[i] # NoDevice /\ present[i].key = k
        BY <1>1, <4>1
      <4>3. i \notin Removed(v)
        BY <4>1, <4>2
      <4>4. ASSUME NEW m \in DOMAIN v, i = IdAt(v, m) PROVE FALSE
        <5>1. i < next_id
          BY <1>1, <4>2 DEF PresenceMatchesPresent
        <5>2. known_ids[v[m].key] # 0
          BY <1>0, <1>2, <4>4, <5>1, IdsOfAScan
        <5>3. present[i].key = v[m].key
          BY <1>0, <4>4, <5>2, IdsOfAScan
        <5> QED BY <2>2, <4>2, <5>3
      <4>5. i \notin ScannedIds(v)
        BY <4>4 DEF ScannedIds
      <4> QED BY <1>5, <4>2, <4>3, <4>5
    <3>2. ASSUME present'[i] # NoDevice, present'[i].key = k PROVE known_ids'[k] = i
      <4>1. i \notin ScannedIds(v)
        BY <1>4, <2>2, <3>2 DEF ScannedIds
      <4>2. i \notin Removed(v) /\ present[i] # NoDevice /\ present[i].key = k
        BY <1>5, <3>2, <4>1
      <4>3. known_ids[k] = i
        BY <1>1, <4>2
      <4>4. ASSUME NEW x \in Removed(v), present[x].key = k PROVE FALSE
        BY <1>1, <1>3, <4>2, <4>3, <4>4
      <4> QED BY <1>6, <2>2, <4>3, <4>4
    <3> QED BY <3>1, <3>2
  <2> QED BY <2>1, <2>2
<1>8. \A i \in ScannedIds(v) : i \notin retired /\ i < next_id'
  <2> SUFFICES ASSUME NEW j \in DOMAIN v
               PROVE  IdAt(v, j) \notin retired /\ IdAt(v, j) < next_id'
    BY DEF ScannedIds
  <2>1. CASE known_ids[v[j].key] # 0
    <3>1. IdAt(v, j) \in presence /\ IdAt(v, j) < next_id /\ IdAt(v, j) \in Nat
      BY <1>0, <1>2, <1>4, <2>1, IdsOfAScan
    <3> QED BY <1>1, <1>2, <3>1
  <2>2. CASE known_ids[v[j].key] = 0
    <3>1. next_id <= IdAt(v, j) /\ IdAt(v, j) < next_id' /\ IdAt(v, j) \in Nat
      BY <1>0, <1>2, <1>4, <2>2, IdsOfAScan
    <3> QED BY <1>1, <1>2, <3>1
  <2> QED BY <2>1, <2>2
<1>9. /\ presence' = (presence \ Removed(v)) \cup ScannedIds(v)
      /\ retired' = retired \cup (Removed(v) \cap presence)
  BY DEF refresh_hosts, KnownIdsAfter, PresenceAfter
<1>10. retired' \cap presence' = {}
  BY <1>1, <1>3, <1>8, <1>9
<1>11. \A i \in presence' \cup retired' : i < next_id'
  <2>1. \A i \in presence \cup retired : i < next_id'
    BY <1>1, <1>2 DEF InventoryTypeOK
  <2> QED BY <1>8, <1>9, <2>1
<1> QED BY <1>7, <1>10, <1>11

LEMMA RefreshKeepsInv ==
    ASSUME InventoryInv, NEW keys \in SUBSET HostKeys, NEW v \in Scans(keys),
           refresh_hosts(v)
    PROVE  InventoryInv'
<1>1. InventoryTypeOK /\ PresenceMatchesPresent
  BY DEF InventoryInv
<1> QED BY <1>1, RefreshKeepsType, RefreshKeepsPresence, RefreshKeepsIds DEF InventoryInv

\* DeviceInventory::new establishes the invariant.
LEMMA InitGivesInv == InventoryInit => InventoryInv
<1> SUFFICES ASSUME InventoryInit PROVE InventoryInv
  OBVIOUS
<1>1. PICK keys \in SUBSET HostKeys :
        LET n == Cardinality(EmulatedKeys \cup keys)
        IN  \E d \in [1..n -> [key : EmulatedKeys \cup keys, exported : ExportFlags]] :
              /\ \A i, j \in 1..n : i # j => d[i].key # d[j].key
              /\ present = [i \in Ids |-> IF i <= n THEN d[i] ELSE NoDevice]
              /\ known_ids = [k \in Keys |->
                   IF \E i \in 1..n : d[i].key = k
                   THEN CHOOSE i \in 1..n : d[i].key = k ELSE 0]
              /\ presence = 1..n
              /\ retired = {}
              /\ next_id = n + 1
  BY DEF InventoryInit
<1> DEFINE n == Cardinality(EmulatedKeys \cup keys)
<1>2. n \in Nat /\ n < MaxId /\ MaxId \in Nat
  <2>1. IsFiniteSet(Keys)
    BY InventoryAssumption, FS_Union DEF Keys
  <2>2. (EmulatedKeys \cup keys) \in SUBSET Keys
    BY DEF Keys
  <2>3. IsFiniteSet(EmulatedKeys \cup keys) /\ n <= Cardinality(Keys)
    BY <2>1, <2>2, FS_Subset
  <2>4. n \in Nat /\ Cardinality(Keys) \in Nat
    BY <2>1, <2>3, FS_CardinalityType
  <2> QED BY <2>3, <2>4, InventoryAssumption
<1>3. PICK d \in [1..n -> [key : EmulatedKeys \cup keys, exported : ExportFlags]] :
        /\ \A i, j \in 1..n : i # j => d[i].key # d[j].key
        /\ present = [i \in Ids |-> IF i <= n THEN d[i] ELSE NoDevice]
        /\ known_ids = [k \in Keys |->
             IF \E i \in 1..n : d[i].key = k
             THEN CHOOSE i \in 1..n : d[i].key = k ELSE 0]
        /\ presence = 1..n
        /\ retired = {}
        /\ next_id = n + 1
  BY <1>1
<1> HIDE DEF n
<1>4. \A i \in 1..n : i \in Ids /\ d[i] \in Device /\ d[i] # NoDevice /\ d[i].key \in Keys
  <2>1. \A i \in 1..n : d[i] \in [key : EmulatedKeys \cup keys, exported : ExportFlags]
    BY <1>3
  <2>2. \A i \in 1..n : d[i] \in Device /\ d[i].key \in Keys
    BY <2>1, InventoryAssumption DEF Device, Keys
  <2> QED BY <1>2, <2>2, InventoryAssumption DEF Ids
<1>5. ASSUME NEW k \in Keys, NEW i \in 1..n, d[i].key = k
      PROVE  known_ids[k] = i
  <2>1. (CHOOSE m \in 1..n : d[m].key = k) = i
    BY <1>3, <1>5
  <2> QED BY <1>3, <1>5, <2>1
<1>6. \A k \in Keys : (\A i \in 1..n : d[i].key # k) => known_ids[k] = 0
  BY <1>3
<1>7. \A i \in Ids : present[i] = IF i \in 1..n THEN d[i] ELSE NoDevice
  BY <1>2, <1>3 DEF Ids
<1>8. InventoryTypeOK
  <2>1. known_ids \in [Keys -> {0} \cup Ids]
    <3>1. \A k \in Keys : known_ids[k] \in {0} \cup Ids
      BY <1>4, <1>5, <1>6
    <3> QED BY <1>3, <3>1
  <2>2. present \in [Ids -> Device \cup {NoDevice}]
    BY <1>3, <1>4, <1>7
  <2>3. presence \subseteq Ids /\ retired \subseteq Ids /\ next_id \in Ids
    BY <1>2, <1>3, <1>4 DEF Ids
  <2> QED BY <2>1, <2>2, <2>3 DEF InventoryTypeOK
<1>9. PresenceMatchesPresent
  BY <1>3, <1>4, <1>7 DEF PresenceMatchesPresent
<1>10. KnownIdsExact
  <2> SUFFICES ASSUME NEW k \in Keys, NEW i \in Ids
               PROVE  known_ids[k] = i <=> present[i] # NoDevice /\ present[i].key = k
    BY DEF KnownIdsExact
  <2>1. CASE \E m \in 1..n : d[m].key = k
    BY <1>4, <1>5, <1>7, <2>1
  <2>2. CASE \A m \in 1..n : d[m].key # k
    <3>1. known_ids[k] = 0 /\ i # 0
      BY <1>6, <2>2 DEF Ids
    <3> QED BY <1>7, <2>2, <3>1
  <2> QED BY <2>1, <2>2
<1>11. RetiredForGood
  BY <1>2, <1>3 DEF RetiredForGood
<1> QED BY <1>8, <1>9, <1>10, <1>11 DEF InventoryInv

LEMMA InventoryStep ==
    ASSUME InventoryInv, [InventoryNext]_inventoryVars
    PROVE  InventoryInv'
<1>1. CASE InventoryNext
  <2>1. PICK keys \in SUBSET HostKeys : \E v \in Scans(keys) : refresh_hosts(v)
    BY <1>1 DEF InventoryNext
  <2> QED BY <2>1, RefreshKeepsInv
<1>2. CASE UNCHANGED inventoryVars
  BY <1>2 DEF inventoryVars, InventoryInv, InventoryTypeOK, PresenceMatchesPresent,
              KnownIdsExact, RetiredForGood, Unsaturated
<1> QED BY <1>1, <1>2

\* An id that was handed out earlier is never given to another device: while
\* ids last, a scan leaves it with its device or with none.
LEMMA OldIdsNotReused ==
    ASSUME InventoryInv, InventoryNext, Unsaturated', NEW i \in Ids, i < next_id
    PROVE  /\ Unsaturated /\ i < next_id'
           /\ present'[i] = NoDevice
              \/ (present[i] # NoDevice /\ present'[i].key = present[i].key)
<1>1. PICK keys \in SUBSET HostKeys : \E v \in Scans(keys) : refresh_hosts(v)
  BY DEF InventoryNext
<1>2. PICK v \in Scans(keys) : refresh_hosts(v)
  BY <1>1
<1>3. next_id' = SatAdd(next_id, Cardinality(NewDevices(v))) /\ next_id' < MaxId
  BY <1>2 DEF refresh_hosts, KnownIdsAfter, PresenceAfter, Unsaturated
<1>4. InventoryTypeOK /\ Unsaturated
  BY <1>3, IdsOfAScan DEF InventoryInv
<1>5. i < next_id'
  <2>1. next_id \in Nat /\ next_id' \in Nat /\ next_id <= next_id' /\ i \in Nat
    BY <1>3, <1>4, IdAtType, InventoryAssumption DEF InventoryTypeOK, Ids
  <2> QED BY <2>1
<1>6. CASE i \in ScannedIds(v)
  <2>1. PICK j \in DOMAIN v : IdAt(v, j) = i /\ DeviceFor(v, i) = v[j]
    BY <1>6, DeviceForScanned
  <2>2. present'[i] = v[j]
    BY <1>2, <1>6, <2>1 DEF refresh_hosts, KnownIdsAfter, PresenceAfter
  <2>3. known_ids[v[j].key] # 0
    <3> SUFFICES ASSUME known_ids[v[j].key] = 0 PROVE FALSE
      OBVIOUS
    <3>1. next_id <= i
      BY <1>3, <2>1, IdsOfAScan
    <3>2. next_id \in Nat /\ i \in Nat
      BY <1>4, InventoryAssumption DEF InventoryTypeOK, Ids
    <3> QED BY <3>1, <3>2
  <2>4. present[i] # NoDevice /\ present[i].key = v[j].key
    BY <1>3, <2>1, <2>3, IdsOfAScan
  <2> QED BY <1>4, <1>5, <2>2, <2>4
<1>7. CASE i \notin ScannedIds(v)
  <2>1. present'[i] = IF i \in Removed(v) THEN NoDevice ELSE present[i]
    BY <1>2, <1>7 DEF refresh_hosts, KnownIdsAfter, PresenceAfter
  <2> QED BY <1>4, <1>5, <2>1
<1> QED BY <1>6, <1>7

\* After any sequence of scans the inventory is well typed and has one presence
\* token per present device; while ids last its key and id maps are inverse to
\* each other, and a removed device's id is retired for good (the promise of
\* docs/COMPATIBILITY.md).
THEOREM InventoryCorrect ==
    InventorySpec => [](InventoryTypeOK /\ MapsAgree /\ RetiredForGood)
<1>1. InventoryInv => InventoryTypeOK /\ MapsAgree /\ RetiredForGood
  BY DEF InventoryInv, MapsAgree
<1> QED BY InitGivesInv, InventoryStep, <1>1, PTL DEF InventorySpec

\* A device that stays plugged in keeps its id, in whatever order scans list it.
THEOREM PluggedDevicesKeepTheirId == InventorySpec => StableIds
<1>1. [InventoryNext]_inventoryVars =>
        [\A k \in Keys : known_ids[k] # 0 /\ known_ids'[k] # 0
                          => known_ids'[k] = known_ids[k]]_inventoryVars
  <2> SUFFICES ASSUME InventoryNext, NEW k \in Keys,
                      known_ids[k] # 0, known_ids'[k] # 0
               PROVE  known_ids'[k] = known_ids[k]
    OBVIOUS
  <2>1. PICK keys \in SUBSET HostKeys : \E v \in Scans(keys) : refresh_hosts(v)
    BY DEF InventoryNext
  <2>2. PICK v \in Scans(keys) : refresh_hosts(v)
    BY <2>1
  <2>3. CASE \E j \in DOMAIN v : v[j].key = k
    <3>1. known_ids'[k] = IdAt(v, CHOOSE j \in DOMAIN v : v[j].key = k)
      BY <2>2, <2>3 DEF refresh_hosts, KnownIdsAfter, PresenceAfter
    <3>2. v[CHOOSE j \in DOMAIN v : v[j].key = k].key = k
      BY <2>3
    <3> QED BY <3>1, <3>2 DEF IdAt
  <2>4. CASE ~\E j \in DOMAIN v : v[j].key = k
    BY <2>2, <2>4 DEF refresh_hosts, KnownIdsAfter, PresenceAfter
  <2> QED BY <2>3, <2>4
<1> QED BY <1>1, PTL DEF InventorySpec, StableIds
=============================================================================
