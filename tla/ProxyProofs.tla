----------------------------- MODULE ProxyProofs -----------------------------
(***************************************************************************)
(* Proofs about UsbipProxy, for any number of connections and requests,    *)
(* any capacity of the outgoing channel and any width of the ids.          *)
(***************************************************************************)
EXTENDS UsbipProxy, InventoryProofs, SequenceTheorems

\* The id of a device that a connection remembers has been handed out, and is
\* that device's or nobody's.
Sound(d) ==
    d.id # 0 => /\ d.id < next_id
                /\ present[d.id] = NoDevice \/ present[d.id].key = d.key

\* This holds of the whole snapshot, since any of it may be imported later.
SnapshotsSound ==
    Unsaturated => \A c \in Conns : Sound(serves[c]) /\ \A d \in snap[c] : Sound(d)

Elements(s) == {s[i] : i \in 1..Len(s)}
Distinct(s) == \A i, j \in 1..Len(s) : i # j => s[i] # s[j]

\* The requests whose answer is in the outgoing channel.
Queued(c) == Elements(out[c])

\* What becomes of the requests of a client that has not closed: each one that
\* was read is with a task, or queued once, or answered once, and only one of
\* these.  The writer lives as long as there is anything to write.
Accounted(c) ==
    /\ Distinct(out[c])
    /\ \A r \in urbs[c] : r <= asked[c] /\ r \notin Queued(c)
    /\ \A r \in Queued(c) : r <= asked[c]
    /\ \A r \in Requests : answered[c][r] =
         IF r <= asked[c] /\ r \notin urbs[c] /\ r \notin Queued(c) THEN 1 ELSE 0
    /\ conn[c] \in {"none", "accepted", "managing"} => asked[c] = 0
    /\ conn[c] \in {"urbs", "draining"} => writer[c]
    /\ conn[c] = "ended" => urbs[c] = {} /\ out[c] = <<>>

RequestsAccounted == \A c \in Conns : peer[c] => Accounted(c)

ProxyInv == InventoryInv /\ ProxyTypeOK /\ SnapshotsSound /\ RequestsAccounted

-----------------------------------------------------------------------------
\* Queueing an answer adds its request and nothing else.
LEMMA AppendAdds ==
    ASSUME NEW S, NEW s \in Seq(S), NEW r \in S
    PROVE  /\ Append(s, r) \in Seq(S) /\ Len(Append(s, r)) = Len(s) + 1
           /\ Elements(Append(s, r)) = Elements(s) \cup {r}
           /\ Distinct(s) /\ r \notin Elements(s) => Distinct(Append(s, r))
<1> DEFINE t == Append(s, r)
<1>1. /\ t \in Seq(S) /\ Len(t) = Len(s) + 1 /\ Len(s) \in Nat
      /\ t[Len(s) + 1] = r /\ \A i \in 1..Len(s) : t[i] = s[i]
  BY AppendProperties, LenProperties
<1> HIDE DEF t
<1>2. \A i \in 1..Len(t) : i \in 1..Len(s) \/ i = Len(s) + 1
  BY <1>1
<1>3. \A i \in 1..Len(s) : i \in 1..Len(t)
  BY <1>1
<1>4. Len(s) + 1 \in 1..Len(t)
  BY <1>1
<1>5. Elements(t) = Elements(s) \cup {r}
  <2>1. ASSUME NEW i \in 1..Len(t) PROVE t[i] \in Elements(s) \cup {r}
    BY <1>1, <1>2 DEF Elements
  <2>2. ASSUME NEW i \in 1..Len(s) PROVE s[i] \in Elements(t)
    BY <1>1, <1>3 DEF Elements
  <2>3. r \in Elements(t)
    BY <1>1, <1>4 DEF Elements
  <2> QED BY <2>1, <2>2, <2>3 DEF Elements
<1>6. ASSUME Distinct(s), r \notin Elements(s) PROVE Distinct(t)
  BY <1>1, <1>2, <1>6 DEF Distinct, Elements
<1> QED BY <1>1, <1>5, <1>6 DEF t

\* Writing an answer takes the first request and leaves the others.
LEMMA TailDrops ==
    ASSUME NEW S, NEW s \in Seq(S), s # <<>>
    PROVE  /\ Tail(s) \in Seq(S) /\ Len(Tail(s)) = Len(s) - 1 /\ Len(s) \in Nat
           /\ Head(s) \in Elements(s) /\ Head(s) \in S
           /\ Distinct(s) => /\ Distinct(Tail(s))
                             /\ Elements(Tail(s)) = Elements(s) \ {Head(s)}
<1> DEFINE t == Tail(s)
<1>1. /\ Len(s) \in Nat /\ Len(s) # 0
  BY EmptySeq, LenProperties
<1>2. /\ t \in Seq(S) /\ Len(t) = Len(s) - 1 /\ Head(s) = s[1]
      /\ \A i \in 1..Len(t) : t[i] = s[i + 1]
  BY <1>1, HeadTailProperties
<1>3. s[1] \in S /\ 1 \in 1..Len(s)
  BY <1>1, ElementOfSeq
<1> HIDE DEF t
<1>4. \A i \in 1..Len(t) : i + 1 \in 1..Len(s) /\ i + 1 # 1
  BY <1>1, <1>2
<1>5. \A i \in 1..Len(s) : i # 1 => i - 1 \in 1..Len(t) /\ s[i] = t[i - 1]
  <2> SUFFICES ASSUME NEW i \in 1..Len(s), i # 1
               PROVE  i - 1 \in 1..Len(t) /\ s[i] = t[i - 1]
    OBVIOUS
  <2>1. i - 1 \in 1..Len(t) /\ (i - 1) + 1 = i
    BY <1>1, <1>2
  <2> QED BY <1>2, <2>1
<1>6. ASSUME Distinct(s) PROVE Distinct(t) /\ Elements(t) = Elements(s) \ {s[1]}
  <2>1. Distinct(t)
    <3> SUFFICES ASSUME NEW i \in 1..Len(t), NEW j \in 1..Len(t), i # j
                 PROVE  t[i] # t[j]
      BY DEF Distinct
    <3>1. i + 1 # j + 1
      OBVIOUS
    <3> QED BY <1>2, <1>4, <1>6, <3>1 DEF Distinct
  <2>2. ASSUME NEW i \in 1..Len(t) PROVE t[i] \in Elements(s) \ {s[1]}
    BY <1>2, <1>3, <1>4, <1>6 DEF Elements, Distinct
  <2>3. ASSUME NEW i \in 1..Len(s), s[i] # s[1] PROVE s[i] \in Elements(t)
    BY <1>5, <2>3 DEF Elements
  <2> QED BY <2>1, <2>2, <2>3 DEF Elements
<1> QED BY <1>2, <1>1, <1>3, <1>6 DEF t, Elements

-----------------------------------------------------------------------------
LEMMA ProxyInitInv == ProxyInit => ProxyInv
<1> SUFFICES ASSUME ProxyInit PROVE ProxyInv
  OBVIOUS
<1>1. InventoryInv
  BY InitGivesInv DEF ProxyInit
<1>2. <<>> \in Seq(Requests) /\ Len(<<>>) = 0
  BY EmptySeq
<1>3. ProxyTypeOK
  BY <1>2, ProxyAssumption DEF ProxyInit, ProxyTypeOK, Choice, Requests
<1>4. SnapshotsSound
  BY DEF ProxyInit, SnapshotsSound, Sound
<1>5. RequestsAccounted
  <2> SUFFICES ASSUME NEW c \in Conns PROVE Accounted(c)
    BY DEF RequestsAccounted
  <2>1. Elements(<<>>) = {} /\ Distinct(<<>>)
    BY <1>2 DEF Elements, Distinct
  <2> QED BY <2>1 DEF ProxyInit, Accounted, Queued, Requests
<1> QED BY <1>1, <1>3, <1>4, <1>5 DEF ProxyInv

\* A scan cannot make a remembered device unsound: it does not give an id that
\* was handed out to another device.
LEMMA HotplugKeepsSound ==
    ASSUME InventoryInv, InventoryNext, Unsaturated', NEW d \in Choice,
           Unsaturated => Sound(d)
    PROVE  Sound(d)'
<1> SUFFICES ASSUME d.id # 0
             PROVE  /\ d.id < next_id'
                    /\ present'[d.id] = NoDevice \/ present'[d.id].key = d.key
  BY DEF Sound
<1>1. d.id \in Ids
  BY DEF Choice
<1>2. Unsaturated
  <2>1. PICK keys \in SUBSET HostKeys : \E v \in Scans(keys) : refresh_hosts(v)
    BY DEF InventoryNext
  <2>2. PICK v \in Scans(keys) : refresh_hosts(v)
    BY <2>1
  <2>3. next_id' = SatAdd(next_id, Cardinality(NewDevices(v))) /\ next_id' < MaxId
    BY <2>2 DEF refresh_hosts, KnownIdsAfter, PresenceAfter, Unsaturated
  <2> QED BY <2>3, IdsOfAScan DEF InventoryInv
<1>3. Sound(d)
  BY <1>2
<1>4. d.id < next_id /\ (present[d.id] = NoDevice \/ present[d.id].key = d.key)
  BY <1>3 DEF Sound
<1>5. /\ d.id < next_id'
      /\ present'[d.id] = NoDevice
         \/ (present[d.id] # NoDevice /\ present'[d.id].key = present[d.id].key)
  BY <1>1, <1>4, OldIdsNotReused
<1> QED BY <1>4, <1>5

LEMMA HotplugKeepsInv ==
    ASSUME ProxyInv, Hotplug
    PROVE  ProxyInv'
<1>1. InventoryInv'
  BY InventoryStep DEF ProxyInv, Hotplug
<1>2. ProxyTypeOK' /\ RequestsAccounted'
  BY DEF ProxyInv, Hotplug, proxyVars, ProxyTypeOK, RequestsAccounted, Accounted, Queued
<1>3. SnapshotsSound'
  <2> SUFFICES ASSUME Unsaturated', NEW c \in Conns
               PROVE  Sound(serves[c])' /\ \A d \in snap[c] : Sound(d)'
    BY DEF SnapshotsSound, Hotplug, proxyVars
  <2>1. serves[c] \in Choice /\ snap[c] \subseteq Choice
    BY DEF ProxyInv, ProxyTypeOK
  <2>2. ASSUME NEW d \in Choice, Unsaturated => Sound(d) PROVE Sound(d)'
    BY <2>2, HotplugKeepsSound DEF ProxyInv, Hotplug
  <2>3. Unsaturated => Sound(serves[c]) /\ \A d \in snap[c] : Sound(d)
    BY DEF ProxyInv, SnapshotsSound
  <2>4. \A d \in snap[c] : Sound(d)'
    BY <2>1, <2>2, <2>3
  <2>5. serves'[c] = serves[c]
    BY DEF Hotplug, proxyVars
  <2>6. Sound(serves[c])'
    BY <2>1, <2>2, <2>3, <2>5 DEF Sound
  <2> QED BY <2>4, <2>6
<1> QED BY <1>1, <1>2, <1>3 DEF ProxyInv

-----------------------------------------------------------------------------
\* A send: the channel of the connection is at most one answer longer, and has
\* that answer if there is a writer.
LEMMA SentProperties ==
    ASSUME ProxyTypeOK, NEW c \in Conns, NEW r \in Requests, Sent(c, r)
    PROVE  /\ out' \in [Conns -> Seq(Requests)] /\ \A d \in Conns : Len(out'[d]) <= ProxyOut
           /\ \A d \in Conns \ {c} : out'[d] = out[d]
           /\ writer[c] /\ Distinct(out[c]) /\ r \notin Elements(out[c])
                => Distinct(out'[c]) /\ Elements(out'[c]) = Elements(out[c]) \cup {r}
<1>1. /\ out \in [Conns -> Seq(Requests)] /\ out[c] \in Seq(Requests)
      /\ \A d \in Conns : Len(out[d]) <= ProxyOut
  BY DEF ProxyTypeOK
<1>2. CASE writer[c]
  <2>1. out' = [out EXCEPT ![c] = Append(out[c], r)] /\ Len(out[c]) < ProxyOut
    BY <1>2 DEF Sent
  <2>2. /\ Append(out[c], r) \in Seq(Requests)
        /\ Len(Append(out[c], r)) = Len(out[c]) + 1
        /\ Elements(Append(out[c], r)) = Elements(out[c]) \cup {r}
        /\ Distinct(out[c]) /\ r \notin Elements(out[c]) => Distinct(Append(out[c], r))
    BY <1>1, AppendAdds
  <2>3. out'[c] = Append(out[c], r) /\ \A d \in Conns \ {c} : out'[d] = out[d]
    BY <1>1, <2>1
  <2>4. Len(out[c]) \in Nat
    BY <1>1, LenProperties
  <2>5. Len(out'[c]) <= ProxyOut
    BY <2>1, <2>2, <2>3, <2>4, ProxyAssumption
  <2>6. out' \in [Conns -> Seq(Requests)]
    BY <1>1, <2>1, <2>2
  <2> QED BY <1>1, <2>2, <2>3, <2>5, <2>6
<1>3. CASE ~writer[c]
  BY <1>1, <1>3 DEF Sent
<1> QED BY <1>2, <1>3

LEMMA ProxyStepKeepsType ==
    ASSUME ProxyTypeOK, InventoryTypeOK, NEW c \in Conns, ProxyStep(c)
    PROVE  ProxyTypeOK'
<1> USE DEF ProxyTypeOK
<1>1. CASE Accept(c)
  BY <1>1 DEF Accept
<1>2. CASE Snapshot(c)
  <2>1. {[id |-> i, key |-> present[i].key] :
            i \in {j \in Ids : present[j] # NoDevice /\ present[j].exported}}
          \subseteq Choice
    BY DEF InventoryTypeOK, Choice, Device
  <2> QED BY <1>2, <2>1 DEF Snapshot
<1>3. CASE Import(c)
  BY <1>3 DEF Import
<1>4. ASSUME Reads(c) PROVE /\ asked' \in [Conns -> 0..MaxRequests]
                            /\ asked[c] + 1 \in Requests
  BY <1>4, ProxyAssumption DEF Reads, Requests
<1>5. CASE CmdSubmit(c)
  BY <1>4, <1>5 DEF CmdSubmit, Reads
<1>6. CASE CmdUnlink(c)
  <2>1. /\ out' \in [Conns -> Seq(Requests)]
        /\ \A d \in Conns : Len(out'[d]) <= ProxyOut
    BY <1>4, <1>6, SentProperties DEF CmdUnlink
  <2> QED BY <1>4, <1>6, <2>1 DEF CmdUnlink, Reads
<1>7. CASE \E r \in Requests : Completes(c, r)
  <2>1. PICK r \in Requests : Completes(c, r)
    BY <1>7
  <2>2. /\ out' \in [Conns -> Seq(Requests)]
        /\ \A d \in Conns : Len(out'[d]) <= ProxyOut
    BY <2>1, SentProperties DEF Completes
  <2> QED BY <2>1, <2>2 DEF Completes
<1>8. CASE PeerCloses(c)
  BY <1>8 DEF PeerCloses
<1>9. CASE Breaks(c)
  BY <1>9 DEF Breaks
<1>10. CASE Writes(c)
  <2>1. /\ Tail(out[c]) \in Seq(Requests) /\ Len(Tail(out[c])) = Len(out[c]) - 1
        /\ Len(out[c]) \in Nat /\ Head(out[c]) \in Requests
    BY <1>10, TailDrops DEF Writes
  <2>2. Len(Tail(out[c])) <= ProxyOut
    BY <2>1, ProxyAssumption
  <2>3. out' \in [Conns -> Seq(Requests)] /\ \A d \in Conns : Len(out'[d]) <= ProxyOut
    BY <1>10, <2>1, <2>2 DEF Writes
  <2>4. answered' \in [Conns -> [Requests -> Nat]]
    BY <1>10, <2>1 DEF Writes
  <2> QED BY <1>10, <2>3, <2>4 DEF Writes
<1>11. CASE WriteFails(c)
  <2>1. <<>> \in Seq(Requests) /\ Len(<<>>) = 0
    BY EmptySeq
  <2>2. out' \in [Conns -> Seq(Requests)] /\ \A d \in Conns : Len(out'[d]) <= ProxyOut
    BY <1>11, <2>1, ProxyAssumption DEF WriteFails
  <2> QED BY <1>11, <2>2 DEF WriteFails
<1>12. CASE Finishes(c)
  BY <1>12 DEF Finishes
<1> QED BY <1>1, <1>2, <1>3, <1>5, <1>6, <1>7, <1>8, <1>9, <1>10, <1>11, <1>12
         DEF ProxyStep

\* A connection takes a device into its snapshot while the device is present,
\* and imports what it has in its snapshot.
LEMMA ProxyStepKeepsSound ==
    ASSUME ProxyInv, NEW c \in Conns, ProxyStep(c), UNCHANGED inventoryVars
    PROVE  SnapshotsSound'
<1> SUFFICES ASSUME Unsaturated, NEW e \in Conns
             PROVE  Sound(serves'[e]) /\ \A d \in snap'[e] : Sound(d)
  BY DEF SnapshotsSound, Sound, inventoryVars, Unsaturated
<1>1. Sound(serves[e]) /\ Sound(serves[c])
      /\ (\A d \in snap[e] : Sound(d)) /\ (\A d \in snap[c] : Sound(d))
  BY DEF ProxyInv, SnapshotsSound
<1>2. snap \in [Conns -> SUBSET Choice] /\ serves \in [Conns -> Choice]
  BY DEF ProxyInv, ProxyTypeOK
<1>3. CASE Snapshot(c)
  <2>1. ASSUME NEW i \in Ids, present[i] # NoDevice
        PROVE  Sound([id |-> i, key |-> present[i].key])
    BY <2>1 DEF Sound, ProxyInv, InventoryInv, RetiredForGood, PresenceMatchesPresent
  <2>2. \A d \in snap'[c] : Sound(d)
    BY <1>2, <1>3, <2>1 DEF Snapshot
  <2> QED BY <1>1, <1>2, <1>3, <2>2 DEF Snapshot
<1>4. CASE Import(c)
  <2>1. PICK d \in snap[c] : serves' = [serves EXCEPT ![c] = d]
    BY <1>4 DEF Import
  <2> QED BY <1>1, <1>2, <1>4, <2>1 DEF Import
<1>5. CASE UNCHANGED <<snap, serves>>
  BY <1>1, <1>5
<1> QED BY <1>3, <1>4, <1>5 DEF ProxyStep, Accept, CmdSubmit, CmdUnlink, Reads,
          Completes, PeerCloses, Breaks, Writes, WriteFails, Finishes

\* Another connection's step leaves the requests of e where they are.
LEMMA OthersAccounted ==
    ASSUME ProxyTypeOK, NEW c \in Conns, ProxyStep(c), NEW e \in Conns \ {c},
           peer[e] => Accounted(e)
    PROVE  (peer[e] => Accounted(e))'
<1>1. /\ conn'[e] = conn[e] /\ peer'[e] = peer[e] /\ asked'[e] = asked[e]
      /\ urbs'[e] = urbs[e] /\ writer'[e] = writer[e] /\ answered'[e] = answered[e]
  BY DEF ProxyTypeOK, ProxyStep, Accept, Snapshot, Import, CmdSubmit, CmdUnlink, Reads,
         Completes, PeerCloses, Breaks, Writes, WriteFails, Finishes
<1>2. out'[e] = out[e]
  BY DEF ProxyTypeOK, ProxyStep, Accept, Snapshot, Import, CmdSubmit, CmdUnlink, Reads,
         Completes, PeerCloses, Breaks, Writes, WriteFails, Finishes, Sent
<1> QED BY <1>1, <1>2 DEF Accounted, Queued

\* The steps of a connection move a request from the reader to a task, from
\* there to the channel, and from there to the client.
LEMMA StepAccounts ==
    ASSUME ProxyTypeOK, ProxyTypeOK', NEW c \in Conns, ProxyStep(c),
           peer[c] => Accounted(c), peer'[c]
    PROVE  Accounted(c)'
<1>1. peer[c]
  BY DEF ProxyTypeOK, ProxyStep, Accept, Snapshot, Import, CmdSubmit, CmdUnlink, Reads,
         Completes, PeerCloses, Breaks, Writes, WriteFails, Finishes
<1>2. /\ Distinct(out[c])
      /\ \A r \in urbs[c] : r <= asked[c] /\ r \notin Elements(out[c])
      /\ \A r \in Elements(out[c]) : r <= asked[c]
      /\ \A r \in Requests : answered[c][r] =
           IF r <= asked[c] /\ r \notin urbs[c] /\ r \notin Elements(out[c]) THEN 1 ELSE 0
      /\ conn[c] \in {"none", "accepted", "managing"} => asked[c] = 0
      /\ conn[c] \in {"urbs", "draining"} => writer[c]
      /\ conn[c] = "ended" => urbs[c] = {} /\ out[c] = <<>>
  BY <1>1 DEF Accounted, Queued
<1>3. /\ asked[c] \in Nat /\ Requests \subseteq Nat /\ urbs[c] \subseteq Requests
      /\ out[c] \in Seq(Requests) /\ DOMAIN out = Conns /\ DOMAIN answered = Conns
      /\ DOMAIN answered[c] = Requests
  BY ProxyAssumption DEF ProxyTypeOK, Requests
<1>4. Elements(out[c]) \subseteq Requests
  BY <1>3, ElementOfSeq DEF Elements
<1> DEFINE n == asked[c]
<1>a. /\ n \in Nat /\ \A r \in Requests : r <= n => r <= n + 1 /\ r # n + 1
      /\ \A r \in Requests : r <= n + 1 => r <= n \/ r = n + 1
      /\ n + 1 <= n + 1 /\ ~(n + 1 <= n)
  BY <1>3
<1>5. CASE Accept(c) \/ Snapshot(c) \/ Import(c)
  <2>1. UNCHANGED <<asked, urbs, out, answered>>
    BY <1>5 DEF Accept, Snapshot, Import
  <2>2. /\ conn[c] \in {"none", "accepted", "managing"}
        /\ conn'[c] \in {"accepted", "managing", "urbs"}
        /\ conn'[c] = "urbs" => writer'[c]
    BY <1>5 DEF Accept, Snapshot, Import, ProxyTypeOK
  <2> QED BY <1>2, <2>1, <2>2 DEF Accounted, Queued
<1>6. CASE CmdSubmit(c)
  <2>1. /\ UNCHANGED <<conn, writer, out, answered>>
        /\ asked'[c] = asked[c] + 1 /\ urbs'[c] = urbs[c] \cup {asked[c] + 1}
        /\ conn[c] = "urbs"
    BY <1>6 DEF CmdSubmit, Reads, ProxyTypeOK
  <2>2. asked[c] + 1 \notin Elements(out[c])
    BY <1>2, <1>3
  <2>3. \A r \in urbs'[c] : r <= asked'[c] /\ r \notin Elements(out[c])
    BY <1>2, <1>3, <2>1, <2>2
  <2>4. \A r \in Elements(out[c]) : r <= asked'[c]
    BY <1>2, <1>4, <1>a, <2>1
  <2>5. \A r \in Requests : answered[c][r] =
          IF r <= asked'[c] /\ r \notin urbs'[c] /\ r \notin Elements(out[c]) THEN 1 ELSE 0
    BY <1>2, <1>3, <2>1
  <2> QED BY <1>2, <2>1, <2>3, <2>4, <2>5 DEF Accounted, Queued
<1>7. CASE CmdUnlink(c)
  <2>1. /\ UNCHANGED <<conn, writer, urbs, answered>>
        /\ asked'[c] = asked[c] + 1 /\ asked[c] + 1 \in Requests
        /\ conn[c] = "urbs" /\ writer[c] /\ Sent(c, asked[c] + 1)
    BY <1>2, <1>7, ProxyAssumption DEF CmdUnlink, Reads, ProxyTypeOK, Requests
  <2>2. asked[c] + 1 \notin Elements(out[c]) /\ asked[c] + 1 \notin urbs[c]
    BY <1>2, <1>3
  <2>3. Distinct(out'[c]) /\ Elements(out'[c]) = Elements(out[c]) \cup {asked[c] + 1}
    BY <1>2, <2>1, <2>2, SentProperties
  <2>4. \A r \in urbs[c] : r <= asked'[c] /\ r \notin Elements(out'[c])
    BY <1>2, <1>3, <1>a, <2>1, <2>2, <2>3
  <2>5. \A r \in Elements(out'[c]) : r <= asked'[c]
    BY <1>2, <1>4, <1>a, <2>1, <2>3
  <2>6. \A r \in Requests : answered[c][r] =
          IF r <= asked'[c] /\ r \notin urbs[c] /\ r \notin Elements(out'[c]) THEN 1 ELSE 0
    BY <1>2, <1>a, <2>1, <2>3
  <2> QED BY <2>1, <2>3, <2>4, <2>5, <2>6 DEF Accounted, Queued
<1>8. CASE \E r \in Requests : Completes(c, r)
  <2>1. PICK r \in Requests : Completes(c, r)
    BY <1>8
  <2>2. /\ UNCHANGED <<conn, writer, asked, answered>> /\ r \in urbs[c]
        /\ urbs'[c] = urbs[c] \ {r} /\ Sent(c, r)
    BY <2>1 DEF Completes, ProxyTypeOK
  <2>3. conn[c] \in {"urbs", "draining"}
    <3>1. asked[c] # 0 /\ urbs[c] # {}
      BY <1>2, <1>3, <2>2 DEF Requests
    <3> QED BY <1>2, <3>1 DEF ProxyTypeOK
  <2>4. Distinct(out'[c]) /\ Elements(out'[c]) = Elements(out[c]) \cup {r}
    BY <1>2, <2>2, <2>3, SentProperties
  <2> QED BY <1>2, <2>2, <2>3, <2>4 DEF Accounted, Queued
<1>9. CASE PeerCloses(c)
  BY <1>9 DEF PeerCloses, ProxyTypeOK
<1>10. CASE Breaks(c)
  <2>1. /\ UNCHANGED <<asked, urbs, out, writer, answered>>
        /\ \/ conn[c] = "urbs" /\ conn'[c] = "draining"
           \/ conn[c] = "managing" /\ conn'[c] = "ended"
    BY <1>10 DEF Breaks, ProxyTypeOK
  <2>2. CASE conn[c] = "urbs" /\ conn'[c] = "draining"
    BY <1>2, <2>1, <2>2 DEF Accounted, Queued
  <2>3. CASE conn[c] = "managing" /\ conn'[c] = "ended"
    <3>1. urbs[c] = {} /\ Elements(out[c]) = {}
      BY <1>2, <1>3, <1>4, <2>3 DEF Requests
    <3>2. out[c] = <<>>
      <4>1. Len(out[c]) \in Nat
        BY <1>3, LenProperties
      <4>2. 1 \notin 1..Len(out[c])
        BY <3>1 DEF Elements
      <4>3. Len(out[c]) = 0
        BY <4>1, <4>2
      <4> QED BY <1>3, <4>3, EmptySeq
    <3> QED BY <1>2, <2>1, <2>3, <3>1, <3>2 DEF Accounted, Queued
  <2> QED BY <2>1, <2>2, <2>3
<1>11. CASE Writes(c)
  <2> DEFINE h == Head(out[c])
  <2>1. /\ UNCHANGED <<conn, writer, asked, urbs>> /\ out[c] # <<>>
        /\ out'[c] = Tail(out[c])
        /\ answered'[c] = [answered[c] EXCEPT ![h] = answered[c][h] + 1]
    BY <1>3, <1>11 DEF Writes
  <2>2. /\ h \in Elements(out[c]) /\ h \in Requests /\ Distinct(out'[c])
        /\ Elements(out'[c]) = Elements(out[c]) \ {h}
    BY <1>2, <1>3, <2>1, TailDrops
  <2> HIDE DEF h
  <2>3. answered[c][h] = 0 /\ answered'[c][h] = 1
    BY <1>2, <1>3, <2>1, <2>2
  <2>4. \A r \in Requests : answered'[c][r] =
          IF r <= asked[c] /\ r \notin urbs[c] /\ r \notin Elements(out'[c]) THEN 1 ELSE 0
    <3> SUFFICES ASSUME NEW r \in Requests
                 PROVE answered'[c][r] =
          IF r <= asked[c] /\ r \notin urbs[c] /\ r \notin Elements(out'[c]) THEN 1 ELSE 0
      OBVIOUS
    <3>1. CASE r = h
      BY <1>2, <2>2, <2>3, <3>1
    <3>2. CASE r # h
      BY <1>2, <1>3, <2>1, <2>2, <3>2
    <3> QED BY <3>1, <3>2
  <2> QED BY <1>2, <2>1, <2>2, <2>4 DEF Accounted, Queued
<1>12. CASE WriteFails(c)
  BY <1>1, <1>12 DEF WriteFails
<1>13. CASE Finishes(c)
  <2>1. /\ UNCHANGED <<asked, urbs, out, answered>>
        /\ conn'[c] = "ended" /\ out[c] = <<>> /\ urbs[c] = {}
    BY <1>2, <1>13 DEF Finishes, ProxyTypeOK
  <2> QED BY <1>2, <2>1 DEF Accounted, Queued
<1> QED BY <1>5, <1>6, <1>7, <1>8, <1>9, <1>10, <1>11, <1>12, <1>13 DEF ProxyStep

LEMMA ProxyNextInv ==
    ASSUME ProxyInv, [ProxyNext]_<<inventoryVars, proxyVars>>
    PROVE  ProxyInv'
<1>1. CASE Hotplug
  BY <1>1, HotplugKeepsInv
<1>2. CASE \E c \in Conns : ProxyStep(c) /\ UNCHANGED inventoryVars
  <2>1. PICK c \in Conns : ProxyStep(c) /\ UNCHANGED inventoryVars
    BY <1>2
  <2>2. InventoryInv'
    BY <2>1 DEF ProxyInv, inventoryVars, InventoryInv, InventoryTypeOK,
                PresenceMatchesPresent, KnownIdsExact, RetiredForGood, Unsaturated
  <2>3. ProxyTypeOK'
    BY <2>1, ProxyStepKeepsType DEF ProxyInv, InventoryInv
  <2>4. SnapshotsSound'
    BY <2>1, ProxyStepKeepsSound
  <2>5. RequestsAccounted'
    <3> SUFFICES ASSUME NEW e \in Conns PROVE (peer[e] => Accounted(e))'
      BY DEF RequestsAccounted
    <3>1. CASE e = c
      BY <2>1, <2>3, <3>1, StepAccounts DEF ProxyInv, RequestsAccounted
    <3>2. CASE e # c
      BY <2>1, <3>2, OthersAccounted DEF ProxyInv, RequestsAccounted
    <3> QED BY <3>1, <3>2
  <2> QED BY <2>2, <2>3, <2>4, <2>5 DEF ProxyInv
<1>3. CASE UNCHANGED <<inventoryVars, proxyVars>>
  BY <1>3 DEF ProxyInv, inventoryVars, proxyVars, InventoryInv, InventoryTypeOK,
              PresenceMatchesPresent, KnownIdsExact, RetiredForGood, Unsaturated,
              ProxyTypeOK, SnapshotsSound, Sound, RequestsAccounted, Accounted, Queued
<1> QED BY <1>1, <1>2, <1>3 DEF ProxyNext

\* However the hotplug loop and the connections interleave, an imported id is
\* its device's or nobody's: serve_urbs goes on with an id of long ago and
\* never reaches another device with it while ids last.
THEOREM ImportsNeverMixed == ProxySpec => []ImportedIdNotReused
<1>1. ProxyInv => ImportedIdNotReused
  BY DEF ProxyInv, SnapshotsSound, Sound, ImportedIdNotReused
<1> QED BY ProxyInitInv, ProxyNextInv, <1>1, PTL DEF ProxySpec

\* serve_urbs waits for its writer, and so a client that keeps listening has
\* exactly one answer to every request when its connection ends.
THEOREM EveryRequestAnswered == ProxySpec => []AnsweredOnce
<1>1. ProxyInv => AnsweredOnce
  <2> SUFFICES ASSUME ProxyInv, NEW c \in Conns, conn[c] = "ended", peer[c],
                      NEW r \in Requests
               PROVE  answered[c][r] = IF r <= asked[c] THEN 1 ELSE 0
    BY DEF AnsweredOnce
  <2>1. Accounted(c) /\ out[c] = <<>> /\ urbs[c] = {}
    BY DEF ProxyInv, RequestsAccounted, Accounted
  <2>2. Elements(<<>>) = {}
    BY EmptySeq DEF Elements
  <2> QED BY <2>1, <2>2 DEF Accounted, Queued
<1> QED BY ProxyInitInv, ProxyNextInv, <1>1, PTL DEF ProxySpec

\* The inventory the proxy reads is the one that was proved correct: its three
\* maps agree and a retired id stays retired while connections use it.
THEOREM InventoryUnderProxy == ProxySpec => [](MapsAgree /\ RetiredForGood)
<1>1. ProxyInv => MapsAgree /\ RetiredForGood
  BY DEF ProxyInv, InventoryInv, MapsAgree
<1> QED BY ProxyInitInv, ProxyNextInv, <1>1, PTL DEF ProxySpec
=============================================================================
