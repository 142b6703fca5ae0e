------------------------------ MODULE GuiProofs ------------------------------
(***************************************************************************)
(* Proofs about Gui, for any number of servers, devices, jobs, clicks and  *)
(* restarts: what jobs report is still true of the files when the event    *)
(* loop gets to it, and no forwarding task escapes the stop button.        *)
(***************************************************************************)
EXTENDS Gui, SequenceTheorems, TLAPS

\* What a job may carry.  A job that is about to write `latest` has written its
\* session file.
JobSet ==
    [kind : {"free", "scan"}, server : {None}, device : {None}]
    \cup [kind : {"probe", "select", "pair", "save", "load"}, server : Servers,
          device : Devices \cup {None}]
    \cup [kind : {"latest"}, server : saved, device : Devices \cup {None}]
    \cup [kind : {"attach", "bind", "serve", "detach"}, server : Servers, device : Devices]

\* What an event may carry.  A pairing that is reported has been saved.
EventSet ==
    [kind : {"ScanStarted", "PairStarted", "Failed"}, of : {None}]
    \cup [kind : {"ServersFound"}, of : SUBSET Servers]
    \cup [kind : {"ServerSelected"}, of : Servers]
    \cup [kind : {"PairSucceeded"}, of : saved]
    \cup [kind : {"DevicesLoaded"}, of : SUBSET Devices]
    \cup [kind : {"AttachSucceeded", "DetachSucceeded"}, of : Devices]
    \cup [kind : {"ManualServerAdded"}, of : Servers \cup {None}]

GuiInv ==
    /\ GuiTypeOK
    /\ jobs \in [Jobs -> JobSet]
    /\ events \in Seq(EventSet)
    /\ SessionOnDisk
    /\ OneForwarder

-----------------------------------------------------------------------------
\* Files are only ever added, so what jobs and events say of them stays true.
LEMMA SetsGrow ==
    ASSUME saved \subseteq saved'
    PROVE  JobSet \subseteq JobSet' /\ EventSet \subseteq EventSet'
<1>1. JobSet \subseteq JobSet'
  BY DEF JobSet
<1>2. EventSet \subseteq EventSet'
  BY DEF EventSet
<1> QED BY <1>1, <1>2

\* The session that is restored has its file, and its devices are loaded.
LEMMA RestoreIsSound ==
    ASSUME saved \subseteq Servers, latest \in Servers \cup {None},
           NEW js \in FirstJobs
    PROVE  /\ Restored \in Servers \cup {None} /\ Restored \in saved \cup {None}
           /\ js \in [Jobs -> JobSet]
           /\ \A j \in Jobs : js[j].kind \in {"free", "load"}
<1>1. /\ Restored \in Servers \cup {None} /\ Restored \in saved \cup {None}
      /\ Restored # None => Restored \in Servers
  BY DEF Restored
<1>2. NoJob \in JobSet /\ NoJob.kind = "free"
  BY DEF NoJob, Job, JobSet
<1>3. ASSUME Restored # None
      PROVE  Job("load", Restored, None) \in JobSet /\ Job("load", Restored, None).kind = "load"
  BY <1>1, <1>3 DEF Job, JobSet
<1>4. PICK first \in IF Restored = None THEN {None} ELSE Jobs :
        js = [j \in Jobs |-> IF j = first THEN Job("load", Restored, None) ELSE NoJob]
  BY DEF FirstJobs
<1>5. CASE Restored = None
  BY <1>1, <1>2, <1>4, <1>5, GuiAssumption
<1>6. CASE Restored # None
  BY <1>1, <1>2, <1>3, <1>4, <1>6
<1> QED BY <1>5, <1>6

LEMMA GuiInitInv == GuiInit => GuiInv
<1> SUFFICES ASSUME GuiInit PROVE GuiInv
  OBVIOUS
<1>1. saved \subseteq Servers /\ latest \in saved \cup {None}
  BY DEF GuiInit
<1>2. /\ Restored \in Servers \cup {None} /\ Restored \in saved \cup {None}
      /\ jobs \in [Jobs -> JobSet]
      /\ \A j \in Jobs : jobs[j].kind \in {"free", "load"}
  BY <1>1, RestoreIsSound DEF GuiInit
<1>3. GuiTypeOK
  BY <1>1, <1>2 DEF GuiInit, GuiTypeOK, Phases, JobKinds
<1>4. events \in Seq(EventSet)
  BY EmptySeq DEF GuiInit
<1>5. SessionOnDisk
  BY <1>1, <1>2 DEF GuiInit, SessionOnDisk
<1>6. OneForwarder
  BY <1>2 DEF OneForwarder, Forwarding
<1> QED BY <1>2, <1>3, <1>4, <1>5, <1>6 DEF GuiInv

\* Events that are applied: the jobs and the files are left alone.
LEMMA ApplyKeepsInv ==
    ASSUME GuiInv, Apply
    PROVE  GuiInv'
<1> DEFINE e == Head(events)
<1>1. /\ UNCHANGED <<ui, jobs, attach_stop, told, port, saved, latest>>
      /\ events # <<>> /\ events' = Tail(events)
  BY DEF Apply, Takes, ScanStarted, ServersFound, ServerSelected, PairStarted, PairSucceeded,
         Failed, DevicesLoaded, AttachSucceeded, DetachSucceeded, ManualServerAdded, tasks, disk
<1>2. e \in EventSet /\ events' \in Seq(EventSet)
  <2>1. events \in Seq(EventSet)
    BY DEF GuiInv
  <2> QED BY <1>1, <2>1, HeadTailProperties
<1>3. /\ e.kind = "ServersFound" => e.of \subseteq Servers
      /\ e.kind = "ServerSelected" => e.of \in Servers
      /\ e.kind = "PairSucceeded" => e.of \in saved
      /\ e.kind = "ManualServerAdded" => e.of \in Servers \cup {None}
  <2> HIDE DEF e
  <2> QED BY <1>2 DEF EventSet
<1>4. GuiTypeOK
  BY DEF GuiInv
<1>5. /\ phase' \in Phases /\ pin' \in BOOLEAN /\ servers' \in SUBSET Servers
      /\ selected' \in Servers \cup {None}
      /\ session' = session \/ session' \in saved
  <2>1. phase' \in Phases
    BY <1>4 DEF GuiTypeOK, Apply, ScanStarted, ServersFound, ServerSelected,
           PairStarted, PairSucceeded, Failed, DevicesLoaded, AttachSucceeded, DetachSucceeded,
           ManualServerAdded, Phases
  <2>2. pin' = pin \/ pin' = FALSE
    BY DEF Apply, ScanStarted, ServersFound, ServerSelected,
           PairStarted, PairSucceeded, Failed, DevicesLoaded, AttachSucceeded, DetachSucceeded,
           ManualServerAdded, view
  <2>3. pin' \in BOOLEAN
    BY <1>4, <2>2 DEF GuiTypeOK
  <2>4. servers' \in SUBSET Servers
    BY <1>3, <1>4 DEF GuiTypeOK, Takes, Arg, Apply, ScanStarted, ServersFound, ServerSelected,
           PairStarted, PairSucceeded, Failed, DevicesLoaded, AttachSucceeded, DetachSucceeded,
           ManualServerAdded, merge_servers, view
  <2>5. saved \subseteq Servers
    BY <1>4 DEF GuiTypeOK
  <2>6. selected' \in Servers \cup {None}
    BY <1>3, <1>4, <2>5 DEF GuiTypeOK, Takes, Arg, Apply, ScanStarted, ServersFound, ServerSelected,
           PairStarted, PairSucceeded, Failed, DevicesLoaded, AttachSucceeded, DetachSucceeded,
           ManualServerAdded, view
  <2>7. session' = session \/ session' \in saved
    BY <1>3 DEF Takes, Arg, Apply, ScanStarted, ServersFound, ServerSelected,
           PairStarted, PairSucceeded, Failed, DevicesLoaded, AttachSucceeded, DetachSucceeded,
           ManualServerAdded, view
  <2> QED BY <2>1, <2>3, <2>4, <2>6, <2>7
<1>6. /\ devices' \in [Devices -> {"absent", "shown", "attached"}]
      /\ \A d, f \in Devices : devices'[d] = "attached" /\ devices'[f] = "attached" => d = f
  <2>1. CASE DevicesLoaded
    BY <2>1 DEF DevicesLoaded
  <2>2. CASE AttachSucceeded
    BY <1>4, <2>2 DEF GuiTypeOK, AttachSucceeded
  <2>3. CASE DetachSucceeded
    BY <1>4, <2>3 DEF GuiTypeOK, DetachSucceeded
  <2>4. CASE UNCHANGED devices
    BY <1>4, <2>4 DEF GuiTypeOK
  <2> QED BY <2>1, <2>2, <2>3, <2>4 DEF Apply, ScanStarted, ServersFound, ServerSelected,
         PairStarted, PairSucceeded, Failed, ManualServerAdded, view
<1>7. session' \in saved \cup {None} /\ session' \in Servers \cup {None}
  BY <1>4, <1>5 DEF GuiTypeOK, GuiInv, SessionOnDisk
<1>8. GuiTypeOK'
  BY <1>1, <1>4, <1>5, <1>6, <1>7 DEF GuiTypeOK
<1>9. SessionOnDisk'
  BY <1>1, <1>7 DEF GuiInv, SessionOnDisk
<1>10. EventSet' = EventSet /\ JobSet' = JobSet
  BY <1>1 DEF EventSet, JobSet
<1>11. OneForwarder'
  BY <1>1 DEF GuiInv, OneForwarder, Forwarding
<1> QED BY <1>1, <1>2, <1>8, <1>9, <1>10, <1>11 DEF GuiInv

LEMMA RestartKeepsInv ==
    ASSUME GuiInv, Restart
    PROVE  GuiInv'
<1>1. saved \subseteq Servers /\ latest \in Servers \cup {None} /\ UNCHANGED <<saved, latest>>
  BY DEF GuiInv, GuiTypeOK, Restart, disk
<1>2. JobSet' = JobSet
  BY <1>1 DEF JobSet
<1>3. /\ Restored \in Servers \cup {None} /\ Restored \in saved \cup {None}
      /\ jobs' \in [Jobs -> JobSet]
      /\ \A j \in Jobs : jobs'[j].kind \in {"free", "load"}
  BY <1>1, RestoreIsSound DEF Restart
<1>4. GuiTypeOK'
  BY <1>1, <1>3 DEF Restart, GuiTypeOK, Phases, JobKinds
<1>5. events' \in Seq(EventSet')
  BY EmptySeq DEF Restart
<1>6. SessionOnDisk'
  BY <1>1, <1>3 DEF Restart, SessionOnDisk, GuiInv
<1>7. OneForwarder'
  BY <1>3 DEF OneForwarder, Forwarding
<1> QED BY <1>2, <1>3, <1>4, <1>5, <1>6, <1>7 DEF GuiInv

\* The parts of the invariant that a step of the user or of a job concerns: the
\* jobs, the channel, and who can be stopped.
LEMMA WorkKeepsInv ==
    ASSUME GuiInv, phase' = phase, session' = session, devices' = devices,
           pin' \in BOOLEAN, ui' \in {"drain", "draw"},
           servers' \in SUBSET Servers, selected' \in Servers \cup {None},
           saved \subseteq saved', saved' \in SUBSET Servers,
           latest' \in saved' \cup {None},
           attach_stop' \in Jobs \cup {None}, port' \in Jobs \cup {None},
           told' \in SUBSET Jobs,
           jobs' \in [Jobs -> JobSet'], events' \in Seq(EventSet'), OneForwarder'
    PROVE  GuiInv'
<1>1. \A x \in JobSet' : x.kind \in JobKinds
  BY DEF JobSet, JobKinds
<1>2. \A j \in Jobs : jobs'[j].kind \in JobKinds
  BY <1>1
<1>3. latest' \in Servers \cup {None}
  OBVIOUS
<1>4. GuiTypeOK'
  BY <1>2, <1>3 DEF GuiInv, GuiTypeOK
<1>5. SessionOnDisk'
  BY DEF GuiInv, SessionOnDisk
<1> QED BY <1>4, <1>5 DEF GuiInv

\* A click starts at most one job, j, on the files as they are.
LEMMA ClickKeepsInv ==
    ASSUME GuiInv, Click, phase' = phase, session' = session, devices' = devices,
           pin' \in BOOLEAN, servers' = servers, selected' \in Servers \cup {None},
           attach_stop' \in Jobs \cup {None}, port' = port, told' \in SUBSET Jobs,
           jobs' \in [Jobs -> JobSet], events' \in Seq(EventSet), OneForwarder'
    PROVE  GuiInv'
<1>1. UNCHANGED <<saved, latest>> /\ ui' = "drain"
  BY DEF Click, disk
<1>2. JobSet' = JobSet /\ EventSet' = EventSet
  BY <1>1 DEF JobSet, EventSet
<1>3. /\ saved \in SUBSET Servers /\ latest \in saved \cup {None}
      /\ servers \in SUBSET Servers /\ port \in Jobs \cup {None}
  BY DEF GuiInv, GuiTypeOK, SessionOnDisk
<1> QED BY <1>1, <1>2, <1>3, WorkKeepsInv

LEMMA UserKeepsInv ==
    ASSUME GuiInv, UserNext
    PROVE  GuiInv'
<1>1. /\ jobs \in [Jobs -> JobSet] /\ events \in Seq(EventSet) /\ OneForwarder
      /\ attach_stop \in Jobs \cup {None} /\ told \in SUBSET Jobs /\ pin \in BOOLEAN
      /\ servers \in SUBSET Servers /\ selected \in Servers \cup {None}
      /\ session \in Servers \cup {None}
  BY DEF GuiInv, GuiTypeOK
<1>2. ASSUME NEW e \in EventSet PROVE Append(events, e) \in Seq(EventSet)
  BY <1>1, AppendProperties
<1>3. ASSUME NEW j \in Jobs, NEW kind, NEW sv, NEW d, Start(j, kind, sv, d),
             Job(kind, sv, d) \in JobSet
      PROVE  /\ jobs' \in [Jobs -> JobSet]
             /\ \A k \in Jobs : k # j => jobs'[k] = jobs[k]
             /\ jobs'[j].kind = kind /\ jobs[j].kind = "free"
  BY <1>1, <1>3 DEF Start, Job, NoJob
<1>4. ASSUME UNCHANGED <<jobs, told, attach_stop>> PROVE OneForwarder'
  BY <1>1, <1>4 DEF OneForwarder, Forwarding
<1>5. ASSUME UNCHANGED <<told, attach_stop>>, NEW j \in Jobs,
             \A k \in Jobs : k # j => jobs'[k] = jobs[k],
             jobs'[j].kind \notin {"attach", "bind", "serve"}
      PROVE  OneForwarder'
  BY <1>1, <1>5 DEF OneForwarder, Forwarding
<1>6. ASSUME NEW sv \in Servers \cup {None}, AddServer(sv) PROVE GuiInv'
  <2>1. Event("ManualServerAdded", sv) \in EventSet
    BY DEF Event, EventSet
  <2>2. events' \in Seq(EventSet)
    BY <1>2, <1>6, <2>1 DEF AddServer, Sent
  <2>3. Click /\ UNCHANGED <<phase, servers, selected, devices, session, pin>>
        /\ UNCHANGED <<jobs, attach_stop, told, port>>
    BY <1>6 DEF AddServer, view, tasks
  <2> QED BY <1>1, <1>4, <2>2, <2>3, ClickKeepsInv
<1>7. ASSUME NEW sv \in Servers, Select(sv) PROVE GuiInv'
  <2>1. Click /\ UNCHANGED <<phase, servers, devices, session, pin, events>>
        /\ UNCHANGED <<jobs, attach_stop, told, port>> /\ selected' = sv
    BY <1>7 DEF Select, tasks
  <2> QED BY <1>1, <1>4, <2>1, ClickKeepsInv
<1>8. ASSUME NEW full \in BOOLEAN, PinChanged(full) PROVE GuiInv'
  <2>1. Click /\ UNCHANGED <<phase, servers, selected, devices, session, events>>
        /\ UNCHANGED <<jobs, attach_stop, told, port>> /\ pin' = full
    BY <1>8 DEF PinChanged, tasks
  <2>2. pin' \in BOOLEAN
    BY <2>1
  <2> QED BY <1>1, <1>4, <2>1, <2>2, ClickKeepsInv
<1>9. ASSUME NEW j \in Jobs, Scan(j) PROVE GuiInv'
  <2>1. Event("ScanStarted", None) \in EventSet /\ Job("scan", None, None) \in JobSet
    BY DEF Event, EventSet, Job, JobSet
  <2>2. events' \in Seq(EventSet)
    BY <1>2, <1>9, <2>1 DEF Scan, Sent
  <2>3. Click /\ UNCHANGED <<phase, servers, selected, devices, session, pin>>
        /\ UNCHANGED <<attach_stop, told, port>>
    BY <1>9 DEF Scan, view
  <2>4. /\ jobs' \in [Jobs -> JobSet] /\ \A k \in Jobs : k # j => jobs'[k] = jobs[k]
        /\ jobs'[j].kind = "scan"
    BY <1>3, <1>9, <2>1 DEF Scan
  <2>5. OneForwarder'
    BY <1>5, <2>3, <2>4
  <2> QED BY <1>1, <2>2, <2>3, <2>4, <2>5, ClickKeepsInv
<1>10. ASSUME NEW j \in Jobs, NEW sv \in Servers, Probe(j, sv) PROVE GuiInv'
  <2>1. Job("probe", sv, None) \in JobSet
    BY DEF Job, JobSet
  <2>2. Click /\ UNCHANGED <<phase, servers, selected, devices, session, pin>>
        /\ UNCHANGED <<events, attach_stop, told, port>>
    BY <1>10 DEF Probe, view
  <2>3. /\ jobs' \in [Jobs -> JobSet] /\ \A k \in Jobs : k # j => jobs'[k] = jobs[k]
        /\ jobs'[j].kind = "probe"
    BY <1>3, <1>10, <2>1 DEF Probe
  <2>4. OneForwarder'
    BY <1>5, <2>2, <2>3
  <2> QED BY <1>1, <2>2, <2>3, <2>4, ClickKeepsInv
<1>11. ASSUME NEW j \in Jobs, Pair(j) PROVE GuiInv'
  <2>1. Event("PairStarted", None) \in EventSet /\ Event("Failed", None) \in EventSet
    BY DEF Event, EventSet
  <2>2. Click /\ UNCHANGED <<phase, servers, selected, devices, session, pin>>
        /\ UNCHANGED <<attach_stop, told, port>>
    BY <1>11 DEF Pair, view
  <2>3. CASE pin /\ selected \in servers
    <3>1. Job("pair", selected, None) \in JobSet
      BY <1>1, <2>3 DEF Job, JobSet
    <3>2. events' \in Seq(EventSet) /\ Start(j, "pair", selected, None)
      BY <1>2, <1>11, <2>1, <2>3 DEF Pair, Sent
    <3>3. /\ jobs' \in [Jobs -> JobSet] /\ \A k \in Jobs : k # j => jobs'[k] = jobs[k]
          /\ jobs'[j].kind = "pair"
      BY <1>3, <3>1, <3>2
    <3>4. OneForwarder'
      BY <1>5, <2>2, <3>3
    <3> QED BY <1>1, <2>2, <3>2, <3>3, <3>4, ClickKeepsInv
  <2>4. CASE ~(pin /\ selected \in servers)
    <3>1. /\ UNCHANGED jobs
          /\ \/ events' = events \o <<Event("PairStarted", None)>> \o <<Event("Failed", None)>>
             \/ events' = events \o <<Event("PairStarted", None)>> \o <<>>
      BY <1>11, <2>4 DEF Pair
    <3>2. /\ <<Event("PairStarted", None)>> \in Seq(EventSet)
          /\ <<Event("Failed", None)>> \in Seq(EventSet) /\ <<>> \in Seq(EventSet)
      BY <2>1
    <3>3. events \o <<Event("PairStarted", None)>> \in Seq(EventSet)
      BY <1>1, <3>2, ConcatProperties
    <3>4. events' \in Seq(EventSet)
      BY <3>1, <3>2, <3>3, ConcatProperties
    <3> QED BY <1>1, <1>4, <2>2, <3>1, <3>4, ClickKeepsInv
  <2> QED BY <2>3, <2>4
<1>12. ASSUME NEW j \in Jobs, NEW d \in Devices, Attach(j, d) PROVE GuiInv'
  <2>1. Job("attach", session, d) \in JobSet
    BY <1>1, <1>12 DEF Attach, Job, JobSet
  <2>2. Click /\ UNCHANGED <<phase, servers, selected, devices, session, pin>>
        /\ UNCHANGED <<events, port>> /\ attach_stop' = j /\ told' = told \cup Reached
    BY <1>12 DEF Attach, view
  <2>3. /\ jobs' \in [Jobs -> JobSet] /\ \A k \in Jobs : k # j => jobs'[k] = jobs[k]
    BY <1>3, <1>12, <2>1 DEF Attach
  <2>4. OneForwarder'
    <3> SUFFICES ASSUME NEW k \in Jobs, Forwarding(k)', k # j PROVE k \in told'
      BY <2>2 DEF OneForwarder
    <3>1. Forwarding(k)
      BY <2>3 DEF Forwarding
    <3> QED BY <1>1, <2>2, <3>1 DEF OneForwarder, Reached
  <2>5. told' \in SUBSET Jobs
    BY <1>1, <2>2 DEF Reached
  <2> QED BY <1>1, <2>2, <2>3, <2>4, <2>5, ClickKeepsInv
<1>13. ASSUME NEW j \in Jobs, NEW d \in Devices, Detach(j, d) PROVE GuiInv'
  <2>1. Click /\ UNCHANGED <<phase, servers, selected, devices, session, pin>>
        /\ UNCHANGED <<events, port>> /\ attach_stop' = None /\ told' = told \cup Reached
    BY <1>13 DEF Detach, view
  <2>2. /\ jobs' \in [Jobs -> JobSet]
        /\ \A k \in Jobs : Forwarding(k)' => Forwarding(k)
    <3>1. CASE session = None
      BY <1>1, <1>13, <3>1 DEF Detach, Forwarding
    <3>2. CASE session # None
      <4>1. Job("detach", session, d) \in JobSet
        BY <1>1, <3>2 DEF Job, JobSet
      <4>2. /\ jobs' \in [Jobs -> JobSet] /\ \A k \in Jobs : k # j => jobs'[k] = jobs[k]
            /\ jobs'[j].kind = "detach"
        BY <1>3, <1>13, <3>2, <4>1 DEF Detach
      <4> QED BY <4>2 DEF Forwarding
    <3> QED BY <3>1, <3>2
  <2>3. OneForwarder'
    BY <1>1, <2>1, <2>2 DEF OneForwarder, Reached
  <2>4. told' \in SUBSET Jobs
    BY <1>1, <2>1 DEF Reached
  <2> QED BY <1>1, <2>1, <2>2, <2>3, <2>4, ClickKeepsInv
<1> QED BY <1>6, <1>7, <1>8, <1>9, <1>10, <1>11, <1>12, <1>13 DEF UserNext

\* A job that moves on, or ends: only what it forwards has to be stoppable.
LEMMA JobKeepsInv ==
    ASSUME GuiInv, NEW j \in Jobs, NEW next \in JobSet',
           UNCHANGED <<phase, servers, selected, devices, session, pin, ui, attach_stop>>,
           jobs' = [jobs EXCEPT ![j] = next],
           saved \subseteq saved', saved' \in SUBSET Servers, latest' \in saved' \cup {None},
           port' \in Jobs \cup {None},
           told' = told \/ (told' = told \ {j} /\ next = NoJob),
           next.kind \in {"attach", "bind", "serve"} => Forwarding(j),
           events' = events \/ \E e \in EventSet' : events' = Append(events, e)
    PROVE  GuiInv'
<1>1. /\ jobs \in [Jobs -> JobSet] /\ events \in Seq(EventSet) /\ OneForwarder
      /\ attach_stop \in Jobs \cup {None} /\ told \in SUBSET Jobs /\ pin \in BOOLEAN
      /\ servers \in SUBSET Servers /\ selected \in Servers \cup {None}
      /\ ui \in {"drain", "draw"}
  BY DEF GuiInv, GuiTypeOK
<1>2. jobs' \in [Jobs -> JobSet'] /\ jobs'[j] = next
      /\ \A k \in Jobs : k # j => jobs'[k] = jobs[k]
  BY <1>1, SetsGrow
<1>3. events' \in Seq(EventSet')
  <2>1. events \in Seq(EventSet')
    BY <1>1, SetsGrow, SeqMonotonic
  <2> QED BY <2>1, AppendProperties
<1>4. OneForwarder'
  <2> SUFFICES ASSUME NEW k \in Jobs, Forwarding(k)'
               PROVE  k \in told' \/ k = attach_stop
    BY DEF OneForwarder
  <2>1. Forwarding(k) /\ (k = j => told' = told)
    BY <1>2 DEF Forwarding, NoJob, Job
  <2>2. k \in told \/ k = attach_stop
    BY <1>1, <2>1 DEF OneForwarder
  <2> QED BY <2>1, <2>2
<1>5. told' \in SUBSET Jobs
  BY <1>1
<1> QED BY <1>1, <1>2, <1>3, <1>4, <1>5, WorkKeepsInv

LEMMA JobsKeepInv ==
    ASSUME GuiInv, NEW j \in Jobs, JobNext(j) \/ ListenerLost(j)
    PROVE  GuiInv'
<1>1. /\ jobs \in [Jobs -> JobSet] /\ jobs[j] \in JobSet /\ saved \in SUBSET Servers
      /\ latest \in saved \cup {None} /\ port \in Jobs \cup {None}
  BY DEF GuiInv, GuiTypeOK, SessionOnDisk
<1>2. UNCHANGED <<phase, servers, selected, devices, session, pin, ui, attach_stop>>
  BY DEF JobNext, JobFails, ScanEnds, ProbeFinds, ProbeSelects, PairAccepted, SaveSession,
         SaveLatest, LoadEnds, AttachAccepted, Bind, ServeEnds, DetachEnds, ListenerLost, At, view
<1>3. NoJob \in JobSet' /\ NoJob.kind = "free"
  BY DEF NoJob, Job, JobSet
<1>4. ASSUME NEW kind, jobs[j].kind = kind,
             kind \in {"probe", "select", "pair", "save", "load", "latest",
                       "attach", "bind", "serve", "detach"}
      PROVE  jobs[j].server \in Servers
  BY <1>1, <1>4 DEF JobSet
<1>5. ASSUME jobs[j].kind \in {"attach", "bind", "serve", "detach"}
      PROVE  jobs[j].device \in Devices
  BY <1>1, <1>5 DEF JobSet
<1>6. ASSUME Becomes(j, "free"), UNCHANGED <<saved, latest>>, port' \in Jobs \cup {None},
             told' \in {told, told \ {j}},
             events' = events \/ \E e \in EventSet' : events' = Append(events, e)
      PROVE  GuiInv'
  <2>1. jobs' = [jobs EXCEPT ![j] = NoJob]
    BY <1>6 DEF Becomes
  <2> QED BY <1>1, <1>2, <1>3, <1>6, <2>1, JobKeepsInv
<1>7. CASE JobFails(j)
  <2>1. Event("Failed", None) \in EventSet'
    BY DEF Event, EventSet
  <2> QED BY <1>1, <1>6, <1>7, <2>1 DEF JobFails, Sent, disk
<1>8. CASE ScanEnds(j)
  <2>1. PICK found \in SUBSET Servers : Sent(Event("ServersFound", found))
    BY <1>8 DEF ScanEnds
  <2>2. Event("ServersFound", found) \in EventSet'
    BY DEF Event, EventSet
  <2> QED BY <1>1, <1>6, <1>8, <2>1, <2>2 DEF ScanEnds, Sent, disk
<1>9. CASE ProbeSelects(j)
  <2>1. Event("ServerSelected", jobs[j].server) \in EventSet'
    BY <1>4, <1>9 DEF ProbeSelects, At, Event, EventSet
  <2> QED BY <1>1, <1>6, <1>9, <2>1 DEF ProbeSelects, Sent, disk
<1>10. CASE LoadEnds(j)
  <2>1. PICK listed \in SUBSET Devices : Sent(Event("DevicesLoaded", listed))
    BY <1>10 DEF LoadEnds
  <2>2. Event("DevicesLoaded", listed) \in EventSet'
    BY DEF Event, EventSet
  <2> QED BY <1>1, <1>6, <1>10, <2>1, <2>2 DEF LoadEnds, Sent, disk
<1>11. CASE ServeEnds(j) \/ ListenerLost(j)
  BY <1>1, <1>6, <1>11 DEF ServeEnds, ListenerLost, disk
<1>12. ASSUME NEW kind, kind # "free", Becomes(j, kind), [jobs[j] EXCEPT !.kind = kind] \in JobSet',
              kind \in {"attach", "bind", "serve"} => Forwarding(j),
              saved \subseteq saved', saved' \in SUBSET Servers, latest' \in saved' \cup {None},
              port' \in Jobs \cup {None}, told' = told,
              events' = events \/ \E e \in EventSet' : events' = Append(events, e)
       PROVE  GuiInv'
  <2> DEFINE next == [jobs[j] EXCEPT !.kind = kind]
  <2>1. jobs' = [jobs EXCEPT ![j] = next]
    BY <1>12 DEF Becomes
  <2>2. next.kind = kind
    BY <1>1 DEF JobSet
  <2>3. next \in JobSet'
    BY <1>12
  <2> HIDE DEF next
  <2> QED BY <1>2, <1>12, <2>1, <2>2, <2>3, JobKeepsInv
<1>13. CASE ProbeFinds(j)
  <2>1. jobs[j].kind = "probe" /\ jobs[j].server \in Servers
    BY <1>4, <1>13 DEF ProbeFinds, At
  <2>2. Event("ServersFound", {jobs[j].server}) \in EventSet'
    BY <2>1 DEF Event, EventSet
  <2>3. [jobs[j] EXCEPT !.kind = "select"] \in JobSet'
    BY <1>1, <2>1 DEF JobSet
  <2> QED BY <1>1, <1>12, <1>13, <2>2, <2>3 DEF ProbeFinds, Sent, disk
<1>14. CASE PairAccepted(j)
  <2>1. [jobs[j] EXCEPT !.kind = "save"] \in JobSet'
    BY <1>1, <1>14 DEF PairAccepted, At, JobSet
  <2> QED BY <1>1, <1>12, <1>14, <2>1 DEF PairAccepted, disk
<1>15. CASE SaveSession(j)
  <2>1. jobs[j].kind = "save" /\ jobs[j].server \in Servers
    BY <1>4, <1>15 DEF SaveSession, At
  <2>2. saved' = saved \cup {jobs[j].server}
    BY <1>15 DEF SaveSession
  <2>3. [jobs[j] EXCEPT !.kind = "latest"] \in JobSet'
    BY <1>1, <2>1, <2>2 DEF JobSet
  <2> QED BY <1>1, <1>12, <1>15, <2>1, <2>2, <2>3 DEF SaveSession
<1>16. CASE SaveLatest(j)
  <2>1. jobs[j].kind = "latest" /\ saved' = saved
    BY <1>16 DEF SaveLatest, At
  <2>2. jobs[j].server \in saved
    BY <1>1, <2>1 DEF JobSet
  <2>3. Event("PairSucceeded", jobs[j].server) \in EventSet'
    BY <2>1, <2>2 DEF Event, EventSet
  <2>4. [jobs[j] EXCEPT !.kind = "load"] \in JobSet'
    BY <1>1, <2>1 DEF JobSet
  <2> QED BY <1>1, <1>12, <1>16, <2>1, <2>2, <2>3, <2>4 DEF SaveLatest, Sent
<1>17. CASE AttachAccepted(j)
  <2>1. jobs[j].kind = "attach" /\ jobs[j].device \in Devices
    BY <1>5, <1>17 DEF AttachAccepted, At
  <2>2. Event("AttachSucceeded", jobs[j].device) \in EventSet'
    BY <2>1 DEF Event, EventSet
  <2>3. [jobs[j] EXCEPT !.kind = "bind"] \in JobSet'
    BY <1>1, <2>1 DEF JobSet
  <2>4. Forwarding(j)
    BY <2>1 DEF Forwarding
  <2> QED BY <1>1, <1>12, <1>17, <2>2, <2>3, <2>4 DEF AttachAccepted, Sent, disk
<1>18. CASE Bind(j)
  <2>1. jobs[j].kind = "bind"
    BY <1>18 DEF Bind, At
  <2>2. [jobs[j] EXCEPT !.kind = "serve"] \in JobSet'
    BY <1>1, <2>1 DEF JobSet
  <2>3. Forwarding(j)
    BY <2>1 DEF Forwarding
  <2> QED BY <1>1, <1>12, <1>18, <2>2, <2>3 DEF Bind, disk
<1>19. CASE DetachEnds(j)
  <2>1. jobs[j].kind = "detach" /\ jobs[j].device \in Devices
    BY <1>5, <1>19 DEF DetachEnds, At
  <2>2. Event("DetachSucceeded", jobs[j].device) \in EventSet'
    BY <2>1 DEF Event, EventSet
  <2>3. [jobs[j] EXCEPT !.kind = "load"] \in JobSet'
    BY <1>1, <2>1 DEF JobSet
  <2> QED BY <1>1, <1>12, <1>19, <2>2, <2>3 DEF DetachEnds, Sent, disk
<1> QED BY <1>7, <1>8, <1>9, <1>10, <1>11, <1>13, <1>14, <1>15, <1>16, <1>17, <1>18, <1>19
         DEF JobNext

LEMMA GuiStepInv ==
    ASSUME GuiInv, [GuiNext]_guiVars
    PROVE  GuiInv'
<1>1. CASE Draw \/ UNCHANGED guiVars
  <2>1. /\ UNCHANGED <<phase, servers, selected, devices, session, pin, events>>
        /\ UNCHANGED <<jobs, attach_stop, told, port, saved, latest>>
        /\ ui' \in {ui, "draw", "drain"}
    BY <1>1 DEF Draw, guiVars, view, tasks, disk
  <2>2. JobSet' = JobSet /\ EventSet' = EventSet
    BY <2>1 DEF JobSet, EventSet
  <2> QED BY <2>1, <2>2 DEF GuiInv, GuiTypeOK, SessionOnDisk, OneForwarder, Forwarding
<1> QED BY <1>1, ApplyKeepsInv, UserKeepsInv, RestartKeepsInv, JobsKeepInv DEF GuiNext

LEMMA GuiInvariant == GuiSpec => []GuiInv
  BY GuiInitInv, GuiStepInv, PTL DEF GuiSpec

\* save_session writes the session file before `latest`, and the pairing is
\* reported after both: wherever a job fails or the program ends, the session
\* on display and the one to restore have their files.
THEOREM SessionsHaveTheirFiles == GuiSpec => []SessionOnDisk
  BY GuiInvariant, PTL DEF GuiInv

\* FarBusApp::attach stops the task it replaces and detach the one there is: no
\* task forwards that the user can no longer stop.
THEOREM ForwardersCanBeStopped == GuiSpec => []OneForwarder
  BY GuiInvariant, PTL DEF GuiInv

\* Whatever order the events arrive in, at most one device is shown as attached
\* (GuiState::apply), and the state is well typed.
THEOREM OneDeviceAttached == GuiSpec => []GuiTypeOK
  BY GuiInvariant, PTL DEF GuiInv
=============================================================================
