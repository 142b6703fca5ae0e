--------------------------------- MODULE Gui ---------------------------------
(***************************************************************************)
(* The desktop application: crates/farbus-gui (lib.rs, actions.rs, app.rs) *)
(* with the files of crates/farbus-core/src/store.rs.                      *)
(*                                                                         *)
(* The user interface is one thread: every frame first applies the events  *)
(* in the channel, then draws and handles clicks.  A click that needs the  *)
(* network starts a job, a thread or a task, that reports back through the *)
(* channel, by which time the state may have moved on.  A server is its    *)
(* fingerprint, the PIN is entered completely or not, and files survive    *)
(* the end of the process.                                                 *)
(***************************************************************************)
EXTENDS Naturals, Sequences, FiniteSets

CONSTANTS
    Servers, Devices,
    Jobs,           \* bound: threads and tasks at a time
    None,
    MaxClicks,      \* bound: what the user does
    MaxRestarts     \* bound: times the program ends and starts again

ASSUME GuiAssumption ==
    /\ None \notin Servers \cup Devices \cup Jobs
    /\ MaxClicks \in Nat /\ MaxRestarts \in Nat

VARIABLES
    phase, servers, selected, devices, session, pin,   \* GuiState
    ui,             \* the frame is at its events or at its clicks
    events,         \* the channel
    jobs,           \* what each thread or task does
    attach_stop,    \* the task that can be told to stop
    told,           \* tasks that have been told
    port,           \* the task that listens on the USB/IP port
    saved,          \* servers with a complete .session file
    latest,         \* the server that the file `latest` names
    clicks, restarts

view  == <<servers, selected, devices, session, pin>>
tasks == <<jobs, attach_stop, told, port>>
disk  == <<saved, latest>>
guiVars == <<phase, view, ui, events, tasks, disk, clicks, restarts>>

Phases == {"Idle", "Scanning", "Pairing", "Ready", "Forwarding", "Error"}
\* attach, bind and serve are one task; probe and select are one thread; pair,
\* save and latest too, which ends as the thread that loads the device list.
JobKinds == {"free", "scan", "probe", "select", "pair", "save", "latest", "load",
             "attach", "bind", "serve", "detach"}
Job(kind, s, d) == [kind |-> kind, server |-> s, device |-> d]
NoJob == Job("free", None, None)
Forwarding(j) == jobs[j].kind \in {"attach", "bind", "serve"}

\* Well typed, and at most one device is marked as attached.
GuiTypeOK ==
    /\ phase \in Phases /\ ui \in {"drain", "draw"} /\ pin \in BOOLEAN
    /\ servers \in SUBSET Servers
    /\ selected \in Servers \cup {None} /\ session \in Servers \cup {None}
    /\ devices \in [Devices -> {"absent", "shown", "attached"}]
    /\ \A d, e \in Devices : devices[d] = "attached" /\ devices[e] = "attached" => d = e
    /\ \A j \in Jobs : jobs[j].kind \in JobKinds
    /\ attach_stop \in Jobs \cup {None} /\ port \in Jobs \cup {None} /\ told \in SUBSET Jobs
    /\ saved \in SUBSET Servers /\ latest \in Servers \cup {None}

\* restore_session: the session that `latest` names, if its file is there.
Restored == IF latest \in saved THEN latest ELSE None

\* FarBusApp::new loads the devices of a restored session.
FirstJobs ==
    {[j \in Jobs |-> IF j = first THEN Job("load", Restored, None) ELSE NoJob] :
        first \in IF Restored = None THEN {None} ELSE Jobs}

\* The first start, or one on a disk where sessions have been saved before.
GuiInit ==
    /\ saved \in SUBSET Servers
    /\ latest \in IF saved = {} THEN {None} ELSE saved
    /\ session = Restored /\ selected = Restored
    /\ phase = IF Restored = None THEN "Idle" ELSE "Ready"
    /\ servers = {} /\ devices = [d \in Devices |-> "absent"] /\ pin = FALSE
    /\ ui = "drain" /\ events = <<>> /\ jobs \in FirstJobs
    /\ attach_stop = None /\ told = {} /\ port = None
    /\ clicks = 0 /\ restarts = 0

-----------------------------------------------------------------------------
(* drain_events and apply.                                                 *)

Event(kind, of) == [kind |-> kind, of |-> of]
Sent(e) == events' = Append(events, e)

\* The next event is of this kind.
Takes(kind) ==
    /\ ui = "drain" /\ events # <<>> /\ Head(events).kind = kind
    /\ events' = Tail(events)
    /\ UNCHANGED <<ui, tasks, disk, clicks, restarts>>
Arg == Head(events).of

ScanStarted == Takes("ScanStarted") /\ phase' = "Scanning" /\ UNCHANGED view

\* One entry per fingerprint.
merge_servers(found) == servers \cup found

ServersFound ==
    /\ Takes("ServersFound")
    /\ servers' = merge_servers(Arg)
    /\ phase' = IF phase = "Scanning" THEN "Idle" ELSE phase
    /\ UNCHANGED <<selected, devices, session, pin>>

ServerSelected ==
    /\ Takes("ServerSelected")
    /\ selected' = Arg
    /\ UNCHANGED <<phase, servers, devices, session, pin>>

\* The PIN may have been cleared since the click.
PairStarted ==
    /\ Takes("PairStarted")
    /\ phase' = IF pin THEN "Pairing" ELSE "Error"
    /\ UNCHANGED view

PairSucceeded ==
    /\ Takes("PairSucceeded")
    /\ pin' = FALSE /\ selected' = Arg /\ session' = Arg
    /\ phase' = "Ready"
    /\ UNCHANGED <<servers, devices>>

\* PairRejected and Failed.
Failed == Takes("Failed") /\ phase' = "Error" /\ UNCHANGED view

DevicesLoaded ==
    /\ Takes("DevicesLoaded")
    /\ devices' = [d \in Devices |-> IF d \in Arg THEN "shown" ELSE "absent"]
    /\ phase' = IF session # None /\ phase # "Forwarding" THEN "Ready" ELSE phase
    /\ UNCHANGED <<servers, selected, session, pin>>

AttachSucceeded ==
    /\ Takes("AttachSucceeded")
    /\ devices' = [d \in Devices |-> IF devices[d] = "absent" THEN "absent"
                                     ELSE IF d = Arg THEN "attached" ELSE "shown"]
    /\ phase' = "Forwarding"
    /\ UNCHANGED <<servers, selected, session, pin>>

DetachSucceeded ==
    /\ Takes("DetachSucceeded")
    /\ devices' = [devices EXCEPT ![Arg] = IF @ = "attached" THEN "shown" ELSE @]
    /\ phase' = IF \E d \in Devices : devices'[d] = "attached" THEN "Forwarding" ELSE "Ready"
    /\ UNCHANGED <<servers, selected, session, pin>>

\* A server typed in by hand; None is one that cannot be parsed or resolved.
ManualServerAdded ==
    /\ Takes("ManualServerAdded")
    /\ IF Arg = None
       THEN phase' = "Error" /\ UNCHANGED <<servers, selected>>
       ELSE /\ servers' = servers \cup {Arg} /\ selected' = Arg
            /\ phase' = IF phase \in {"Error", "Idle", "Scanning"} THEN "Idle" ELSE phase
    /\ UNCHANGED <<devices, session, pin>>

\* The channel is empty: draw.  Without a click the next frame follows.
Draw ==
    /\ \/ ui = "drain" /\ events = <<>> /\ ui' = "draw"
       \/ ui = "draw" /\ ui' = "drain"
    /\ UNCHANGED <<phase, view, events, tasks, disk, clicks, restarts>>

-----------------------------------------------------------------------------
(* Clicks.                                                                 *)

Click ==
    /\ ui = "draw" /\ ui' = "drain"
    /\ clicks < MaxClicks /\ clicks' = clicks + 1
    /\ UNCHANGED <<disk, restarts>>

Start(j, kind, s, d) == jobs[j] = NoJob /\ jobs' = [jobs EXCEPT ![j] = Job(kind, s, d)]

Scan(j) ==
    /\ Click
    /\ Sent(Event("ScanStarted", None))
    /\ Start(j, "scan", None, None)
    /\ UNCHANGED <<phase, view, attach_stop, told, port>>

\* add_manual with a fingerprint, and without one.
AddServer(s) ==
    /\ Click
    /\ Sent(Event("ManualServerAdded", s))
    /\ UNCHANGED <<phase, view, tasks>>

Probe(j, s) ==
    /\ Click
    /\ Start(j, "probe", s, None)
    /\ UNCHANGED <<phase, view, events, attach_stop, told, port>>

Select(s) ==
    /\ Click
    /\ s \in servers /\ selected' = s
    /\ UNCHANGED <<phase, servers, devices, session, pin, events, tasks>>

PinChanged(full) ==
    /\ Click
    /\ pin' = full
    /\ UNCHANGED <<phase, servers, selected, devices, session, events, tasks>>

\* Mutation: nothing is reported when no server is selected.
PairSilently(j) ==
    /\ Click
    /\ Sent(Event("PairStarted", None))
    /\ IF pin /\ selected \in servers THEN Start(j, "pair", selected, None) ELSE UNCHANGED jobs
    /\ UNCHANGED <<phase, view, attach_stop, told, port>>

Pair(j) ==
    /\ Click
    /\ IF pin /\ selected \in servers
       THEN Sent(Event("PairStarted", None)) /\ Start(j, "pair", selected, None)
       ELSE /\ events' = events \o <<Event("PairStarted", None)>>
                                \o (IF pin THEN <<Event("Failed", None)>> ELSE <<>>)
            /\ UNCHANGED jobs
    /\ UNCHANGED <<phase, view, attach_stop, told, port>>

\* The task that attach_stop reaches, unless it has ended.
Reached == {j \in Jobs : j = attach_stop /\ Forwarding(j)}

\* Mutation: the former task is not stopped.
AttachOnTop(j, d) ==
    /\ Click
    /\ devices[d] = "shown" /\ session # None
    /\ attach_stop' = j
    /\ Start(j, "attach", session, d)
    /\ UNCHANGED <<phase, view, events, told, port>>

Attach(j, d) ==
    /\ Click
    /\ devices[d] = "shown" /\ session # None
    /\ told' = told \cup Reached
    /\ attach_stop' = j
    /\ Start(j, "attach", session, d)
    /\ UNCHANGED <<phase, view, events, port>>

Detach(j, d) ==
    /\ Click
    /\ devices[d] = "attached"
    /\ told' = told \cup Reached
    /\ attach_stop' = None
    /\ IF session # None THEN Start(j, "detach", session, d) ELSE UNCHANGED jobs
    /\ UNCHANGED <<phase, view, events, port>>

-----------------------------------------------------------------------------
(* Jobs.  Any of them may fail, and says so in the channel.                *)

At(j, kind) == jobs[j].kind = kind /\ UNCHANGED <<phase, view, ui, clicks, restarts>>
Becomes(j, kind) ==
    jobs' = [jobs EXCEPT ![j] = IF kind = "free" THEN NoJob ELSE [@ EXCEPT !.kind = kind]]

JobFails(j) ==
    /\ \E kind \in {"scan", "probe", "pair", "save", "latest", "load", "attach", "detach"} :
         At(j, kind)
    /\ Sent(Event("Failed", None))
    /\ Becomes(j, "free")
    /\ told' = told \ {j}
    /\ UNCHANGED <<attach_stop, port, disk>>

ScanEnds(j) ==
    /\ At(j, "scan")
    /\ \E found \in SUBSET Servers : Sent(Event("ServersFound", found))
    /\ Becomes(j, "free")
    /\ UNCHANGED <<attach_stop, told, port, disk>>

ProbeFinds(j) ==
    /\ At(j, "probe")
    /\ Sent(Event("ServersFound", {jobs[j].server}))
    /\ Becomes(j, "select")
    /\ UNCHANGED <<attach_stop, told, port, disk>>

ProbeSelects(j) ==
    /\ At(j, "select")
    /\ Sent(Event("ServerSelected", jobs[j].server))
    /\ Becomes(j, "free")
    /\ UNCHANGED <<attach_stop, told, port, disk>>

\* The server has accepted the PIN.  Two saves at once would share their
\* temporary files; the model has one at a time.
PairAccepted(j) ==
    /\ At(j, "pair")
    /\ \A k \in Jobs : jobs[k].kind \notin {"save", "latest"}
    /\ Becomes(j, "save")
    /\ UNCHANGED <<events, attach_stop, told, port, disk>>

\* Mutation: the result of writing the session is ignored.
SaveIgnoring(j) ==
    /\ At(j, "save")
    /\ saved' \in {saved, saved \cup {jobs[j].server}}
    /\ Becomes(j, "latest")
    /\ UNCHANGED <<events, attach_stop, told, port, latest>>

\* save_session: the session file first, each by a rename.
SaveSession(j) ==
    /\ At(j, "save")
    /\ saved' = saved \cup {jobs[j].server}
    /\ Becomes(j, "latest")
    /\ UNCHANGED <<events, attach_stop, told, port, latest>>

SaveLatest(j) ==
    /\ At(j, "latest")
    /\ latest' = jobs[j].server
    /\ Sent(Event("PairSucceeded", jobs[j].server))
    /\ Becomes(j, "load")
    /\ UNCHANGED <<attach_stop, told, port, saved>>

\* connect_session needs the file; without it the job fails.
LoadEnds(j) ==
    /\ At(j, "load") /\ jobs[j].server \in saved
    /\ \E listed \in SUBSET Devices : Sent(Event("DevicesLoaded", listed))
    /\ Becomes(j, "free")
    /\ UNCHANGED <<attach_stop, told, port, disk>>

AttachAccepted(j) ==
    /\ At(j, "attach") /\ jobs[j].server \in saved
    /\ Sent(Event("AttachSucceeded", jobs[j].device))
    /\ Becomes(j, "bind")
    /\ UNCHANGED <<attach_stop, told, port, disk>>

Bind(j) ==
    /\ At(j, "bind") /\ port = None
    /\ port' = j
    /\ Becomes(j, "serve")
    /\ UNCHANGED <<events, attach_stop, told, disk>>

\* Mutation: once it listens, the task does not look at its stop channel.
StopMissed(j) ==
    /\ At(j, "bind")
    /\ port # None \/ j \in told
    /\ port' = port
    /\ told' = told \ {j}
    /\ Becomes(j, "free")
    /\ UNCHANGED <<events, attach_stop, disk>>

\* The listener fails, or another program has the port: nothing is reported.
ListenerLost(j) ==
    /\ At(j, "bind") \/ At(j, "serve")
    /\ port' = IF port = j THEN None ELSE port
    /\ told' = told \ {j}
    /\ Becomes(j, "free")
    /\ UNCHANGED <<events, attach_stop, disk>>

\* The former task still has the port, or this one has been told to stop.
ServeEnds(j) ==
    /\ At(j, "bind") \/ At(j, "serve")
    /\ (port # None /\ port # j) \/ j \in told
    /\ port' = IF port = j THEN None ELSE port
    /\ told' = told \ {j}
    /\ Becomes(j, "free")
    /\ UNCHANGED <<events, attach_stop, disk>>

DetachEnds(j) ==
    /\ At(j, "detach") /\ jobs[j].server \in saved
    /\ Sent(Event("DetachSucceeded", jobs[j].device))
    /\ Becomes(j, "load")
    /\ UNCHANGED <<attach_stop, told, port, disk>>

\* The program ends, by Quit or by a crash, and is started again.
Restart ==
    /\ restarts < MaxRestarts /\ restarts' = restarts + 1
    /\ session' = Restored /\ selected' = Restored
    /\ phase' = IF Restored = None THEN "Idle" ELSE "Ready"
    /\ servers' = {} /\ devices' = [d \in Devices |-> "absent"] /\ pin' = FALSE
    /\ ui' = "drain" /\ events' = <<>> /\ jobs' \in FirstJobs
    /\ attach_stop' = None /\ told' = {} /\ port' = None
    /\ UNCHANGED <<disk, clicks>>

-----------------------------------------------------------------------------
Apply ==
    \/ ScanStarted \/ ServersFound \/ ServerSelected \/ PairStarted \/ PairSucceeded
    \/ Failed \/ DevicesLoaded \/ AttachSucceeded \/ DetachSucceeded \/ ManualServerAdded

UserNext ==
    \/ \E s \in Servers \cup {None} : AddServer(s)
    \/ \E s \in Servers : Select(s)
    \/ \E full \in BOOLEAN : PinChanged(full)
    \/ \E j \in Jobs : \/ Scan(j) \/ Pair(j)
                       \/ \E s \in Servers : Probe(j, s)
                       \/ \E d \in Devices : Attach(j, d) \/ Detach(j, d)

JobNext(j) ==
    \/ JobFails(j) \/ ScanEnds(j) \/ ProbeFinds(j) \/ ProbeSelects(j)
    \/ PairAccepted(j) \/ SaveSession(j) \/ SaveLatest(j) \/ LoadEnds(j)
    \/ AttachAccepted(j) \/ Bind(j) \/ ServeEnds(j) \/ DetachEnds(j)

GuiNext == Apply \/ Draw \/ UserNext \/ Restart \/ \E j \in Jobs : JobNext(j) \/ ListenerLost(j)

\* Frames follow each other, and every job ends: the calls it makes return,
\* with an error if the server or the connection is gone.
GuiSpec ==
    /\ GuiInit /\ [][GuiNext]_guiVars
    /\ WF_guiVars(Apply) /\ WF_guiVars(Draw)
    /\ \A j \in Jobs : WF_guiVars(JobNext(j))

-----------------------------------------------------------------------------
\* Whatever fails between the files, and wherever the program is ended, the
\* session on display can be used (connect_session finds its file), and the
\* one that `latest` names can be restored.
SessionOnDisk == {session, latest} \subseteq saved \cup {None}

\* The user can stop what forwards: every task that forwards has been told to
\* stop, or is the one attach_stop reaches.
OneForwarder == \A j \in Jobs : Forwarding(j) => j \in told \/ j = attach_stop

\* A task that was told to stop ends, also when it was still attaching, so that
\* the port becomes free for the next one.  (Connections it has accepted have
\* tasks of their own, which run on.)
StopObeyed == \A j \in Jobs : j \in told ~> j \notin told

\* "Scanning" and "Pairing" do not stay on display, in whatever order the
\* events of several jobs arrive.
BusyEnds == phase \in {"Scanning", "Pairing"} ~> phase \notin {"Scanning", "Pairing"}
=============================================================================
