----------------------------- MODULE ClientPump ------------------------------
(***************************************************************************)
(* crates/farbus-core/src/client.rs: the pump behind a FarBusClient, which *)
(* all clones of the client share, and the server as the pump sees it.     *)
(*                                                                         *)
(* Every pump has a connection of its own, so one number names both.  A    *)
(* caller has at most one request under way.  A URB and an unlink carry    *)
(* the sequence number under which the pump files them, which callers of   *)
(* different USB/IP connections may share; a control request carries none  *)
(* (0).  An answer is what the call returns: `ok`, `refused`               *)
(* (AttachRejected), or `closed`, which stands for Closed, Frame and Io,   *)
(* errors that no caller tells apart.                                      *)
(***************************************************************************)
EXTENDS Naturals, Sequences, FiniteSets, SequencesExt

CONSTANTS
    Callers,        \* tasks of the client program
    MaxPumps,       \* bound: connections opened
    MaxLost,        \* bound: connections the network may lose, the first ones
    MaxSeq          \* bound: sequence numbers in use

ASSUME PumpAssumption == MaxPumps \in Nat \ {0} /\ MaxLost \in Nat /\ MaxSeq \in Nat

Pumps == 1..MaxPumps
ControlKinds == {"hello", "list", "attach", "detach"}
Kinds == ControlKinds \cup {"urb", "unlink"}
Request == [from : Callers, kind : Kinds, seq : 0..MaxSeq]
Reply   == [from : Callers, kind : Kinds, seq : 0..MaxSeq, ok : BOOLEAN]

VARIABLES
    opened,     \* connections opened so far
    pump,       \* where the task run_client_pump is
    queue,      \* commands in its channel
    pending,    \* pending_urbs and pending_unlinks: requests by seq
    control,    \* control_replies: requests in the order they were written
    cmd_tx,     \* the pump that send_cmd reaches
    pump_task,  \* the pump that a reconnect will abort
    answer,     \* what a caller's oneshot holds
    link,       \* the connection carries bytes both ways
    wire,       \* requests on their way to the server
    back,       \* replies on their way to the client
    serving,    \* URBs that run on the server
    session,    \* the server's end: new, greeted by a Hello, or authenticated
    leased,     \* the server has the device leased to this client
    executed    \* caller -> how often the server has carried out its URB

pumpVars   == <<opened, pump, queue, pending, control, cmd_tx, pump_task, answer>>
remoteVars == <<link, wire, back, serving, session, leased, executed>>
clientVars == <<pumpVars, remoteVars>>

PumpTypeOK ==
    /\ opened \in Pumps
    /\ pump \in [Pumps -> {"none", "running", "aborted", "ended"}]
    /\ queue \in [Pumps -> Seq(Request)]
    /\ pending \in [Pumps -> SUBSET Request]
    /\ control \in [Pumps -> Seq(Request)]
    /\ cmd_tx \in Pumps /\ pump_task \in Pumps
    /\ answer \in [Callers -> {"none", "waiting", "ok", "refused", "closed"}]
    /\ link \in [Pumps -> BOOLEAN]
    /\ wire \in [Pumps -> Seq(Request)]
    /\ back \in [Pumps -> Seq(Reply)]
    /\ serving \in [Pumps -> SUBSET Request]
    /\ session \in [Pumps -> {"none", "new", "hello", "paired", "closed"}]
    /\ leased \in BOOLEAN
    /\ executed \in [Callers -> Nat]

\* A client that has connected, said hello and paired.
PumpInit ==
    /\ opened = 1
    /\ pump = [i \in Pumps |-> IF i = 1 THEN "running" ELSE "none"]
    /\ queue = [i \in Pumps |-> <<>>]
    /\ pending = [i \in Pumps |-> {}]
    /\ control = [i \in Pumps |-> <<>>]
    /\ cmd_tx = 1 /\ pump_task = 1
    /\ answer = [c \in Callers |-> "none"]
    /\ link = [i \in Pumps |-> i = 1]
    /\ wire = [i \in Pumps |-> <<>>]
    /\ back = [i \in Pumps |-> <<>>]
    /\ serving = [i \in Pumps |-> {}]
    /\ session = [i \in Pumps |-> IF i = 1 THEN "paired" ELSE "none"]
    /\ leased = FALSE
    /\ executed = [c \in Callers |-> 0]

-----------------------------------------------------------------------------
(* What a caller does.                                                     *)

\* An aborted task runs on until its next await, and its channel is open until then.
Runs(i) == pump[i] \in {"running", "aborted"}

\* send_cmd on the pump that i names: a channel whose pump is gone is an error.
SendCmd(c, kind, n, i) ==
    IF Runs(i)
    THEN /\ queue' = [queue EXCEPT ![i] = Append(@, [from |-> c, kind |-> kind, seq |-> n])]
         /\ answer' = [answer EXCEPT ![c] = "waiting"]
    ELSE /\ answer' = [answer EXCEPT ![c] = "closed"]
         /\ UNCHANGED queue

\* One request through a sender that was taken out of cmd_tx earlier, and is that
\* of pump i, whatever cmd_tx holds by now.
SendOn(c, kind, n, i) ==
    /\ SendCmd(c, kind, n, i)
    /\ UNCHANGED <<opened, pump, pending, control, cmd_tx, pump_task, remoteVars>>

\* A request of a caller that holds the mutex of the client: no reconnect changes
\* cmd_tx between its two steps.  unlink() has a sequence number, and hello(),
\* attach() and detach() have none.
CallSeq(c, kind, n) == SendOn(c, kind, n, cmd_tx)
Call(c, kind) == CallSeq(c, kind, 0)

\* reconnect(), first part: TCP and TLS succeed and the new pump is spawned.
Connect ==
    /\ opened < MaxPumps
    /\ opened' = opened + 1
    /\ pump' = [pump EXCEPT ![opened'] = "running"]
    /\ link' = [link EXCEPT ![opened'] = TRUE]
    /\ session' = [session EXCEPT ![opened'] = "new"]
    /\ UNCHANGED <<queue, pending, control, cmd_tx, pump_task, answer,
                   wire, back, serving, leased, executed>>

\* Second part: the handle is replaced and the old task told to stop.
AbortOld ==
    /\ pump' = [pump EXCEPT ![pump_task] = IF @ = "running" THEN "aborted" ELSE @]
    /\ pump_task' = opened
    /\ UNCHANGED <<opened, queue, pending, control, cmd_tx, answer, remoteVars>>

\* Third part: senders taken from now on are those of the new pump.  The Hello is
\* sent after that, and need not be the first to get there.
SwapTx ==
    /\ cmd_tx' = opened
    /\ UNCHANGED <<opened, pump, queue, pending, control, pump_task, answer, remoteVars>>

-----------------------------------------------------------------------------
(* run_client_pump.                                                        *)

IsControl(m) == m.kind \in ControlKinds

\* Mutation: the map is keyed by the kind of request only.
FiledByKind(i, m) == {x \in pending[i] : x.kind = m.kind}

\* The requests of pump i that a URB or unlink with the key of m finds in its map.
Filed(i, m) == {x \in pending[i] : x.kind = m.kind /\ x.seq = m.seq}

\* Mutation: replies are queued like a stack.
RegisterFirst(i, m) ==
    IF IsControl(m)
    THEN control' = [control EXCEPT ![i] = <<m>> \o @] /\ UNCHANGED <<pending, answer>>
    ELSE /\ pending' = [pending EXCEPT ![i] = (@ \ Filed(i, m)) \cup {m}]
         /\ answer' = [c \in Callers |->
                         IF \E x \in Filed(i, m) : x.from = c THEN "closed" ELSE answer[c]]
         /\ UNCHANGED control

\* The sender of the caller's oneshot is kept until the reply comes.  A request
\* with the number of another one that waits takes its place: the other sender
\* is dropped, which its caller sees as Closed.
Register(i, m) ==
    IF IsControl(m)
    THEN control' = [control EXCEPT ![i] = Append(@, m)] /\ UNCHANGED <<pending, answer>>
    ELSE /\ pending' = [pending EXCEPT ![i] = (@ \ Filed(i, m)) \cup {m}]
         /\ answer' = [c \in Callers |->
                         IF \E x \in Filed(i, m) : x.from = c THEN "closed" ELSE answer[c]]
         /\ UNCHANGED control

\* A command is taken from the channel, registered and written.  On a
\* connection that is down the write may still succeed, into the void.
PumpWrite(i) ==
    LET m == Head(queue[i])
    IN  /\ Runs(i) /\ queue[i] # <<>>
        /\ queue' = [queue EXCEPT ![i] = Tail(@)]
        /\ Register(i, m)
        /\ wire' = IF link[i] THEN [wire EXCEPT ![i] = Append(@, m)] ELSE wire
        /\ UNCHANGED <<opened, pump, cmd_tx, pump_task, link, back,
                       serving, session, leased, executed>>

\* A reply is read.  UrbComplete and UrbUnlinked go to the request filed under
\* their number, or to nobody; all else to the request at the front of control_replies.
PumpRead(i) ==
    LET r  == Head(back[i])
        to == IF IsControl(r) THEN {Head(control[i])} ELSE Filed(i, r)
    IN  /\ Runs(i) /\ back[i] # <<>>
        /\ back' = [back EXCEPT ![i] = Tail(@)]
        /\ control' = IF IsControl(r) THEN [control EXCEPT ![i] = Tail(@)] ELSE control
        /\ pending' = [pending EXCEPT ![i] = @ \ to]
        /\ answer' = [c \in Callers |->
                        IF \E x \in to : x.from = c THEN IF r.ok THEN "ok" ELSE "refused"
                        ELSE answer[c]]
        /\ UNCHANGED <<opened, pump, queue, cmd_tx, pump_task, link, wire,
                       serving, session, leased, executed>>

\* The callers whose oneshot a pump holds, in its maps or in its channel.
Held(i) == {m.from : m \in pending[i] \cup ToSet(control[i]) \cup ToSet(queue[i])}

\* Mutation: the receiver outlives the loop, queued commands are not dropped.
PumpEndForgets(i) ==
    /\ pump[i] = "aborted" \/ (pump[i] = "running" /\ ~link[i])
    /\ pump' = [pump EXCEPT ![i] = "ended"]
    /\ answer' = [c \in Callers |->
         IF \E m \in pending[i] \cup ToSet(control[i]) : m.from = c THEN "closed" ELSE answer[c]]
    /\ pending' = [pending EXCEPT ![i] = {}]
    /\ control' = [control EXCEPT ![i] = <<>>]
    /\ link' = [link EXCEPT ![i] = FALSE]
    /\ back' = [back EXCEPT ![i] = <<>>]
    /\ UNCHANGED <<opened, queue, cmd_tx, pump_task, wire, serving, session, leased, executed>>

\* The pump ends: a read or a write failed, or it was aborted.  What it holds
\* is answered Closed or dropped, which the caller sees as Closed too; the
\* connection is closed with it.
PumpEnd(i) ==
    /\ pump[i] = "aborted" \/ (pump[i] = "running" /\ ~link[i])
    /\ pump' = [pump EXCEPT ![i] = "ended"]
    /\ answer' = [c \in Callers |-> IF c \in Held(i) THEN "closed" ELSE answer[c]]
    /\ queue' = [queue EXCEPT ![i] = <<>>]
    /\ pending' = [pending EXCEPT ![i] = {}]
    /\ control' = [control EXCEPT ![i] = <<>>]
    /\ link' = [link EXCEPT ![i] = FALSE]
    /\ back' = [back EXCEPT ![i] = <<>>]
    /\ UNCHANGED <<opened, cmd_tx, pump_task, wire, serving, session, leased, executed>>

-----------------------------------------------------------------------------
(* The server and the network: serve_session as module Session has it,     *)
(* for one device and one client.                                          *)

Respond(i, m, ok) ==
    back' = IF link[i] /\ pump[i] # "ended"
            THEN [back EXCEPT ![i] =
                    Append(@, [from |-> m.from, kind |-> m.kind, seq |-> m.seq, ok |-> ok])]
            ELSE back

Serves(i) == session[i] \in {"new", "hello", "paired"}

\* Before the Hello every other request is refused.
Greeted(i, m) == m.kind = "hello" \/ session[i] # "new"

\* The session reads the next request.  A list, attach or detach authenticates it
\* by the client's token.  A leased URB becomes a task; an attach is granted when
\* the lease is already the client's, and may be when not.
ServerRead(i) ==
    LET m == Head(wire[i])
    IN  /\ Serves(i) /\ wire[i] # <<>>
        /\ wire' = [wire EXCEPT ![i] = Tail(@)]
        /\ session' = IF m.kind \in {"list", "attach", "detach"} /\ Greeted(i, m)
                       THEN [session EXCEPT ![i] = "paired"]
                       ELSE IF m.kind = "hello" /\ session[i] = "new"
                       THEN [session EXCEPT ![i] = "hello"] ELSE session
        /\ leased' \in IF m.kind = "attach" /\ Greeted(i, m) THEN {TRUE, leased}
                       ELSE IF m.kind = "detach" /\ Greeted(i, m) THEN {FALSE} ELSE {leased}
        /\ IF m.kind = "urb" /\ leased /\ session[i] = "paired"
           THEN serving' = [serving EXCEPT ![i] = @ \cup {m}] /\ UNCHANGED back
           ELSE /\ Respond(i, m, /\ Greeted(i, m)
                                 /\ \/ m.kind \in {"hello", "list", "detach"}
                                    \/ leased' /\ session'[i] = "paired")
                /\ UNCHANGED serving
        /\ UNCHANGED <<pumpVars, link, executed>>

\* A URB task ends; a client that is gone does not stop it.
ServerComplete(i, m) ==
    /\ serving' = [serving EXCEPT ![i] = @ \ {m}]
    /\ executed' = [executed EXCEPT ![m.from] = @ + 1]
    /\ Respond(i, m, TRUE)
    /\ UNCHANGED <<pumpVars, link, wire, session, leased>>

\* The session ends some time after its connection did, by an error or by EOF,
\* and drops the leases of the client it has authenticated.
ServerTeardown(i) ==
    /\ Serves(i) /\ ~link[i]
    /\ session' = [session EXCEPT ![i] = "closed"]
    /\ wire' = [wire EXCEPT ![i] = <<>>]
    /\ leased' = (leased /\ session[i] # "paired")
    /\ UNCHANGED <<pumpVars, link, back, serving, executed>>

\* The lease goes: the device is unplugged, or another session of the same
\* client detaches it or is torn down.
Revoke ==
    /\ leased
    /\ leased' = FALSE
    /\ UNCHANGED <<pumpVars, link, wire, back, serving, session, executed>>

\* The network loses the connection.
Drop(i) ==
    /\ i <= MaxLost /\ link[i]
    /\ link' = [link EXCEPT ![i] = FALSE]
    /\ UNCHANGED <<pumpVars, wire, back, serving, session, leased, executed>>
=============================================================================
