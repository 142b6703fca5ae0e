------------------------------- MODULE Forward -------------------------------
(***************************************************************************)
(* crates/farbus-core/src/usbip_forward.rs: the USB/IP connections of the  *)
(* loopback listener, each of which asks for device lists and may import   *)
(* the device, the tasks an import spawns for URBs and unlinks, and the    *)
(* recovery of a URB whose connection was lost.                            *)
(*                                                                         *)
(* All of them share one client behind a mutex.  A URB and a device list   *)
(* only lock it to clone the client, and send later, through the sender    *)
(* that all clones share: also while a recovery replaces the connection.   *)
(* A recovery, an unlink, an attach and a detach hold the mutex until the  *)
(* server has answered.                                                    *)
(***************************************************************************)
EXTENDS ClientPump

CONSTANTS
    Importers,      \* the tasks of the USB/IP connections, handle_forward
    UrbTasks,       \* bound: URBs their peers submit
    UnlinkTasks,    \* bound: unlinks they send
    NoCaller,       \* the mutex is free; a task not spawned belongs to nobody
    MaxTries        \* rounds of reconnect_and_reattach: 8

ASSUME ForwardAssumption ==
    /\ Callers = UrbTasks \cup UnlinkTasks \cup Importers
    /\ UrbTasks \cap UnlinkTasks = {}
    /\ Importers \cap (UrbTasks \cup UnlinkTasks) = {}
    /\ NoCaller \notin Callers /\ IsFiniteSet(Callers)
    /\ MaxTries \in Nat \ {0}

VARIABLES
    pc,         \* where each task is
    lock,       \* holder of the client mutex
    attempt,    \* URB task -> calls made that failed
    tries,      \* URB task -> rounds of its recovery
    tx,         \* task -> the pump whose sender it has taken out of cmd_tx, or 0
    owner,      \* URB or unlink task -> the import it was spawned by
    seq,        \* URB or unlink task -> seqnum or unlink_seqnum of its packet
    writer      \* importer -> its writer_task: up, its peer gone, or ended

packetVars == <<owner, seq, writer>>
taskVars == <<pc, lock, attempt, tries, tx, packetVars>>
forwardVars == <<clientVars, taskVars>>

\* idle: not spawned.  call: waits for the mutex.  cloned: has its own clone of
\* the client.  tx: has a sender.  urb, unlink: waits for the answer.  recover to
\* attach: reconnect_and_reattach.  reply: has a packet for the peer, which waits
\* for room in the channel or is in it.  list to detach: handle_forward.
States == {"idle", "call", "cloned", "tx", "urb", "recover", "connected", "swap",
           "swapped", "hello", "attach", "unlink", "reply", "list", "importing",
           "closing", "detach", "done"}

Spawned == UrbTasks \cup UnlinkTasks

ForwardTypeOK ==
    /\ PumpTypeOK
    /\ pc \in [Callers -> States]
    /\ lock \in Callers \cup {NoCaller}
    /\ attempt \in [UrbTasks -> 0..1]
    /\ tries \in [UrbTasks -> 0..MaxTries]
    /\ tx \in [Callers -> 0..MaxPumps]
    /\ owner \in [Spawned -> Importers \cup {NoCaller}]
    /\ seq \in [Spawned -> 0..MaxSeq]
    /\ writer \in [Importers -> {"up", "gone", "ended"}]

ForwardInit ==
    /\ PumpInit
    /\ pc = [c \in Callers |-> "idle"]
    /\ lock = NoCaller
    /\ attempt = [c \in UrbTasks |-> 0]
    /\ tries = [c \in UrbTasks |-> 0]
    /\ tx = [c \in Callers |-> 0]
    /\ owner = [c \in Spawned |-> NoCaller]
    /\ seq = [c \in Spawned |-> 0]
    /\ writer = [h \in Importers |-> "up"]

\* Task c waits at `state` and its request has been answered with `a`.
Got(c, state, a) == pc[c] = state /\ answer[c] = a
Returned(c, state) == pc[c] = state /\ answer[c] \in {"ok", "refused", "closed"}

GoTo(c, state) == pc' = [pc EXCEPT ![c] = state]

\* The answer is taken out of the oneshot.
Take(c) ==
    /\ answer' = [answer EXCEPT ![c] = "none"]
    /\ UNCHANGED <<opened, pump, queue, pending, control, cmd_tx, pump_task, remoteVars>>
Acquire(c) == lock = NoCaller /\ lock' = c
Release(c) == lock' = NoCaller

\* A call on a clone of the client, in three steps with nothing held between them:
\* client.lock().await.clone(), the clone of cmd_tx in send_cmd, and the send.
CloneClient(c, state) ==
    /\ pc[c] = state /\ lock = NoCaller
    /\ GoTo(c, "cloned")
    /\ UNCHANGED <<clientVars, lock, attempt, tries, tx, packetVars>>

TakeTx(c) ==
    /\ pc[c] = "cloned"
    /\ tx' = [tx EXCEPT ![c] = cmd_tx]
    /\ GoTo(c, "tx")
    /\ UNCHANGED <<clientVars, lock, attempt, tries, packetVars>>

SendTx(c, kind, n) ==
    /\ pc[c] = "tx"
    /\ SendOn(c, kind, n, tx[c])
    /\ tx' = [tx EXCEPT ![c] = 0]
    /\ GoTo(c, kind)
    /\ UNCHANGED <<lock, attempt, tries, packetVars>>

-----------------------------------------------------------------------------
(* urb_with_recovery.                                                      *)

\* One call of urb_with_length on a clone of the client.
UrbCall(c) == CloneClient(c, "call") \/ TakeTx(c) \/ SendTx(c, "urb", seq[c])

\* A completion, a refusal, or a second loss ends it: there is a RET_SUBMIT to send.
UrbEnds(c) ==
    /\ \/ Got(c, "urb", "ok") \/ Got(c, "urb", "refused")
       \/ Got(c, "urb", "closed") /\ attempt[c] = 1
    /\ GoTo(c, "reply")
    /\ Take(c)
    /\ UNCHANGED <<lock, attempt, tries, tx, packetVars>>

\* Mutation: the attempt is not counted.
UrbLostAgain(c) ==
    /\ Got(c, "urb", "closed") /\ attempt[c] = 0
    /\ GoTo(c, "recover")
    /\ Take(c)
    /\ UNCHANGED <<lock, attempt, tries, tx, packetVars>>

\* The first loss of the connection starts the recovery.
UrbLost(c) ==
    /\ Got(c, "urb", "closed") /\ attempt[c] = 0
    /\ attempt' = [attempt EXCEPT ![c] = 1]
    /\ GoTo(c, "recover")
    /\ Take(c)
    /\ UNCHANGED <<lock, tries, tx, packetVars>>

\* A round of the recovery has failed: sleep and go round again, or give up.
NextRound(c) ==
    /\ tries' = [tries EXCEPT ![c] = @ + 1]
    /\ GoTo(c, IF tries'[c] < MaxTries THEN "recover" ELSE "reply")

\* reconnect(): with the mutex held for the whole round.
Reconnect(c) ==
    /\ pc[c] = "recover"
    /\ Acquire(c)
    /\ Connect
    /\ GoTo(c, "connected")
    /\ UNCHANGED <<attempt, tries, tx, packetVars>>

\* The server cannot be reached; the mutex is released again.
ReconnectFails(c) ==
    /\ pc[c] = "recover" /\ lock = NoCaller
    /\ NextRound(c)
    /\ UNCHANGED <<clientVars, lock, attempt, tx, packetVars>>

ReconnectAborts(c) ==
    /\ pc[c] = "connected"
    /\ AbortOld
    /\ GoTo(c, "swap")
    /\ UNCHANGED <<lock, attempt, tries, tx, packetVars>>

ReconnectSwaps(c) ==
    /\ pc[c] = "swap"
    /\ SwapTx
    /\ GoTo(c, "swapped")
    /\ UNCHANGED <<lock, attempt, tries, tx, packetVars>>

ReconnectHello(c) ==
    /\ pc[c] = "swapped"
    /\ Call(c, "hello")
    /\ GoTo(c, "hello")
    /\ UNCHANGED <<lock, attempt, tries, tx, packetVars>>

Reattach(c) ==
    /\ Got(c, "hello", "ok")
    /\ Call(c, "attach")
    /\ GoTo(c, "attach")
    /\ UNCHANGED <<lock, attempt, tries, tx, packetVars>>

\* Reattached: the URB is submitted once more.
Recovered(c) ==
    /\ c \in UrbTasks /\ Got(c, "attach", "ok")
    /\ Release(c)
    /\ GoTo(c, "call")
    /\ Take(c)
    /\ UNCHANGED <<attempt, tries, tx, packetVars>>

\* A rejected attach ends the recovery, and with it the task.
ReattachRejected(c) ==
    /\ c \in UrbTasks /\ Got(c, "attach", "refused")
    /\ Release(c)
    /\ GoTo(c, "reply")
    /\ Take(c)
    /\ UNCHANGED <<attempt, tries, tx, packetVars>>

\* The new connection was lost too.
RoundLost(c) ==
    /\ c \in UrbTasks /\ (Got(c, "hello", "closed") \/ Got(c, "attach", "closed"))
    /\ Release(c)
    /\ NextRound(c)
    /\ Take(c)
    /\ UNCHANGED <<attempt, tx, packetVars>>

-----------------------------------------------------------------------------
(* The unlink task: any failure is answered 0.                             *)

Unlink(c) ==
    /\ pc[c] = "call"
    /\ Acquire(c)
    /\ CallSeq(c, "unlink", seq[c])
    /\ GoTo(c, "unlink")
    /\ UNCHANGED <<attempt, tries, tx, packetVars>>

\* Mutation: the guard of the mutex is kept.
UnlinkKeepsLock(c) ==
    /\ Returned(c, "unlink")
    /\ GoTo(c, "reply")
    /\ Take(c)
    /\ UNCHANGED <<lock, attempt, tries, tx, packetVars>>

UnlinkEnds(c) ==
    /\ Returned(c, "unlink")
    /\ Release(c)
    /\ GoTo(c, "reply")
    /\ Take(c)
    /\ UNCHANGED <<attempt, tries, tx, packetVars>>

-----------------------------------------------------------------------------
(* handle_forward and forward_urbs, for the USB/IP connection h.           *)

\* OP_REQ_DEVLIST and OP_REQ_IMPORT ask for the live device list, on a clone of
\* the client and without holding the mutex.
ListRequest(h) == CloneClient(h, "idle")
ListDevices(h) == TakeTx(h) \/ SendTx(h, "list", 0)

\* The list, or an empty one, was all the peer wanted, or the device to import is
\* not on it: the peer is told and may ask again.
ListEnds(h) ==
    /\ Returned(h, "list")
    /\ GoTo(h, "idle")
    /\ Take(h)
    /\ UNCHANGED <<lock, attempt, tries, tx, packetVars>>

ImportAttach(h) ==
    /\ Got(h, "list", "ok")
    /\ Acquire(h)
    /\ Call(h, "attach")
    /\ GoTo(h, "attach")
    /\ UNCHANGED <<attempt, tries, tx, packetVars>>

\* Attached.  A peer that is gone by now is not detached again.
ImportAttached(h) ==
    /\ Got(h, "attach", "ok")
    /\ Release(h)
    /\ GoTo(h, "importing") \/ GoTo(h, "done")
    /\ Take(h)
    /\ UNCHANGED <<attempt, tries, tx, packetVars>>

ImportRejected(h) ==
    /\ Got(h, "attach", "refused") \/ Got(h, "attach", "closed")
    /\ Release(h)
    /\ GoTo(h, "idle")
    /\ Take(h)
    /\ UNCHANGED <<attempt, tries, tx, packetVars>>

\* A packet of the peer spawns task c.
Spawn(h, c, n) ==
    /\ pc[h] = "importing" /\ pc[c] = "idle"
    /\ GoTo(c, "call")
    /\ owner' = [owner EXCEPT ![c] = h]
    /\ seq' = [seq EXCEPT ![c] = n]
    /\ UNCHANGED <<clientVars, lock, attempt, tries, tx, writer>>

\* CMD_SUBMIT.  Every peer numbers its own URBs.
Submit(h, c) == Spawn(h, c, 1 + Cardinality({d \in UrbTasks : owner[d] = h}))

\* CMD_UNLINK names a URB that the same peer has submitted.
CmdUnlink(h, c) == \E u \in UrbTasks : owner[u] = h /\ Spawn(h, c, seq[u])

\* The peer closes its half, or sends what cannot be decoded: the reader stops.
ReaderStops(h) ==
    /\ pc[h] = "importing"
    /\ GoTo(h, "closing")
    /\ UNCHANGED <<clientVars, lock, attempt, tries, tx, packetVars>>

\* The peer goes: the reader meets the end of the stream, behind the packets the
\* peer had sent, and the writer will meet an error.
PeerGoes(h) ==
    /\ pc[h] \in {"importing", "closing"} /\ writer[h] = "up"
    /\ GoTo(h, "closing")
    /\ writer' = [writer EXCEPT ![h] = "gone"]
    /\ UNCHANGED <<clientVars, lock, attempt, tries, tx, owner, seq>>

\* The packet of task c is written, or dropped because the writer has ended.
RetSent(c) ==
    /\ pc[c] = "reply"
    /\ GoTo(c, "done")
    /\ UNCHANGED <<clientVars, lock, attempt, tries, tx, packetVars>>

\* A write to a peer that has gone fails: the writer stops, without waiting for
\* the tasks.
WriterFails(h) ==
    /\ writer[h] = "gone" /\ \E c \in Spawned : owner[c] = h /\ pc[c] = "reply"
    /\ writer' = [writer EXCEPT ![h] = "ended"]
    /\ UNCHANGED <<clientVars, pc, lock, attempt, tries, tx, owner, seq>>

\* Mutation: the reader does not drop its own sender.
WriterDoneNever(h) == writer[h] = "ended"

\* The writer has ended: early, or because the last task has dropped its sender and
\* all of their packets are written.
WriterDone(h) == writer[h] = "ended" \/ \A c \in Spawned : owner[c] = h => pc[c] = "done"

ImportDetach(h) ==
    /\ pc[h] = "closing" /\ WriterDone(h)
    /\ Acquire(h)
    /\ Call(h, "detach")
    /\ GoTo(h, "detach")
    /\ UNCHANGED <<attempt, tries, tx, packetVars>>

ImportEnds(h) ==
    /\ Returned(h, "detach")
    /\ Release(h)
    /\ GoTo(h, "done")
    /\ Take(h)
    /\ UNCHANGED <<attempt, tries, tx, packetVars>>

-----------------------------------------------------------------------------
UrbNext(c) ==
    \/ UrbCall(c) \/ UrbEnds(c) \/ UrbLost(c)
    \/ Reconnect(c) \/ ReconnectFails(c) \/ ReconnectAborts(c) \/ ReconnectSwaps(c)
    \/ ReconnectHello(c) \/ Reattach(c) \/ Recovered(c) \/ ReattachRejected(c) \/ RoundLost(c)

UnlinkNext(c) == Unlink(c) \/ UnlinkEnds(c)

\* What handle_forward does by itself, and what the USB/IP peer makes it do.
ImportNext(h) ==
    \/ ListDevices(h) \/ ListEnds(h) \/ ImportAttach(h) \/ ImportAttached(h) \/ ImportRejected(h)
    \/ ImportDetach(h) \/ ImportEnds(h)

PeerNext(h) ==
    \/ ListRequest(h) \/ ReaderStops(h) \/ PeerGoes(h) \/ WriterFails(h)
    \/ \E c \in UrbTasks : Submit(h, c)
    \/ \E c \in UnlinkTasks : CmdUnlink(h, c)

PumpNext(i) == PumpWrite(i) \/ PumpRead(i) \/ PumpEnd(i)
UrbServed(i, c) == \E m \in serving[i] : m.from = c /\ ServerComplete(i, m)
ServerNext(i) == ServerRead(i) \/ \E c \in UrbTasks : UrbServed(i, c)

ForwardNext ==
    \/ \E c \in UrbTasks : UrbNext(c)
    \/ \E c \in UnlinkTasks : UnlinkNext(c)
    \/ \E c \in Spawned : RetSent(c)
    \/ \E h \in Importers : ImportNext(h) \/ PeerNext(h)
    \/ /\ Revoke \/ \E i \in Pumps : PumpNext(i) \/ ServerNext(i) \/ ServerTeardown(i) \/ Drop(i)
       /\ UNCHANGED taskVars

ForwardSpec == ForwardInit /\ [][ForwardNext]_forwardVars

\* Fairness.  Tokio polls every task that is ready, select! takes its ready
\* branches in random order, and a mutex is handed on in FIFO order.  A connection
\* that is up delivers, and a server at its other end runs: it reads, and carries
\* out its URBs, each in a task of its own.  A peer that has not gone may leave its
\* packets unread, the loss of a connection may go unnoticed for ever, and the
\* server's teardown owes nothing.
RetDropped(h) == writer[h] # "up" /\ \E c \in Spawned : owner[c] = h /\ RetSent(c)
Carries(i) == PumpWrite(i) \/ PumpRead(i) \/ (pump[i] = "aborted" /\ PumpEnd(i)) \/ ServerNext(i)

ForwardFairness ==
    /\ \A c \in UrbTasks : WF_forwardVars(UrbNext(c))
    /\ \A c \in UnlinkTasks : WF_forwardVars(UnlinkNext(c))
    /\ \A h \in Importers : WF_forwardVars(ImportNext(h) \/ RetDropped(h))
    /\ \A i \in Pumps : WF_forwardVars(Carries(i) /\ UNCHANGED taskVars)

FairForwardSpec == ForwardSpec /\ ForwardFairness

\* An assumption on the network, which the code cannot see to, as run_client_pump has
\* no timeout and no keepalive: the client is told of the connections that are lost.
LossNoticed == \A i \in Pumps : WF_forwardVars(PumpEnd(i) /\ UNCHANGED taskVars)

-----------------------------------------------------------------------------
(* Properties.                                                             *)

\* How many of the first k messages are control messages.
Rank(msgs, k) == Cardinality({j \in 1..k : IsControl(msgs[j])})

\* The replies under way, b, are for the requests at the front of the FIFO u, in
\* that order; the requests under way, w, are those that follow.
RepliesInStep(u, b) ==
    /\ Rank(b, Len(b)) <= Len(u)
    /\ \A k \in 1..Len(b) : IsControl(b[k]) =>
         u[Rank(b, k)] = [from |-> b[k].from, kind |-> b[k].kind, seq |-> b[k].seq]

RequestsInStep(u, b, w) ==
    /\ Len(u) = Rank(b, Len(b)) + Rank(w, Len(w))
    /\ \A k \in 1..Len(w) : IsControl(w[k]) => u[Rank(b, Len(b)) + Rank(w, k)] = w[k]

\* Control messages carry no sequence number: the reply at the head of the
\* stream is given to the request at the front of control_replies.  On a
\* connection that works the two ends agree: the replies under way, then the
\* requests under way, are those of the waiting callers, in that order.
ControlInStep ==
    \A i \in Pumps : Runs(i) /\ link[i] =>
        /\ RepliesInStep(control[i], back[i])
        /\ RequestsInStep(control[i], back[i], wire[i])

\* No caller waits in vain, and none is answered while its request is still held:
\* it waits iff a pump that has not ended has it.  A reconnect aborts a pump and replaces
\* cmd_tx in two steps, while others clone cmd_tx and send to the old pump or the new one.
WaiterHeld ==
    \A c \in Callers : answer[c] = "waiting" <=>
        \E i \in Pumps : c \in Held(i) /\ Runs(i)

\* The doc comment of urb_with_recovery: retrying exactly once.  The server
\* carries out no URB more than twice, whatever the connections do (that it does so
\* twice is at odds with another document, see NotReplayed).
AtMostTwice == \A c \in UrbTasks : executed[c] <= 2

\* A peer is told that its URB was carried out only when it was, or when a URB
\* of another import with the same number was: the pump looks at nothing else,
\* whatever connections the URB has been on and whatever unlinks it meets.
CompletionReal ==
    \A c \in UrbTasks : Got(c, "urb", "ok") =>
        \E d \in UrbTasks :
            /\ executed[d] > 0
            /\ seq[d] = seq[c]
            /\ (owner[d] = owner[c] => d = c)

\* docs/COMPATIBILITY.md, "Experimental": a failed in-flight USB/IP request
\* receives a terminal error and is not blindly replayed.  A URB that the server
\* has carried out is not carried out again.
NotReplayed == \A c \in UrbTasks : executed[c] <= 1

\* Every URB that the peer submits gets its answer, when the network has lost
\* connections noticed (LossNoticed): also when two URBs recover from the same loss,
\* reconnect in turn and cut each other off.
UrbAnswered == \A c \in UrbTasks : pc[c] = "call" ~> pc[c] = "reply"

\* An import whose peer has gone gets through to its detach (or fails trying), under
\* the same assumption, although it waits first for its tasks and their packets, and
\* then for the mutex they use.
ImportCloses ==
    \A h \in Importers : pc[h] = "closing" /\ writer[h] # "up" ~> pc[h] = "done"

\* docs/WINDOWS.md: if the TLS session drops, the in-flight URB is retried
\* once.  The retry runs on a connection that works until it is answered or
\* that connection drops: the client does not cut it off itself.
RetryNotCutOff ==
    [][\A i \in Pumps, c \in UrbTasks :
         /\ pump[i] = "running" /\ pump'[i] = "aborted" /\ link[i]
         /\ c \in Held(i)
         => attempt[c] = 0]_forwardVars
=============================================================================
