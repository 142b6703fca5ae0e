------------------------------ MODULE UsbipProxy -----------------------------
(***************************************************************************)
(* crates/farbus-core/src/usbip_proxy.rs: the loopback USB/IP listener of  *)
(* the server.  A connection works on the devices that were in the         *)
(* inventory when it was accepted, while the hotplug loop changes them.    *)
(*                                                                         *)
(* A device is asked for by its key.  Requests of a connection are         *)
(* numbered in the order in which they are read.  complete_urb is pure, so *)
(* of a completion only the fact that it is queued is kept.                *)
(***************************************************************************)
EXTENDS DeviceInventory, Sequences

CONSTANTS
    Conns,          \* connections of local USB/IP clients
    MaxRequests,    \* bound: requests on a connection
    ProxyOut        \* capacity of its outgoing channel, 256 in the code

ASSUME ProxyAssumption == MaxRequests \in Nat /\ ProxyOut \in Nat \ {0}

Requests == 1..MaxRequests

VARIABLES
    conn,       \* where handle_client is
    peer,       \* the client has not closed
    snap,       \* ids and keys of the exported devices when it was accepted
    serves,     \* the device it imported, 0 and NoDevice for none
    asked,      \* requests read so far
    urbs,       \* requests with a task of their own
    out,        \* the outgoing channel
    writer,     \* the writer task runs
    answered    \* request -> answers the client was sent

proxyVars == <<conn, peer, snap, serves, asked, urbs, out, writer, answered>>

Choice == [id : Ids \cup {0}, key : Keys \cup {NoDevice}]

ProxyTypeOK ==
    /\ conn \in [Conns -> {"none", "accepted", "managing", "urbs", "draining", "ended"}]
    /\ peer \in [Conns -> BOOLEAN]
    /\ snap \in [Conns -> SUBSET Choice] /\ serves \in [Conns -> Choice]
    /\ asked \in [Conns -> 0..MaxRequests]
    /\ urbs \in [Conns -> SUBSET Requests]
    /\ out \in [Conns -> Seq(Requests)] /\ \A c \in Conns : Len(out[c]) <= ProxyOut
    /\ writer \in [Conns -> BOOLEAN]
    /\ answered \in [Conns -> [Requests -> Nat]]

ProxyInit ==
    /\ InventoryInit
    /\ conn = [c \in Conns |-> "none"] /\ peer = [c \in Conns |-> TRUE]
    /\ snap = [c \in Conns |-> {}]
    /\ serves = [c \in Conns |-> [id |-> 0, key |-> NoDevice]]
    /\ asked = [c \in Conns |-> 0] /\ urbs = [c \in Conns |-> {}]
    /\ out = [c \in Conns |-> <<>>] /\ writer = [c \in Conns |-> FALSE]
    /\ answered = [c \in Conns |-> [r \in Requests |-> 0]]

-----------------------------------------------------------------------------

\* The listener accepts, and then waits for the inventory: one at a time.
Accept(c) ==
    /\ conn[c] = "none" /\ \A d \in Conns : conn[d] # "accepted"
    /\ conn' = [conn EXCEPT ![c] = "accepted"]
    /\ UNCHANGED <<peer, snap, serves, asked, urbs, out, writer, answered>>

Snapshot(c) ==
    /\ conn[c] = "accepted"
    /\ snap' = [snap EXCEPT ![c] =
         {[id |-> i, key |-> present[i].key] :
            i \in {j \in Ids : present[j] # NoDevice /\ present[j].exported}}]
    /\ conn' = [conn EXCEPT ![c] = "managing"]
    /\ UNCHANGED <<peer, serves, asked, urbs, out, writer, answered>>

\* OP_REQ_IMPORT of a device in the snapshot.  One that is not there, and
\* OP_REQ_DEVLIST, are answered and change nothing.  After an import the
\* snapshot is not looked at again.
Import(c) ==
    /\ conn[c] = "managing"
    /\ \E d \in snap[c] : serves' = [serves EXCEPT ![c] = d]
    /\ snap' = [snap EXCEPT ![c] = {}]
    /\ conn' = [conn EXCEPT ![c] = "urbs"]
    /\ writer' = [writer EXCEPT ![c] = TRUE]
    /\ UNCHANGED <<peer, asked, urbs, out, answered>>

\* A send fails at once when the writer has gone, and waits while the channel
\* is full.
Sent(c, r) ==
    /\ writer[c] => Len(out[c]) < ProxyOut
    /\ out' = IF writer[c] THEN [out EXCEPT ![c] = Append(@, r)] ELSE out

Reads(c) ==
    /\ conn[c] = "urbs" /\ asked[c] < MaxRequests
    /\ asked' = [asked EXCEPT ![c] = @ + 1]
    /\ UNCHANGED <<conn, peer, snap, serves, writer, answered>>

CmdSubmit(c) ==
    /\ Reads(c)
    /\ urbs' = [urbs EXCEPT ![c] = @ \cup {asked[c] + 1}]
    /\ UNCHANGED out

\* The reader itself answers an unlink.
CmdUnlink(c) == Reads(c) /\ Sent(c, asked[c] + 1) /\ UNCHANGED urbs

Completes(c, r) ==
    /\ r \in urbs[c]
    /\ Sent(c, r)
    /\ urbs' = [urbs EXCEPT ![c] = @ \ {r}]
    /\ UNCHANGED <<conn, peer, snap, serves, asked, writer, answered>>

PeerCloses(c) ==
    /\ conn[c] \notin {"none", "ended"} /\ peer[c]
    /\ peer' = [peer EXCEPT ![c] = FALSE]
    /\ UNCHANGED <<conn, snap, serves, asked, urbs, out, writer, answered>>

\* The end of the stream, another version, an unknown command, or a transfer
\* that is too long.
Breaks(c) ==
    /\ conn[c] \in {"managing", "urbs"}
    /\ conn' = [conn EXCEPT ![c] = IF @ = "urbs" THEN "draining" ELSE "ended"]
    /\ UNCHANGED <<peer, snap, serves, asked, urbs, out, writer, answered>>

Eof(c) == ~peer[c] /\ Breaks(c)

Writes(c) ==
    /\ writer[c] /\ out[c] # <<>>
    /\ answered' = [answered EXCEPT ![c][Head(out[c])] = @ + 1]
    /\ out' = [out EXCEPT ![c] = Tail(@)]
    /\ UNCHANGED <<conn, peer, snap, serves, asked, urbs, writer>>

\* A write to a client that has gone fails, and the channel goes with the task.
WriteFails(c) ==
    /\ writer[c] /\ out[c] # <<>> /\ ~peer[c]
    /\ writer' = [writer EXCEPT ![c] = FALSE]
    /\ out' = [out EXCEPT ![c] = <<>>]
    /\ UNCHANGED <<conn, peer, snap, serves, asked, urbs, answered>>

\* (Mutation) The writer is not waited for.
FinishesAtOnce(c) ==
    /\ conn[c] = "draining"
    /\ conn' = [conn EXCEPT ![c] = "ended"]
    /\ writer' = [writer EXCEPT ![c] = FALSE]
    /\ UNCHANGED <<peer, snap, serves, asked, urbs, out, answered>>

\* (Mutation) The reader keeps its sender, so the writer waits for more.
FinishesHoldingSender(c) ==
    /\ conn[c] = "draining" /\ ~writer[c]
    /\ conn' = [conn EXCEPT ![c] = "ended"]
    /\ UNCHANGED <<peer, snap, serves, asked, urbs, out, writer, answered>>

\* The writer ends when the channel is empty and its last sender, the reader's
\* own or that of a task, is dropped.
Finishes(c) ==
    /\ conn[c] = "draining" /\ (writer[c] => out[c] = <<>> /\ urbs[c] = {})
    /\ conn' = [conn EXCEPT ![c] = "ended"]
    /\ writer' = [writer EXCEPT ![c] = FALSE]
    /\ UNCHANGED <<peer, snap, serves, asked, urbs, out, answered>>

ProxyStep(c) ==
    \/ Accept(c) \/ Snapshot(c) \/ Import(c) \/ CmdSubmit(c) \/ CmdUnlink(c)
    \/ \E r \in Requests : Completes(c, r)
    \/ PeerCloses(c) \/ Breaks(c) \/ Writes(c) \/ WriteFails(c) \/ Finishes(c)

Hotplug == InventoryNext /\ UNCHANGED proxyVars

ProxyNext == Hotplug \/ \E c \in Conns : ProxyStep(c) /\ UNCHANGED inventoryVars

\* Tokio runs what is ready.  A client may leave its answers unread, and so hold
\* up the writer, until it closes.
ProxyFairness ==
    \A c \in Conns :
        /\ WF_proxyVars(Snapshot(c) /\ UNCHANGED inventoryVars)
        /\ WF_proxyVars(Eof(c) /\ UNCHANGED inventoryVars)
        /\ WF_proxyVars(Finishes(c) /\ UNCHANGED inventoryVars)
        /\ WF_proxyVars(~peer[c] /\ (Writes(c) \/ WriteFails(c)) /\ UNCHANGED inventoryVars)
        /\ \A r \in Requests : WF_proxyVars(Completes(c, r) /\ UNCHANGED inventoryVars)

ProxySpec ==
    ProxyInit /\ [][ProxyNext]_<<inventoryVars, proxyVars>> /\ ProxyFairness

-----------------------------------------------------------------------------

\* A connection that goes on with the devices of long ago never takes another
\* device for the one it imported: while ids last, its id is that device's or
\* nobody's (serve_urbs has the id only, and no presence token).
ImportedIdNotReused ==
    Unsaturated => \A c \in Conns : LET i == serves[c].id IN
        i # 0 => present[i] = NoDevice \/ present[i].key = serves[c].key

\* When a connection ends, a client that was listening has exactly one answer
\* to everything it asked, what was under way when it stopped sending included
\* (drop(out_tx) and the wait for the writer in serve_urbs).
AnsweredOnce ==
    \A c \in Conns : conn[c] = "ended" /\ peer[c] =>
        \A r \in Requests : answered[c][r] = IF r <= asked[c] THEN 1 ELSE 0

\* A connection whose client has gone does not linger: neither a full channel
\* nor a task that waits for room in it keeps the connection.
ProxyDrains == \A c \in Conns : conn[c] # "none" /\ ~peer[c] ~> conn[c] = "ended"
=============================================================================
