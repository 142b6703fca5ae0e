------------------------------ MODULE Transport ------------------------------
(***************************************************************************)
(* The bytes between a FarBusClient and its session: FramedReader and      *)
(* write_message of crates/farbus-core/src/frame.rs, the pump of client.rs *)
(* that writes and reads in one task, and the reader, the writer and the   *)
(* bounded outgoing queue of session.rs.                                   *)
(*                                                                         *)
(* A message is [id, kind, len], where id is the call it belongs to and    *)
(* len the length of its payload.  A byte is [msg, at]: the at-th byte of  *)
(* the frame of msg.  Which reply an inline request or a URB gets, and     *)
(* the permits of the URB tasks, are in Session.                           *)
(***************************************************************************)
EXTENDS Naturals, Sequences, FiniteSets, SequencesExt

CONSTANTS
    HEADER_LEN,     \* bytes of a frame before its payload
    MAX_PAYLOAD,    \* longest payload that is sent or accepted
    SocketCap,      \* bytes a direction of the connection holds
    OutCap,         \* capacity of a session's outgoing queue
    MaxCalls,       \* bound: calls of the client program
    InlineLens,     \* lengths of the replies the server's reader sends itself
    UrbLens         \* lengths of URBs and of their completions

ASSUME TransportAssumption ==
    /\ HEADER_LEN \in Nat \ {0} /\ MAX_PAYLOAD \in Nat
    /\ SocketCap \in Nat \ {0} /\ OutCap \in Nat \ {0}
    /\ MaxCalls \in Nat
    /\ InlineLens \subseteq Nat /\ UrbLens \subseteq 0..MAX_PAYLOAD

Dirs == {"up", "down"}
Calls == 1..MaxCalls
Lens == InlineLens \cup UrbLens \cup {0}
Message == [id : Calls, kind : {"inline", "urb"}, len : Lens]
FrameLen(m) == HEADER_LEN + m.len
Frame(m) == [k \in 1..FrameLen(m) |-> [msg |-> m, at |-> k]]

VARIABLES
    result,     \* call -> what it has returned
    cmds,       \* commands in the channel of the pump
    waiting,    \* calls the pump has written or is writing and not answered
    pump,       \* the client's pump runs
    session,    \* the server's session: closed, open, or its reader is done
    link,       \* the connection is up
    writing,    \* direction -> rest of the frame that write_all is writing
    chan,       \* direction -> bytes on the way
    buffer,     \* direction -> FramedReader::buffer of the receiving end
    reply,      \* reply for which the server's reader waits for room: 0 or 1
    tasks,      \* completions that URB tasks have yet to put in the queue
    out,        \* the outgoing queue of the session
    sent, got   \* history: messages given to and taken from the connection

transportVars == <<result, cmds, waiting, pump, session, link, writing, chan, buffer,
                   reply, tasks, out, sent, got>>

Bytes == [msg : Message, at : Nat]

TransportTypeOK ==
    /\ result \in [Calls -> {"none", "waiting", "ok", "closed"}]
    /\ cmds \in Seq(Message) /\ waiting \subseteq Calls
    /\ pump \in BOOLEAN /\ session \in {"closed", "open", "eof"} /\ link \in BOOLEAN
    /\ writing \in [Dirs -> Seq(Bytes)] /\ buffer \in [Dirs -> Seq(Bytes)]
    /\ chan \in [Dirs -> Seq(Bytes)] /\ \A d \in Dirs : Len(chan[d]) <= SocketCap
    /\ reply \in Seq(Message) /\ Len(reply) <= 1
    /\ tasks \subseteq Message
    /\ out \in Seq(Message) /\ Len(out) <= OutCap
    /\ sent \in [Dirs -> Seq(Message)] /\ got \in [Dirs -> Seq(Message)]

Empty == [d \in Dirs |-> <<>>]

Idle ==
    /\ result = [c \in Calls |-> "none"]
    /\ cmds = <<>> /\ waiting = {}
    /\ writing = Empty /\ chan = Empty /\ buffer = Empty
    /\ reply = <<>> /\ tasks = {} /\ out = <<>>
    /\ sent = Empty /\ got = Empty

TransportInit == Idle /\ pump = FALSE /\ session = "closed" /\ link = FALSE
TransportConnected == Idle /\ pump = TRUE /\ session = "open" /\ link = TRUE

\* from_stream and serve_session: both ends start with nothing buffered.
Open ==
    /\ pump' = TRUE /\ session' = "open" /\ link' = TRUE
    /\ writing' = Empty /\ chan' = Empty /\ buffer' = Empty
    /\ sent' = Empty /\ got' = Empty
    /\ reply' = <<>> /\ tasks' = {} /\ out' = <<>>
    /\ UNCHANGED <<result, cmds, waiting>>

-----------------------------------------------------------------------------
(* FramedReader and write_message.                                         *)

\* The length field of the header, wherever the buffer starts.
PayloadLen(b) == IF b[HEADER_LEN].at = HEADER_LEN THEN b[HEADER_LEN].msg.len
                 ELSE MAX_PAYLOAD + 1

TooLarge(b) == Len(b) >= HEADER_LEN /\ PayloadLen(b) > MAX_PAYLOAD

bytes_needed(b) ==
    IF Len(b) < HEADER_LEN THEN HEADER_LEN - Len(b)
    ELSE LET rest == HEADER_LEN + PayloadLen(b) - Len(b) IN IF rest > 1 THEN rest ELSE 1

HasFrame(b) ==
    /\ Len(b) >= HEADER_LEN /\ PayloadLen(b) <= MAX_PAYLOAD
    /\ Len(b) >= HEADER_LEN + PayloadLen(b)

\* decode, on what is drained of the buffer
Drained(b) == SubSeq(b, 1, HEADER_LEN + PayloadLen(b))
Malformed(b) == HasFrame(b) /\ Drained(b) # Frame(b[1].msg)

\* The reader of direction d takes a chunk, which it keeps when the rest of the
\* frame is not there yet.
Chunk(d, n) ==
    /\ chan[d] # <<>>
    /\ n <= bytes_needed(buffer[d]) /\ n <= Len(chan[d])
    /\ chan' = [chan EXCEPT ![d] = SubSeq(@, n + 1, Len(@))]

Buffered(d, n) == buffer[d] \o SubSeq(chan[d], 1, n)

\* (Mutation) A frame that was decoded stays in the buffer.
StoreUndrained(d, b) == buffer' = [buffer EXCEPT ![d] = b]

Store(d, b) ==
    buffer' = [buffer EXCEPT ![d] =
        IF HasFrame(b) THEN SubSeq(b, Len(Drained(b)) + 1, Len(b)) ELSE b]

Delivered(d, b) ==
    got' = [got EXCEPT ![d] = IF HasFrame(b) THEN Append(@, b[1].msg) ELSE @]

\* write_all gets rid of as many bytes as the connection takes.
WritePart(d, n) ==
    /\ link
    /\ n <= Len(writing[d]) /\ n <= SocketCap - Len(chan[d])
    /\ chan' = [chan EXCEPT ![d] = @ \o SubSeq(writing[d], 1, n)]
    /\ writing' = [writing EXCEPT ![d] = SubSeq(@, n + 1, Len(@))]
    /\ UNCHANGED <<result, cmds, waiting, pump, session, link, buffer, reply, tasks, out, sent, got>>

Write(d, m) ==
    /\ writing' = [writing EXCEPT ![d] = Frame(m)]
    /\ sent' = [sent EXCEPT ![d] = Append(@, m)]

-----------------------------------------------------------------------------
(* The client.                                                             *)

\* A call whose pump has ended is refused by the channel.
Call(c, kind, len) ==
    /\ result[c] = "none" /\ \A b \in 1..(c - 1) : result[b] # "none"
    /\ IF pump
       THEN /\ result' = [result EXCEPT ![c] = "waiting"]
            /\ cmds' = Append(cmds, [id |-> c, kind |-> kind, len |-> len])
       ELSE /\ result' = [result EXCEPT ![c] = "closed"]
            /\ UNCHANGED cmds
    /\ UNCHANGED <<waiting, pump, session, link, writing, chan, buffer, reply, tasks, out, sent, got>>

\* (Mutation) The reader is made anew for every message.
CancelledAnew(b) == <<>>

\* What a read that a command cancels leaves in the buffer.
Cancelled(b) == b

\* A command wins the select! of the pump: the read that was under way is
\* dropped, and the pump does not read again until the command is written.
PumpCommand ==
    /\ pump /\ writing["up"] = <<>> /\ cmds # <<>>
    /\ waiting' = waiting \cup {Head(cmds).id}
    /\ cmds' = Tail(cmds)
    /\ buffer' = [buffer EXCEPT !["down"] = Cancelled(@)]
    /\ Write("up", Head(cmds))
    /\ UNCHANGED <<result, pump, session, link, chan, reply, tasks, out, got>>

\* The read wins.
PumpReads(n) ==
    LET b == Buffered("down", n)
        m == b[1].msg
    IN  /\ pump /\ writing["up"] = <<>>
        /\ Chunk("down", n) /\ ~TooLarge(b) /\ ~Malformed(b)
        /\ Store("down", b) /\ Delivered("down", b)
        /\ IF HasFrame(b) /\ m.id \in waiting
           THEN /\ waiting' = waiting \ {m.id}
                /\ result' = [result EXCEPT ![m.id] = "ok"]
           ELSE UNCHANGED <<waiting, result>>
        /\ UNCHANGED <<cmds, pump, session, link, writing, reply, tasks, out, sent>>

\* A frame that cannot be read, the end of the stream, or a write that fails.
Garbled(d) == \E n \in 1..Len(chan[d]) :
    /\ n <= bytes_needed(buffer[d])
    /\ TooLarge(Buffered(d, n)) \/ Malformed(Buffered(d, n))

\* The pump ends and answers everyone it holds or has yet to hear from.
PumpEnds ==
    /\ pump
    /\ \/ writing["up"] = <<>> /\ (Garbled("down") \/ (~link /\ chan["down"] = <<>>))
       \/ writing["up"] # <<>> /\ ~link
    /\ pump' = FALSE /\ link' = FALSE
    /\ result' = [c \in Calls |-> IF result[c] = "waiting" THEN "closed" ELSE result[c]]
    /\ cmds' = <<>> /\ waiting' = {}
    /\ writing' = [writing EXCEPT !["up"] = <<>>]
    /\ UNCHANGED <<session, chan, buffer, reply, tasks, out, sent, got>>

-----------------------------------------------------------------------------
(* The server.                                                             *)


OutRoom == Len(out) < OutCap

\* A request is answered by the reader itself, or by a task of its own.
ReaderReads(n, len) ==
    LET b == Buffered("up", n)
        m == b[1].msg
    IN  /\ session = "open" /\ reply = <<>>
        /\ Chunk("up", n) /\ ~TooLarge(b) /\ ~Malformed(b)
        /\ Store("up", b) /\ Delivered("up", b)
        /\ IF HasFrame(b)
           THEN IF m.kind = "urb"
                THEN len \in UrbLens /\ tasks' = tasks \cup {[m EXCEPT !.len = len]} /\ UNCHANGED reply
                ELSE len \in InlineLens /\ reply' = <<[m EXCEPT !.len = len]>> /\ UNCHANGED tasks
           ELSE len = 0 /\ UNCHANGED <<reply, tasks>>
        /\ UNCHANGED <<result, cmds, waiting, pump, session, link, writing, out, sent>>

ReaderReplies ==
    /\ session = "open" /\ reply # <<>> /\ OutRoom
    /\ out' = out \o reply
    /\ reply' = <<>>
    /\ UNCHANGED <<result, cmds, waiting, pump, session, link, writing, chan, buffer, tasks, sent, got>>

TaskReplies(m) ==
    /\ m \in tasks /\ OutRoom
    /\ out' = Append(out, m)
    /\ tasks' = tasks \ {m}
    /\ UNCHANGED <<result, cmds, waiting, pump, session, link, writing, chan, buffer, reply, sent, got>>

\* Both halves of a session are dropped together with its stream.
Ended ==
    /\ session' = "closed" /\ link' = FALSE
    /\ writing' = [writing EXCEPT !["down"] = <<>>]
    /\ reply' = <<>> /\ tasks' = {} /\ out' = <<>>
    /\ UNCHANGED <<result, cmds, waiting, pump, chan, buffer, sent, got>>

WriterTakes ==
    /\ session # "closed" /\ writing["down"] = <<>> /\ out # <<>>
    /\ Head(out).len <= MAX_PAYLOAD
    /\ Write("down", Head(out))
    /\ out' = Tail(out)
    /\ UNCHANGED <<result, cmds, waiting, pump, session, link, chan, buffer, reply, tasks, got>>

\* encode refuses the message at the head of the queue, and the session ends.
WriterRefuses ==
    /\ session # "closed" /\ writing["down"] = <<>> /\ out # <<>>
    /\ Head(out).len > MAX_PAYLOAD
    /\ Ended

\* The reader meets the end of the stream, and waits for the writer.
ReaderEof ==
    /\ session = "open" /\ reply = <<>> /\ ~link /\ chan["up"] = <<>>
    /\ session' = "eof"
    /\ UNCHANGED <<result, cmds, waiting, pump, link, writing, chan, buffer, reply, tasks, out, sent, got>>

\* The writer fails, or has nothing left to write; or the reader meets a frame
\* that it cannot read.
SessionEnds ==
    /\ \/ session # "closed" /\ ~link /\ writing["down"] # <<>>
       \/ session = "eof" /\ writing["down"] = <<>> /\ out = <<>> /\ tasks = {}
       \/ session = "open" /\ reply = <<>> /\ Garbled("up")
    /\ Ended

\* The network loses the connection, and with it what was last on the way.
Lose ==
    /\ link
    /\ link' = FALSE
    /\ \E up \in 0..Len(chan["up"]), down \in 0..Len(chan["down"]) :
         chan' = [d \in Dirs |-> SubSeq(chan[d], 1, IF d = "up" THEN up ELSE down)]
    /\ UNCHANGED <<result, cmds, waiting, pump, session, writing, buffer, reply, tasks, out, sent, got>>

PumpStep ==
    \/ PumpCommand
    \/ \E n \in 1..SocketCap : PumpReads(n) \/ WritePart("up", n)
    \/ PumpEnds

SessionStep ==
    \/ \E n \in 1..SocketCap : WritePart("down", n) \/ \E len \in Lens : ReaderReads(n, len)
    \/ ReaderReplies
    \/ \E m \in tasks : TaskReplies(m)
    \/ WriterTakes \/ WriterRefuses
    \/ ReaderEof \/ SessionEnds

-----------------------------------------------------------------------------

\* In both directions messages arrive whole, in order and once, however the
\* bytes are split up, whatever a select! cancels, and wherever the connection
\* breaks (FramedReader): the abstract MessageLink.
AbstractLink == INSTANCE MessageLink WITH Directions <- Dirs, Messages <- Message
ImplementsMessageLink == AbstractLink!Spec

\* Two ends that speak the protocol never refuse each other's frames: a frame
\* is never too large or malformed for the end that reads it (frame.rs 43-80).
FramesAccepted == ~Garbled("up") /\ ~Garbled("down")

\* Calls that have not returned.  Nothing in the code bounds them: the forwarder
\* spawns a task for every packet it reads.
Outstanding == {c \in Calls : result[c] = "waiting"}

\* More calls than the outgoing queue, the writer and the server's reader hold.
Crowded == Cardinality(Outstanding) > OutCap + 2

=============================================================================
