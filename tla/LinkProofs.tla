----------------------------- MODULE LinkProofs ------------------------------
(***************************************************************************)
(* Proofs about Link, for any number of addresses, calls, starts and       *)
(* losses and any length of headers, payloads and buffers: the identity a  *)
(* client has pinned, and the messages that a connection carries.          *)
(***************************************************************************)
EXTENDS Link, SequenceTheorems, TLAPS

(* The identity of the server.                                             *)

\* A certificate is only ever written after its key, and only where there was
\* none, unless the files have failed to be read.
FilesInOrder ==
    clean => /\ cert_file # Missing => key_file = cert_file
             /\ server \in {"save_key", "save_cert"} => cert_file = Missing /\ key = cert
             /\ server = "save_cert" => key_file = key

\* An identity that was on disk when it was pinned stays there, and is the one
\* the server loads.
PinOnDisk ==
    clean /\ kept => /\ Saved /\ cert_file = pinned
                     /\ server \notin {"save_key", "save_cert"}
                     /\ server # "down" => cert = pinned

\* A session exists only on a server that runs with the pinned identity.
SessionsPinned == served # {} => Up /\ pinned = cert

IdentityInv == FilesInOrder /\ PinOnDisk /\ SessionsPinned

LEMMA IdentityInit == Init => IdentityInv
<1> SUFFICES ASSUME Init PROVE IdentityInv
  OBVIOUS
<1>1. Cold \/ Known \/ Connected
  BY BudgetsAssumption DEF Init
<1>2. CASE Cold
  BY <1>2 DEF Cold, ColdStart, DialInit, IdentityInv, FilesInOrder, PinOnDisk, SessionsPinned
<1>3. CASE Known
  BY <1>3, ContentsAssumption DEF Known, Settled, DialInit, Saved, IdentityInv, FilesInOrder, PinOnDisk,
              SessionsPinned
<1>4. CASE Connected
  BY <1>4, ContentsAssumption DEF Connected, Settled, DialConnected, Saved, Up, IdentityInv, FilesInOrder,
              PinOnDisk, SessionsPinned
<1> QED BY <1>1, <1>2, <1>3, <1>4

\* A start, and what it writes.
LEMMA BootKeepsIdentity ==
    ASSUME IdentityInv, Boots
    PROVE  IdentityInv'
<1> USE DEF IdentityInv, FilesInOrder, PinOnDisk, SessionsPinned, Saved, Up, dialVars
<1>1. ASSUME server # "up", server' # "up" PROVE SessionsPinned'
  BY <1>1 DEF Boots
<1>2. CASE StartLoads
  BY <1>2 DEF Boots, StartLoads, Starts
<1>3. CASE StartGenerates
  BY <1>3 DEF Boots, StartGenerates, Starts, Generate
<1>4. CASE StartReadError
  BY <1>4 DEF Boots, StartReadError, Starts, Generate
<1>5. CASE SaveKey
  BY <1>5 DEF Boots, SaveKey
<1>6. CASE SaveCert
  BY <1>6 DEF Boots, SaveCert
<1>7. CASE Configure
  BY <1>7 DEF Boots, Configure
<1> QED BY <1>2, <1>3, <1>4, <1>5, <1>6, <1>7 DEF Boots, ServerStep

\* A step of the dialling client: the server and its files stay as they are.
LEMMA DialKeepsIdentity ==
    ASSUME IdentityInv, UNCHANGED identityVars,
           UNCHANGED <<pinned, kept>> \/ Pin,
           served' \subseteq served \/ \E i \in Attempts : Tls(i)
    PROVE  IdentityInv'
<1>1. FilesInOrder'
  BY DEF IdentityInv, FilesInOrder, identityVars
<1>2. PinOnDisk'
  BY DEF IdentityInv, PinOnDisk, identityVars, Pin, Saved, Up
<1>3. SessionsPinned'
  BY DEF IdentityInv, SessionsPinned, identityVars, Pin, Up, Tls, verify_server_cert
<1> QED BY <1>1, <1>2, <1>3 DEF IdentityInv

LEMMA IdentityStep == IdentityInv /\ [Next]_vars => IdentityInv'
<1> SUFFICES ASSUME IdentityInv, [Next]_vars PROVE IdentityInv'
  OBVIOUS
<1>1. CASE Boots
  BY <1>1, BootKeepsIdentity
<1>2. CASE Crashes
  BY <1>2 DEF Crashes, Crash, Torn, IdentityInv, FilesInOrder, PinOnDisk, SessionsPinned, Saved
<1>3. CASE \E i \in Attempts : Proceeds(i)
  <2>1. PICK i \in Attempts : Proceeds(i)
    BY <1>3
  <2>2. UNCHANGED <<identityVars, pinned, kept>>
    BY <2>1 DEF Proceeds, AttemptStep, Wake, Tcp, Tls, SayHello, SessionEof, TimeOut
  <2>3. served' \subseteq served \/ Tls(i)
    BY <2>1 DEF Proceeds, AttemptStep, Wake, Tcp, SayHello, SessionEof, TimeOut
  <2> QED BY <2>2, <2>3, DialKeepsIdentity
<1>4. CASE Dials
  <2>1. UNCHANGED <<identityVars, served>>
    BY <1>4 DEF Dials, Pin, RaceBegins, ConnectSaved, RetryBegins, Begin, RetryFailed
  <2>2. UNCHANGED <<pinned, kept>> \/ Pin
    BY <1>4 DEF Dials, RaceBegins, ConnectSaved, RetryBegins, Begin, RetryFailed
  <2> QED BY <2>1, <2>2, DialKeepsIdentity
<1>5. CASE \/ Connects \/ GivesUp \/ Hangup \/ Calling \/ Pumps \/ Serves \/ Loses
           \/ UNCHANGED vars
  <2>1. UNCHANGED <<identityVars, pinned, kept>>
    BY <1>5 DEF Connects, RaceWon, RetryOk, GivesUp, RaceLost, Hangup, Calling, Pumps, Serves,
                Loses, vars, dialVars
  <2>2. served' \subseteq served
    BY <1>5 DEF Connects, RaceWon, RetryOk, GivesUp, RaceLost, Hangup, Calling, Pumps, Serves,
                Loses, vars, dialVars
  <2> QED BY <2>1, <2>2, DialKeepsIdentity
<1> QED BY <1>1, <1>2, <1>3, <1>4, <1>5 DEF Next

\* Wherever save_identity is cut short, the two files are of one identity, as
\* long as what was there could be read.
THEOREM FilesMatch == Spec => []PairMatches
<1>1. IdentityInv => PairMatches
  BY DEF IdentityInv, FilesInOrder, PairMatches, Saved
<1> QED BY IdentityInit, IdentityStep, <1>1, PTL DEF Spec

\* PinnedServerVerifier lets nothing but the pinned certificate through: no
\* connection, of whatever attempt, is one to another server.
THEOREM OnlyPinnedServer == Spec => []OnlyPinned
<1>1. IdentityInv => OnlyPinned
  BY DEF IdentityInv, SessionsPinned, OnlyPinned
<1> QED BY IdentityInit, IdentityStep, <1>1, PTL DEF Spec

\* load_or_create_server_identity finds the identity again after every restart:
\* the server a client pinned once it was saved keeps the pinned certificate.
\* (Tokens are not kept, and pairing by PIN is needed again: see Dial.)
THEOREM PinSurvivesRestart == Spec => []RestartKeepsPin
<1>1. IdentityInv => RestartKeepsPin
  BY DEF IdentityInv, PinOnDisk, RestartKeepsPin, Up
<1> QED BY IdentityInit, IdentityStep, <1>1, PTL DEF Spec

-----------------------------------------------------------------------------
(* The bytes of a direction.                                               *)

\* Where the frames of the messages s end that come after the first g.
Layout(g, s, off) ==
    /\ off \in [g..Len(s) -> Nat] /\ off[g] = 0
    /\ \A k \in (g + 1)..Len(s) : off[k] = off[k - 1] + FrameLen(s[k])
    /\ \A j, k \in g..Len(s) : j <= k => off[j] <= off[k]

\* The bytes b are the first of these frames.
Carries(b, g, s, off) ==
    /\ Len(b) <= off[Len(s)]
    /\ \A k \in (g + 1)..Len(s) : \A a \in 1..FrameLen(s[k]) :
         off[k - 1] + a <= Len(b) => b[off[k - 1] + a] = [msg |-> s[k], at |-> a]

\* What has arrived, b, or is on the way, c, is the beginning of what was sent
\* and not yet taken; and it is all of it, together with what is being written,
\* w, as long as the connection is up.
Flow(b, c, w, s, g, st) ==
    /\ g <= Len(s)
    /\ \E off \in [g..Len(s) -> Nat] :
         /\ Layout(g, s, off)
         /\ Carries(b \o c, g, s, off)
         /\ st = "up" => /\ Carries((b \o c) \o w, g, s, off)
                  /\ Len((b \o c) \o w) = off[Len(s)]

LinkState == IF link THEN "up" ELSE "down"
InStep(d) == Flow(buffer[d], chan[d], writing[d], sent[d], Len(got[d]), LinkState)

\* Messages that may be handed to the connection.
Sendable == {m \in Message : m.len <= MAX_PAYLOAD}

StreamTypeOK ==
    /\ buffer \in [Dirs -> Seq(Bytes)] /\ chan \in [Dirs -> Seq(Bytes)]
    /\ writing \in [Dirs -> Seq(Bytes)]
    /\ sent \in [Dirs -> Seq(Sendable)] /\ got \in [Dirs -> Seq(Message)]
    /\ cmds \in Seq(Sendable)
    /\ reply \in Seq(Message) /\ tasks \subseteq Message /\ out \in Seq(Message)

StreamInv == StreamTypeOK /\ \A d \in Dirs : InStep(d)

\* The first n members of a sequence, and the others.
LEMMA FirstMembers ==
    ASSUME NEW S, NEW s \in Seq(S), NEW n \in Nat, n <= Len(s)
    PROVE  /\ SubSeq(s, 1, n) \in Seq(S) /\ Len(SubSeq(s, 1, n)) = n
           /\ \A i \in 1..n : SubSeq(s, 1, n)[i] = s[i]
<1>1. Len(s) \in Nat
  BY LenProperties
<1>2. \A i \in 1..n : s[i] \in S
  <2>1. \A i \in 1..n : i \in 1..Len(s)
    BY <1>1
  <2> QED BY <2>1, ElementOfSeq
<1>3. /\ SubSeq(s, 1, n) \in Seq(S)
      /\ Len(SubSeq(s, 1, n)) = IF 1 <= n THEN n - 1 + 1 ELSE 0
      /\ \A i \in 1..(n - 1 + 1) : SubSeq(s, 1, n)[i] = s[1 + i - 1]
  BY <1>2, SubSeqProperties
<1>4. Len(SubSeq(s, 1, n)) = n
  BY <1>3
<1>5. ASSUME NEW i \in 1..n PROVE SubSeq(s, 1, n)[i] = s[i]
  <2>1. i \in 1..(n - 1 + 1) /\ 1 + i - 1 = i
    OBVIOUS
  <2> QED BY <1>3, <2>1
<1> QED BY <1>3, <1>4, <1>5

LEMMA LastMembers ==
    ASSUME NEW S, NEW s \in Seq(S), NEW n \in Nat, n <= Len(s)
    PROVE  /\ SubSeq(s, n + 1, Len(s)) \in Seq(S) /\ Len(SubSeq(s, n + 1, Len(s))) = Len(s) - n
           /\ \A i \in 1..(Len(s) - n) : SubSeq(s, n + 1, Len(s))[i] = s[n + i]
<1> DEFINE l == Len(s)
<1>1. l \in Nat
  BY LenProperties
<1>2. \A i \in (n + 1)..l : s[i] \in S
  <2>1. \A i \in (n + 1)..l : i \in 1..l
    BY <1>1
  <2> QED BY <2>1, ElementOfSeq
<1> HIDE DEF l
<1>3. n + 1 \in Int /\ l \in Int
  BY <1>1
<1>4. /\ SubSeq(s, n + 1, l) \in Seq(S)
      /\ Len(SubSeq(s, n + 1, l)) = IF n + 1 <= l THEN l - (n + 1) + 1 ELSE 0
      /\ \A i \in 1..(l - (n + 1) + 1) : SubSeq(s, n + 1, l)[i] = s[(n + 1) + i - 1]
  BY <1>2, <1>3, SubSeqProperties
<1>5. Len(SubSeq(s, n + 1, l)) = l - n
  BY <1>1, <1>4 DEF l
<1>6. ASSUME NEW i \in 1..(l - n) PROVE SubSeq(s, n + 1, l)[i] = s[n + i]
  <2>1. i \in 1..(l - (n + 1) + 1) /\ (n + 1) + i - 1 = n + i
    BY <1>1
  <2> QED BY <1>4, <2>1
<1> QED BY <1>4, <1>5, <1>6 DEF l

LEMMA FrameLenType ==
    ASSUME NEW m \in Message
    PROVE  /\ m.len \in Nat /\ FrameLen(m) \in Nat /\ FrameLen(m) >= HEADER_LEN
           /\ FrameLen(m) = HEADER_LEN + m.len /\ HEADER_LEN \in Nat /\ HEADER_LEN >= 1
           /\ Frame(m) \in Seq(Bytes) /\ Len(Frame(m)) = FrameLen(m)
           /\ \A a \in 1..FrameLen(m) : Frame(m)[a] = [msg |-> m, at |-> a]
<1>1. m.len \in Nat /\ HEADER_LEN \in Nat /\ HEADER_LEN >= 1
  <2>1. Lens \subseteq Nat
    BY TransportAssumption DEF Lens
  <2>2. m.len \in Lens
    BY DEF Message
  <2>3. HEADER_LEN \in Nat /\ HEADER_LEN >= 1
    BY TransportAssumption
  <2> QED BY <2>1, <2>2, <2>3
<1>2. FrameLen(m) \in Nat /\ FrameLen(m) >= HEADER_LEN /\ FrameLen(m) = HEADER_LEN + m.len
  BY <1>1 DEF FrameLen
<1>3. \A a \in 1..FrameLen(m) : [msg |-> m, at |-> a] \in Bytes
  BY <1>2 DEF Bytes
<1>4. Frame(m) \in [1..FrameLen(m) -> Bytes]
  BY <1>3 DEF Frame
<1>5. Frame(m) \in Seq(Bytes)
  BY <1>2, <1>4, SeqDef
<1>6. Len(Frame(m)) = FrameLen(m)
  <2>1. DOMAIN Frame(m) = 1..FrameLen(m) /\ DOMAIN Frame(m) = 1..Len(Frame(m))
    BY <1>4, <1>5, LenProperties
  <2>2. Len(Frame(m)) \in Nat
    BY <1>5, LenProperties
  <2> QED BY <1>2, <2>1, <2>2
<1> QED BY <1>1, <1>2, <1>5, <1>6 DEF Frame

\* The first bytes of a direction are those of the first frame that has not
\* been taken, and every check of FramedReader on them comes out right.
LEMMA FirstFrame ==
    ASSUME NEW s \in Seq(Sendable), NEW g \in Nat, g <= Len(s),
           NEW off, Layout(g, s, off), NEW b \in Seq(Bytes), Carries(b, g, s, off),
           NEW p \in Seq(Bytes), p # <<>>, Len(p) <= Len(b), \A i \in 1..Len(p) : p[i] = b[i]
    PROVE  /\ g < Len(s) /\ s[g + 1] \in Sendable /\ p[1].msg = s[g + 1]
           /\ ~TooLarge(p) /\ ~Malformed(p)
           /\ HasFrame(p) => Len(Drained(p)) = FrameLen(s[g + 1]) /\ FrameLen(s[g + 1]) <= Len(p)
<1> DEFINE m == s[g + 1]
<1>1. Len(s) \in Nat /\ Len(b) \in Nat /\ Len(p) \in Nat /\ Len(p) >= 1
  BY LenProperties, EmptySeq
<1>2. Len(b) <= off[Len(s)] /\ off[g] = 0
  BY DEF Carries, Layout
<1>3. g < Len(s)
  BY <1>1, <1>2
<1>4. g + 1 \in 1..Len(s) /\ g + 1 \in (g + 1)..Len(s) /\ (g + 1) - 1 = g
  BY <1>1, <1>3
<1>5. m \in Sendable /\ m \in Message /\ m.len <= MAX_PAYLOAD
  BY <1>4, ElementOfSeq DEF Sendable
<1>6. /\ m.len \in Nat /\ FrameLen(m) \in Nat /\ FrameLen(m) >= HEADER_LEN
      /\ FrameLen(m) = HEADER_LEN + m.len /\ HEADER_LEN \in Nat /\ HEADER_LEN >= 1
  BY <1>5, FrameLenType
<1>7. \A a \in 1..FrameLen(m) : a <= Len(b) => b[a] = [msg |-> m, at |-> a]
  <2> SUFFICES ASSUME NEW a \in 1..FrameLen(m), a <= Len(b)
               PROVE  b[a] = [msg |-> m, at |-> a]
    OBVIOUS
  <2>1. off[(g + 1) - 1] + a = a
    BY <1>2, <1>4, <1>6
  <2> QED BY <1>4, <2>1 DEF Carries
<1>8. \A a \in 1..FrameLen(m) : a <= Len(p) => p[a] = [msg |-> m, at |-> a]
  <2> SUFFICES ASSUME NEW a \in 1..FrameLen(m), a <= Len(p)
               PROVE  p[a] = [msg |-> m, at |-> a]
    OBVIOUS
  <2>1. a \in 1..Len(p) /\ a <= Len(b)
    BY <1>1, <1>6
  <2> QED BY <1>7, <2>1
<1> HIDE DEF m
<1>9. p[1].msg = m
  <2>1. 1 \in 1..FrameLen(m) /\ 1 <= Len(p)
    BY <1>1, <1>6
  <2>2. p[1] = [msg |-> m, at |-> 1]
    BY <1>8, <2>1
  <2> QED BY <2>2
<1>10. ASSUME Len(p) >= HEADER_LEN PROVE PayloadLen(p) = m.len
  <2>1. p[HEADER_LEN] = [msg |-> m, at |-> HEADER_LEN]
    BY <1>6, <1>8, <1>10
  <2> QED BY <2>1 DEF PayloadLen
<1>11. ~TooLarge(p)
  BY <1>5, <1>6, <1>10, TransportAssumption DEF TooLarge
<1>12. ASSUME HasFrame(p)
       PROVE  Drained(p) = Frame(m) /\ FrameLen(m) <= Len(p) /\ Len(Drained(p)) = FrameLen(m)
  <2>1. PayloadLen(p) = m.len /\ FrameLen(m) <= Len(p)
    BY <1>6, <1>10, <1>12 DEF HasFrame
  <2>2. Drained(p) = SubSeq(p, 1, FrameLen(m))
    BY <1>6, <2>1 DEF Drained
  <2>3. \A i \in 1..FrameLen(m) : p[i] \in Bytes /\ p[i] = [msg |-> m, at |-> i]
    <3> SUFFICES ASSUME NEW i \in 1..FrameLen(m)
                 PROVE  p[i] \in Bytes /\ p[i] = [msg |-> m, at |-> i]
      OBVIOUS
    <3>1. i \in 1..Len(p) /\ i <= Len(p)
      BY <1>1, <1>6, <2>1
    <3> QED BY <1>8, <3>1, ElementOfSeq
  <2>4. /\ SubSeq(p, 1, FrameLen(m)) \in Seq(Bytes)
        /\ Len(SubSeq(p, 1, FrameLen(m))) = FrameLen(m)
        /\ \A i \in 1..FrameLen(m) : SubSeq(p, 1, FrameLen(m))[i] = p[i]
    BY <1>6, <2>1, FirstMembers
  <2>5. /\ Frame(m) \in Seq(Bytes) /\ Len(Frame(m)) = FrameLen(m)
        /\ \A a \in 1..FrameLen(m) : Frame(m)[a] = [msg |-> m, at |-> a]
    BY <1>5, FrameLenType
  <2> DEFINE u == SubSeq(p, 1, FrameLen(m))
  <2>6. u = Frame(m)
    <3>1. \A i \in 1..Len(u) : u[i] = Frame(m)[i]
      BY <2>3, <2>4, <2>5
    <3>2. u \in Seq(Bytes) /\ Len(u) = Len(Frame(m)) /\ Frame(m) \in Seq(Bytes)
      BY <2>4, <2>5
    <3> HIDE DEF u
    <3> QED BY <3>1, <3>2, SeqEqual
  <2> QED BY <2>1, <2>2, <2>5, <2>6
<1>13. ~Malformed(p)
  BY <1>9, <1>12 DEF Malformed
<1> QED BY <1>3, <1>5, <1>9, <1>11, <1>12, <1>13 DEF m

\* The layout once the first frame is taken.
Shift(g, s, off) == [k \in (g + 1)..Len(s) |-> off[k] - FrameLen(s[g + 1])]

\* t is b without its first f members.
Without(t, b, f) == Len(t) = Len(b) - f /\ \A i \in 1..Len(t) : t[i] = b[f + i]

\* Taking the first frame.
LEMMA DropFrame ==
    ASSUME NEW s \in Seq(Sendable), NEW g \in Nat, g < Len(s),
           NEW off, Layout(g, s, off), NEW b \in Seq(Bytes), Carries(b, g, s, off),
           NEW t \in Seq(Bytes), FrameLen(s[g + 1]) <= Len(b), Without(t, b, FrameLen(s[g + 1]))
    PROVE  /\ Shift(g, s, off) \in [(g + 1)..Len(s) -> Nat]
           /\ Layout(g + 1, s, Shift(g, s, off))
           /\ Carries(t, g + 1, s, Shift(g, s, off))
           /\ Len(b) = off[Len(s)] => Len(t) = Shift(g, s, off)[Len(s)]
<1> DEFINE f == FrameLen(s[g + 1])
           off2 == [k \in (g + 1)..Len(s) |-> off[k] - f]
<1>1. /\ Len(s) \in Nat /\ Len(b) \in Nat /\ Len(t) \in Nat
      /\ Len(t) = Len(b) - f /\ \A i \in 1..Len(t) : t[i] = b[f + i]
  BY LenProperties DEF Without
<1>2. /\ off \in [g..Len(s) -> Nat] /\ off[g] = 0
      /\ \A k \in (g + 1)..Len(s) : off[k] = off[k - 1] + FrameLen(s[k])
      /\ \A j, k \in g..Len(s) : j <= k => off[j] <= off[k]
  BY DEF Layout
<1>3. \A k \in (g + 1)..Len(s) : s[k] \in Message /\ FrameLen(s[k]) \in Nat
  <2>1. \A k \in (g + 1)..Len(s) : k \in 1..Len(s)
    BY <1>1
  <2>2. \A k \in (g + 1)..Len(s) : s[k] \in Message
    BY <2>1, ElementOfSeq DEF Sendable
  <2> QED BY <2>2, FrameLenType
<1>4. g + 1 \in (g + 1)..Len(s) /\ (g + 1) - 1 = g /\ f \in Nat
  BY <1>1, <1>3
<1>5. off[g + 1] = f /\ f <= Len(b) /\ f = FrameLen(s[g + 1])
  BY <1>2, <1>3, <1>4
<1> HIDE DEF f
<1>6. \A k \in (g + 1)..Len(s) : k \in g..Len(s) /\ off[k] \in Nat /\ f <= off[k]
  <2> SUFFICES ASSUME NEW k \in (g + 1)..Len(s)
               PROVE  k \in g..Len(s) /\ off[k] \in Nat /\ f <= off[k]
    OBVIOUS
  <2>1. k \in g..Len(s) /\ g + 1 \in g..Len(s) /\ g + 1 <= k
    BY <1>1, <1>4
  <2> QED BY <1>2, <1>5, <2>1
<1>7. off2 \in [(g + 1)..Len(s) -> Nat] /\ off2[g + 1] = 0
  <2>1. \A k \in (g + 1)..Len(s) : off[k] - f \in Nat
    BY <1>4, <1>6
  <2>2. off2[g + 1] = off[g + 1] - f
    BY <1>4
  <2> QED BY <1>4, <1>5, <2>1, <2>2
<1>8. \A k \in (g + 2)..Len(s) : /\ k \in (g + 1)..Len(s) /\ k - 1 \in (g + 1)..Len(s)
                                /\ off2[k] = off[k] - f /\ off2[k - 1] = off[k - 1] - f
  <2> SUFFICES ASSUME NEW k \in (g + 2)..Len(s)
               PROVE  /\ k \in (g + 1)..Len(s) /\ k - 1 \in (g + 1)..Len(s)
                      /\ off2[k] = off[k] - f /\ off2[k - 1] = off[k - 1] - f
    OBVIOUS
  <2>1. k \in (g + 1)..Len(s) /\ k - 1 \in (g + 1)..Len(s)
    BY <1>1
  <2> QED BY <2>1
<1>9. \A k \in (g + 2)..Len(s) : off2[k] = off2[k - 1] + FrameLen(s[k])
  <2> SUFFICES ASSUME NEW k \in (g + 2)..Len(s)
               PROVE  off2[k] = off2[k - 1] + FrameLen(s[k])
    OBVIOUS
  <2>1. /\ k \in (g + 1)..Len(s) /\ k - 1 \in (g + 1)..Len(s)
        /\ off2[k] = off[k] - f /\ off2[k - 1] = off[k - 1] - f
    BY <1>8
  <2>2. off[k] = off[k - 1] + FrameLen(s[k])
    BY <1>2, <2>1
  <2>3. off[k] \in Nat /\ off[k - 1] \in Nat /\ FrameLen(s[k]) \in Nat
    BY <1>3, <1>6, <2>1
  <2> QED BY <1>4, <2>1, <2>2, <2>3
<1>10. \A j, k \in (g + 1)..Len(s) : j <= k => off2[j] <= off2[k]
  <2> SUFFICES ASSUME NEW j \in (g + 1)..Len(s), NEW k \in (g + 1)..Len(s), j <= k
               PROVE  off2[j] <= off2[k]
    OBVIOUS
  <2>1. off[j] <= off[k] /\ off[j] \in Nat /\ off[k] \in Nat
    BY <1>2, <1>6
  <2>2. off2[j] = off[j] - f /\ off2[k] = off[k] - f
    OBVIOUS
  <2> QED BY <1>4, <2>1, <2>2
<1>11. Layout(g + 1, s, off2)
  <2>1. (g + 1) + 1 = g + 2
    OBVIOUS
  <2> QED BY <1>7, <1>9, <1>10, <2>1 DEF Layout
<1>12. Len(s) \in (g + 1)..Len(s) /\ off2[Len(s)] = off[Len(s)] - f
  BY <1>1
<1>13. Len(b) <= off[Len(s)] /\ off[Len(s)] \in Nat
  BY <1>6, <1>12 DEF Carries
<1>14. ASSUME NEW k \in (g + 2)..Len(s), NEW a \in 1..FrameLen(s[k]), off2[k - 1] + a <= Len(t)
       PROVE  t[off2[k - 1] + a] = [msg |-> s[k], at |-> a]
  <2>1. off2[k - 1] \in Nat /\ off[k - 1] = off2[k - 1] + f /\ a \in Nat /\ a >= 1
    <3>1. k - 1 \in (g + 1)..Len(s) /\ off2[k - 1] = off[k - 1] - f
      BY <1>8
    <3>2. off2[k - 1] \in Nat /\ off[k - 1] \in Nat
      BY <1>6, <1>7, <3>1
    <3> QED BY <1>4, <3>1, <3>2
  <2>2. off2[k - 1] + a \in 1..Len(t) /\ f + (off2[k - 1] + a) = off[k - 1] + a
    <3>1. Len(t) \in Nat
      BY <1>1
    <3>2. off2[k - 1] + a <= Len(t)
      BY <1>14
    <3>3. off2[k - 1] + a \in 1..Len(t)
      BY <2>1, <3>1, <3>2
    <3> QED BY <1>4, <2>1, <3>3
  <2>3. off[k - 1] + a <= Len(b)
    BY <1>1, <1>4, <1>14, <2>1
  <2>4. b[off[k - 1] + a] = [msg |-> s[k], at |-> a]
    BY <1>8, <2>3 DEF Carries
  <2> QED BY <1>1, <2>2, <2>4
<1>15. Carries(t, g + 1, s, off2)
  <2>1. Len(t) <= off2[Len(s)]
    BY <1>1, <1>4, <1>12, <1>13
  <2>2. (g + 1) + 1 = g + 2
    OBVIOUS
  <2> QED BY <1>14, <2>1, <2>2 DEF Carries
<1>16. off2 = Shift(g, s, off)
  BY DEF Shift, f
<1>17. Len(b) = off[Len(s)] => Len(t) = off2[Len(s)]
  BY <1>1, <1>12
<1> HIDE DEF off2
<1> QED BY <1>7, <1>11, <1>15, <1>16, <1>17

\* Handing a message to the connection: what is on the way is still the
\* beginning of what was sent, and with the new frame all of it, if it was.
LEMMA AddFrame ==
    ASSUME NEW s \in Seq(Sendable), NEW g \in Nat, g <= Len(s),
           NEW off, Layout(g, s, off), NEW m \in Sendable,
           NEW b \in Seq(Bytes), Carries(b, g, s, off)
    PROVE  \E off2 \in [g..Len(Append(s, m)) -> Nat] :
             /\ Layout(g, Append(s, m), off2) /\ Carries(b, g, Append(s, m), off2)
             /\ Len(b) = off[Len(s)] =>
                  /\ Carries(b \o Frame(m), g, Append(s, m), off2)
                  /\ Len(b \o Frame(m)) = off2[Len(Append(s, m))]
<1> DEFINE s2 == Append(s, m)
           off2 == [k \in g..Len(s2) |->
                      IF k = Len(s2) THEN off[Len(s)] + FrameLen(m) ELSE off[k]]
<1> DEFINE n == Len(s)
           l == n + 1
<1>1. n \in Nat /\ s2 \in Seq(Sendable) /\ Len(s2) = l /\ s2[l] = m
      /\ \A k \in 1..n : s2[k] = s[k]
  BY LenProperties, AppendProperties
<1>2. /\ off \in [g..n -> Nat] /\ off[g] = 0
      /\ \A k \in (g + 1)..n : off[k] = off[k - 1] + FrameLen(s[k])
      /\ \A j, k \in g..n : j <= k => off[j] <= off[k]
  BY DEF Layout
<1>3. /\ FrameLen(m) \in Nat /\ Frame(m) \in Seq(Bytes) /\ Len(Frame(m)) = FrameLen(m)
      /\ \A a \in 1..FrameLen(m) : Frame(m)[a] = [msg |-> m, at |-> a]
  BY FrameLenType DEF Sendable
<1>4. n \in g..n /\ off[n] \in Nat /\ g \in g..n /\ l \in g..l
  BY <1>1, <1>2
<1>5. \A k \in (g + 1)..n : k \in 1..n /\ s2[k] = s[k] /\ FrameLen(s[k]) \in Nat
  <2>1. \A k \in (g + 1)..n : k \in 1..n
    BY <1>1
  <2>2. \A k \in (g + 1)..n : s[k] \in Message
    BY <2>1, ElementOfSeq DEF Sendable
  <2> QED BY <1>1, <2>1, <2>2, FrameLenType
<1> HIDE DEF n, l, s2
<1>6. \A k \in g..n : k \in g..l /\ k # l
  BY <1>1 DEF l
<1>7. \A k \in g..n : k \in g..l /\ k # l /\ off2[k] = off[k] /\ off[k] \in Nat
  BY <1>1, <1>2, <1>6
<1>8. \A k \in g..l : k \in g..n \/ k = l
  BY <1>1 DEF l
<1>9. off2 \in [g..l -> Nat] /\ off2[l] = off[n] + FrameLen(m)
  <2>1. off[n] + FrameLen(m) \in Nat
    BY <1>3, <1>4
  <2>2. off2[l] = off[n] + FrameLen(m)
    BY <1>1, <1>4 DEF n
  <2>3. \A k \in g..l : off2[k] \in Nat
    BY <1>7, <1>8, <2>1, <2>2
  <2> QED BY <1>1, <2>2, <2>3
<1> HIDE DEF off2
<1>10. \A k \in (g + 1)..l : off2[k] = off2[k - 1] + FrameLen(s2[k])
  <2> SUFFICES ASSUME NEW k \in (g + 1)..l PROVE off2[k] = off2[k - 1] + FrameLen(s2[k])
    OBVIOUS
  <2>1. CASE k = l
    <3>1. k - 1 = n /\ off2[n] = off[n]
      BY <1>1, <1>4, <1>7, <2>1 DEF l
    <3> QED BY <1>1, <1>9, <2>1, <3>1
  <2>2. CASE k # l
    <3>1. k \in (g + 1)..n /\ k \in g..n /\ k - 1 \in g..n
      BY <1>1, <2>2 DEF l
    <3> QED BY <1>2, <1>5, <1>7, <3>1
  <2> QED BY <2>1, <2>2
<1>11. \A j, k \in g..l : j <= k => off2[j] <= off2[k]
  <2> SUFFICES ASSUME NEW j \in g..l, NEW k \in g..l, j <= k PROVE off2[j] <= off2[k]
    OBVIOUS
  <2>1. CASE j = l
    <3>1. k = l
      BY <1>1, <2>1 DEF l
    <3> QED BY <1>9, <2>1, <3>1
  <2>2. CASE j # l /\ k = l
    <3>1. j \in g..n /\ j <= n
      BY <1>1, <2>2 DEF l
    <3>2. off[j] <= off[n] /\ off2[j] = off[j] /\ off[j] \in Nat
      BY <1>2, <1>4, <1>7, <3>1
    <3> QED BY <1>3, <1>4, <1>9, <2>2, <3>2
  <2>3. CASE j # l /\ k # l
    <3>1. j \in g..n /\ k \in g..n
      BY <1>8, <2>3
    <3> QED BY <1>2, <1>7, <3>1
  <2> QED BY <2>1, <2>2, <2>3
<1>12. Layout(g, s2, off2)
  <2>1. off2[g] = 0
    BY <1>2, <1>4, <1>7
  <2> QED BY <1>1, <1>9, <1>10, <1>11, <2>1 DEF Layout
<1>13. Carries(b, g, s2, off2)
  <2>1. Len(b) \in Nat /\ Len(b) <= off[n]
    BY LenProperties DEF Carries, n
  <2>2. Len(b) <= off2[l]
    BY <1>3, <1>4, <1>9, <2>1
  <2>3. ASSUME NEW k \in (g + 1)..l, NEW a \in 1..FrameLen(s2[k]), off2[k - 1] + a <= Len(b)
        PROVE  b[off2[k - 1] + a] = [msg |-> s2[k], at |-> a]
    <3>1. CASE k = l
      <4>1. k - 1 = n /\ off2[n] = off[n] /\ a \in Nat /\ a >= 1
        BY <1>1, <1>3, <1>4, <1>7, <3>1 DEF l
      <4> QED BY <1>4, <2>1, <2>3, <4>1
    <3>2. CASE k # l
      <4>1. k \in (g + 1)..n /\ k - 1 \in g..n
        BY <1>1, <3>2 DEF l
      <4>2. s2[k] = s[k] /\ off2[k - 1] = off[k - 1]
        BY <1>5, <1>7, <4>1
      <4> QED BY <2>3, <4>1, <4>2 DEF Carries, n
    <3> QED BY <3>1, <3>2
  <2> QED BY <1>1, <2>2, <2>3 DEF Carries
<1>14. ASSUME Len(b) = off[n]
       PROVE  Carries(b \o Frame(m), g, s2, off2) /\ Len(b \o Frame(m)) = off2[l]
  <2> DEFINE c == b \o Frame(m)
  <2>1. /\ Len(b) \in Nat /\ Len(c) = Len(b) + FrameLen(m)
        /\ \A i \in 1..Len(b) + FrameLen(m) :
             c[i] = IF i <= Len(b) THEN b[i] ELSE Frame(m)[i - Len(b)]
    <3>1. /\ Len(c) = Len(b) + Len(Frame(m))
          /\ \A i \in 1..Len(b) + Len(Frame(m)) :
               c[i] = IF i <= Len(b) THEN b[i] ELSE Frame(m)[i - Len(b)]
      BY <1>3, ConcatProperties
    <3>2. Len(b) \in Nat
      BY LenProperties
    <3> HIDE DEF c
    <3> QED BY <1>3, <3>1, <3>2
  <2> HIDE DEF c
  <2>2. Len(c) = off2[l] /\ Len(c) \in Nat
    BY <1>3, <1>9, <1>14, <2>1
  <2>3. ASSUME NEW k \in (g + 1)..l, NEW a \in 1..FrameLen(s2[k]), off2[k - 1] + a <= Len(c)
        PROVE  c[off2[k - 1] + a] = [msg |-> s2[k], at |-> a]
    <3>1. CASE k = l
      <4>1. k - 1 = n /\ off2[k - 1] = Len(b) /\ a \in 1..FrameLen(m) /\ s2[k] = m
        BY <1>1, <1>4, <1>7, <1>14, <3>1 DEF l
      <4>2. /\ Len(b) + a \in 1..Len(b) + FrameLen(m) /\ ~(Len(b) + a <= Len(b))
            /\ (Len(b) + a) - Len(b) = a
        BY <1>3, <2>1, <4>1
      <4>3. c[Len(b) + a] = Frame(m)[a]
        BY <2>1, <4>2
      <4> QED BY <1>3, <4>1, <4>3
    <3>2. CASE k # l
      <4>1. k \in (g + 1)..n /\ k - 1 \in g..n /\ k \in g..n /\ a \in Nat /\ a >= 1
        BY <1>1, <1>5, <3>2 DEF l
      <4>2. s2[k] = s[k] /\ off2[k - 1] = off[k - 1] /\ off[k - 1] \in Nat /\ off[k] \in Nat
        BY <1>5, <1>7, <4>1
      <4>3. off[k] = off[k - 1] + FrameLen(s[k]) /\ off[k] <= off[n] /\ FrameLen(s[k]) \in Nat
        <5>1. k <= n
          BY <1>1, <4>1
        <5> QED BY <1>2, <1>4, <1>5, <4>1, <5>1
      <4>4. off[k - 1] + a <= Len(b) /\ off[k - 1] + a \in 1..Len(b) + FrameLen(m)
        <5>1. a <= FrameLen(s[k])
          BY <4>2, <4>3
        <5>2. off[k - 1] + a <= off[n]
          BY <1>4, <4>1, <4>2, <4>3, <5>1
        <5>3. off[k - 1] + a <= Len(b)
          BY <1>14, <5>2
        <5>4. off[k - 1] + a \in Nat /\ 1 <= off[k - 1] + a
          BY <4>1, <4>2
        <5> QED BY <1>3, <2>1, <5>3, <5>4
      <4>5. b[off[k - 1] + a] = [msg |-> s[k], at |-> a]
        BY <1>14, <4>1, <4>2, <4>4 DEF Carries, n
      <4> QED BY <2>1, <4>2, <4>4, <4>5
    <3> QED BY <3>1, <3>2
  <2>4. Carries(c, g, s2, off2)
    <3>1. Len(c) <= off2[Len(s2)]
      BY <1>1, <2>2
    <3> QED BY <1>1, <2>3, <3>1 DEF Carries
  <2> QED BY <2>2, <2>4 DEF c
<1> QED BY <1>1, <1>9, <1>12, <1>13, <1>14 DEF n, s2

-----------------------------------------------------------------------------
(* What the steps do to the bytes of a direction.                          *)

LEMMA PrefixCarries ==
    ASSUME NEW s, NEW g, NEW off, NEW b, NEW p, Len(p) \in Nat, Len(b) \in Nat,
           off[Len(s)] \in Nat, Carries(b, g, s, off),
           Len(p) <= Len(b), \A i \in 1..Len(p) : p[i] = b[i],
           \A k \in (g + 1)..Len(s) : off[k - 1] \in Nat /\ FrameLen(s[k]) \in Nat
    PROVE  Carries(p, g, s, off)
<1>1. Len(p) <= off[Len(s)]
  BY DEF Carries
<1>2. ASSUME NEW k \in (g + 1)..Len(s), NEW a \in 1..FrameLen(s[k]), off[k - 1] + a <= Len(p)
      PROVE  p[off[k - 1] + a] = [msg |-> s[k], at |-> a]
  <2>1. off[k - 1] + a \in 1..Len(p) /\ off[k - 1] + a <= Len(b)
    BY <1>2
  <2> QED BY <2>1 DEF Carries
<1> QED BY <1>1, <1>2 DEF Carries

\* The numbers of a layout.
LEMMA LayoutTypes ==
    ASSUME NEW s \in Seq(Sendable), NEW g \in Nat, g <= Len(s), NEW off, Layout(g, s, off)
    PROVE  /\ off[Len(s)] \in Nat
           /\ \A k \in (g + 1)..Len(s) : off[k - 1] \in Nat /\ FrameLen(s[k]) \in Nat
<1>1. Len(s) \in Nat /\ off \in [g..Len(s) -> Nat]
  BY LenProperties DEF Layout
<1>2. Len(s) \in g..Len(s)
  BY <1>1
<1>3. \A k \in (g + 1)..Len(s) : k - 1 \in g..Len(s) /\ k \in 1..Len(s)
  BY <1>1
<1>4. \A k \in (g + 1)..Len(s) : s[k] \in Message
  BY <1>3, ElementOfSeq DEF Sendable
<1> QED BY <1>1, <1>2, <1>3, <1>4, FrameLenType

\* Bytes that move from one buffer to the next stay in their order.
LEMMA Regroup ==
    ASSUME NEW S, NEW b \in Seq(S), NEW c \in Seq(S), NEW n \in Nat, n <= Len(c)
    PROVE  (b \o SubSeq(c, 1, n)) \o SubSeq(c, n + 1, Len(c)) = b \o c
<1> DEFINE x == SubSeq(c, 1, n)
           y == SubSeq(c, n + 1, Len(c))
<1>1. x \in Seq(S) /\ y \in Seq(S)
  BY FirstMembers, LastMembers
<1>2. x \o y = c
  <2>1. Len(c) \in Nat
    BY LenProperties
  <2>2. 1 \in 1..Len(c) + 1 /\ n \in (1 - 1)..Len(c) /\ Len(c) \in n..Len(c)
    BY <2>1
  <2>3. x \o y = SubSeq(c, 1, Len(c))
    BY <2>2, ConcatAdjacentSubSeq
  <2> QED BY <2>3, SubSeqFull
<1> HIDE DEF x, y
<1>3. (b \o x) \o y = b \o (x \o y)
  BY <1>1, ConcatAssociative
<1> QED BY <1>2, <1>3 DEF x, y

\* A sequence without its first f members, all in its first part.
LEMMA DropConcat ==
    ASSUME NEW S, NEW p \in Seq(S), NEW r \in Seq(S), NEW q \in Seq(S),
           NEW f \in Nat, f <= Len(p), Without(q, p, f)
    PROVE  Without(q \o r, p \o r, f)
<1> DEFINE t == q \o r
           u == p \o r
<1>1. Len(p) \in Nat /\ Len(r) \in Nat
  BY LenProperties
<1>2. Len(q) = Len(p) - f /\ \A i \in 1..Len(q) : q[i] = p[f + i]
  BY DEF Without
<1>3. /\ Len(u) = Len(p) + Len(r)
      /\ \A i \in 1..Len(p) + Len(r) : u[i] = IF i <= Len(p) THEN p[i] ELSE r[i - Len(p)]
  BY ConcatProperties
<1>4. /\ Len(t) = Len(q) + Len(r)
      /\ \A i \in 1..Len(q) + Len(r) : t[i] = IF i <= Len(q) THEN q[i] ELSE r[i - Len(q)]
  BY ConcatProperties
<1> HIDE DEF t, u
<1>5. Len(t) = Len(u) - f
  BY <1>1, <1>2, <1>3, <1>4
<1>6. ASSUME NEW i \in 1..Len(t) PROVE t[i] = u[f + i]
  <2>1. /\ f + i \in 1..Len(p) + Len(r) /\ i \in 1..Len(q) + Len(r)
        /\ i <= Len(q) <=> f + i <= Len(p)
        /\ i - Len(q) = (f + i) - Len(p)
    BY <1>1, <1>2, <1>4
  <2>2. CASE i <= Len(q)
    <3>1. i \in 1..Len(q)
      BY <1>1, <1>2, <2>2
    <3> QED BY <1>2, <1>3, <1>4, <2>1, <2>2, <3>1
  <2>3. CASE ~(i <= Len(q))
    BY <1>3, <1>4, <2>1, <2>3
  <2> QED BY <2>2, <2>3
<1>7. Without(t, u, f)
  BY <1>5, <1>6 DEF Without
<1> QED BY <1>7 DEF t, u

\* What is in front stays in step when what follows is lost.
LEMMA FrontCarries ==
    ASSUME NEW s \in Seq(Sendable), NEW g \in Nat, g <= Len(s), NEW off, Layout(g, s, off),
           NEW p \in Seq(Bytes), NEW y \in Seq(Bytes), Carries(p \o y, g, s, off)
    PROVE  Carries(p, g, s, off)
<1> DEFINE b == p \o y
<1>1. Len(p) \in Nat /\ Len(y) \in Nat
  BY LenProperties
<1>2. /\ Len(b) = Len(p) + Len(y)
      /\ \A i \in 1..Len(p) + Len(y) : b[i] = IF i <= Len(p) THEN p[i] ELSE y[i - Len(p)]
  BY ConcatProperties
<1> HIDE DEF b
<1>3. Len(b) \in Nat /\ Len(p) <= Len(b)
  BY <1>1, <1>2
<1>4. ASSUME NEW i \in 1..Len(p) PROVE p[i] = b[i]
  <2>1. i \in 1..Len(p) + Len(y) /\ i <= Len(p)
    BY <1>1
  <2> QED BY <1>2, <2>1
<1>5. Carries(b, g, s, off)
  BY DEF b
<1> QED BY <1>1, <1>3, <1>4, <1>5, LayoutTypes, PrefixCarries

\* Nothing sent, nothing on the way.
LEMMA FlowEmpty == ASSUME NEW st PROVE Flow(<<>>, <<>>, <<>>, <<>>, 0, st)
<1> DEFINE off == [k \in 0..0 |-> 0]
<1>1. Len(<<>>) = 0
  BY EmptySeq
<1>2. <<>> \o <<>> = <<>>
  BY EmptySeq, ConcatEmptySeq
<1>3. off \in [0..0 -> Nat] /\ off[0] = 0 /\ (0 + 1)..0 = {} /\ \A k \in 0..0 : k = 0
  OBVIOUS
<1> HIDE DEF off
<1>4. Layout(0, <<>>, off)
  BY <1>1, <1>3 DEF Layout
<1>5. Carries(<<>>, 0, <<>>, off)
  BY <1>1, <1>3 DEF Carries
<1> QED BY <1>1, <1>2, <1>3, <1>4, <1>5 DEF Flow

\* The connection is gone: what is being written will not arrive.
LEMMA FlowDown ==
    ASSUME NEW b, NEW c, NEW w, NEW s, NEW g, NEW st, Flow(b, c, w, s, g, st), NEW w2
    PROVE  Flow(b, c, w2, s, g, "down")
BY DEF Flow

\* Nor may the last of what was on the way.
LEMMA FlowCut ==
    ASSUME NEW b \in Seq(Bytes), NEW c \in Seq(Bytes), NEW w, NEW s \in Seq(Sendable),
           NEW g \in Nat, NEW st, Flow(b, c, w, s, g, st), NEW n \in Nat, n <= Len(c), NEW w2
    PROVE  Flow(b, SubSeq(c, 1, n), w2, s, g, "down")
<1> DEFINE x == SubSeq(c, 1, n)
           y == SubSeq(c, n + 1, Len(c))
<1>1. x \in Seq(Bytes) /\ y \in Seq(Bytes) /\ (b \o x) \o y = b \o c
  BY FirstMembers, LastMembers, Regroup
<1> HIDE DEF x, y
<1>2. PICK off \in [g..Len(s) -> Nat] : Layout(g, s, off) /\ Carries(b \o c, g, s, off) /\ g <= Len(s)
  BY DEF Flow
<1>3. b \o x \in Seq(Bytes)
  BY <1>1, ConcatProperties
<1>4. Carries(b \o x, g, s, off)
  BY <1>1, <1>2, <1>3, FrontCarries
<1> QED BY <1>2, <1>4 DEF Flow, x

LEMMA Reassociate == \A x, y, z \in Seq(Bytes) : (x \o y) \o z = x \o (y \o z)
BY ConcatAssociative

\* write_all hands n bytes to the connection.
LEMMA FlowWrites ==
    ASSUME NEW b \in Seq(Bytes), NEW c \in Seq(Bytes), NEW w \in Seq(Bytes),
           NEW s \in Seq(Sendable), NEW g \in Nat, Flow(b, c, w, s, g, "up"),
           NEW n \in Nat, n <= Len(w)
    PROVE  Flow(b, c \o SubSeq(w, 1, n), SubSeq(w, n + 1, Len(w)), s, g, "up")
<1> DEFINE x == SubSeq(w, 1, n)
           y == SubSeq(w, n + 1, Len(w))
           v == b \o c
<1>1. v \in Seq(Bytes)
  BY ConcatProperties
<1> HIDE DEF v
<1>2. x \in Seq(Bytes) /\ y \in Seq(Bytes) /\ (v \o x) \o y = v \o w
  BY <1>1, FirstMembers, LastMembers, Regroup
<1> HIDE DEF x, y
<1>3. v \o x = b \o (c \o x)
  <2>1. (b \o c) \o x = b \o (c \o x)
    BY <1>2, Reassociate, Zenon
  <2> QED BY <2>1 DEF v
<1>4. PICK off \in [g..Len(s) -> Nat] :
        /\ Layout(g, s, off) /\ g <= Len(s)
        /\ Carries(v \o w, g, s, off) /\ Len(v \o w) = off[Len(s)]
  BY DEF Flow, v
<1>5. v \o x \in Seq(Bytes)
  BY <1>1, <1>2, ConcatProperties
<1>6. Carries(v \o x, g, s, off)
  BY <1>2, <1>4, <1>5, FrontCarries
<1>7. /\ Carries(b \o (c \o x), g, s, off)
      /\ Carries((b \o (c \o x)) \o y, g, s, off)
      /\ Len((b \o (c \o x)) \o y) = off[Len(s)]
  BY <1>2, <1>3, <1>4, <1>6
<1>8. Flow(b, c \o x, y, s, g, "up")
  BY <1>4, <1>7 DEF Flow
<1> QED BY <1>8 DEF x, y

\* A message is handed to the connection when the last one is written.
LEMMA FlowSends ==
    ASSUME NEW b \in Seq(Bytes), NEW c \in Seq(Bytes), NEW s \in Seq(Sendable),
           NEW g \in Nat, NEW st, Flow(b, c, <<>>, s, g, st), NEW m \in Sendable
    PROVE  Flow(b, c, Frame(m), Append(s, m), g, st)
<1> DEFINE v == b \o c
           s2 == Append(s, m)
<1>1. v \in Seq(Bytes) /\ v \o <<>> = v
  BY ConcatProperties, ConcatEmptySeq
<1>2. PICK off \in [g..Len(s) -> Nat] :
        /\ g <= Len(s) /\ Layout(g, s, off) /\ Carries(v, g, s, off)
        /\ st = "up" => Len(v) = off[Len(s)]
  BY <1>1 DEF Flow
<1>3. Len(s2) = Len(s) + 1 /\ Len(s) \in Nat
  BY LenProperties, AppendProperties
<1> HIDE DEF v
<1>4. PICK off2 \in [g..Len(s2) -> Nat] :
        /\ Layout(g, s2, off2) /\ Carries(v, g, s2, off2)
        /\ Len(v) = off[Len(s)] =>
             Carries(v \o Frame(m), g, s2, off2) /\ Len(v \o Frame(m)) = off2[Len(s2)]
  BY <1>1, <1>2, AddFrame
<1> HIDE DEF s2
<1>5. g <= Len(s2)
  BY <1>2, <1>3
<1>6. st = "up" => Carries(v \o Frame(m), g, s2, off2) /\ Len(v \o Frame(m)) = off2[Len(s2)]
  BY <1>2, <1>4
<1> QED BY <1>4, <1>5, <1>6 DEF Flow, v, s2

\* FramedReader drains the first frame of what has arrived, p, before r.
LEMMA DrainCarries ==
    ASSUME NEW s \in Seq(Sendable), NEW g \in Nat, g < Len(s), NEW off, Layout(g, s, off),
           NEW p \in Seq(Bytes), NEW r \in Seq(Bytes), Carries(p \o r, g, s, off),
           FrameLen(s[g + 1]) \in Nat, FrameLen(s[g + 1]) <= Len(p),
           NEW q \in Seq(Bytes), Without(q, p, FrameLen(s[g + 1]))
    PROVE  /\ Shift(g, s, off) \in [(g + 1)..Len(s) -> Nat]
           /\ Layout(g + 1, s, Shift(g, s, off))
           /\ Carries(q \o r, g + 1, s, Shift(g, s, off))
           /\ Len(p \o r) = off[Len(s)] => Len(q \o r) = Shift(g, s, off)[Len(s)]
<1> DEFINE b == p \o r
           t == q \o r
<1>1. b \in Seq(Bytes) /\ Len(b) = Len(p) + Len(r) /\ Len(p) \in Nat /\ Len(r) \in Nat
  BY ConcatProperties, LenProperties
<1>2. t \in Seq(Bytes)
  BY ConcatProperties
<1>3. Without(t, b, FrameLen(s[g + 1]))
  BY DropConcat
<1>4. Carries(b, g, s, off)
  OBVIOUS
<1> HIDE DEF b, t
<1>5. FrameLen(s[g + 1]) <= Len(b)
  BY <1>1
<1>6. /\ Shift(g, s, off) \in [(g + 1)..Len(s) -> Nat]
      /\ Layout(g + 1, s, Shift(g, s, off))
      /\ Carries(t, g + 1, s, Shift(g, s, off))
      /\ Len(b) = off[Len(s)] => Len(t) = Shift(g, s, off)[Len(s)]
  BY <1>1, <1>2, <1>3, <1>4, <1>5, DropFrame
<1> QED BY <1>6 DEF b, t

LEMMA DrainMore ==
    ASSUME NEW s \in Seq(Sendable), NEW g \in Nat, g < Len(s), NEW off, Layout(g, s, off),
           NEW p \in Seq(Bytes), NEW r \in Seq(Bytes), NEW w \in Seq(Bytes),
           Carries((p \o r) \o w, g, s, off), Len((p \o r) \o w) = off[Len(s)],
           FrameLen(s[g + 1]) \in Nat, FrameLen(s[g + 1]) <= Len(p),
           NEW q \in Seq(Bytes), Without(q, p, FrameLen(s[g + 1]))
    PROVE  /\ Carries((q \o r) \o w, g + 1, s, Shift(g, s, off))
           /\ Len((q \o r) \o w) = Shift(g, s, off)[Len(s)]
<1> DEFINE z == r \o w
<1>1. z \in Seq(Bytes)
  BY ConcatProperties
<1>2. (q \o r) \o w = q \o z /\ (p \o r) \o w = p \o z
  BY Reassociate, Zenon
<1> HIDE DEF z
<1>3. Carries(p \o z, g, s, off) /\ Len(p \o z) = off[Len(s)]
  BY <1>2
<1>4. Carries(q \o z, g + 1, s, Shift(g, s, off)) /\ Len(q \o z) = Shift(g, s, off)[Len(s)]
  BY <1>1, <1>3, DrainCarries
<1> QED BY <1>2, <1>4

LEMMA FlowDrains ==
    ASSUME NEW s \in Seq(Sendable), NEW g \in Nat, g < Len(s), NEW off, Layout(g, s, off),
           NEW p \in Seq(Bytes), NEW r \in Seq(Bytes), NEW w \in Seq(Bytes),
           NEW st, Carries(p \o r, g, s, off),
           st = "up" => Carries((p \o r) \o w, g, s, off) /\ Len((p \o r) \o w) = off[Len(s)],
           FrameLen(s[g + 1]) \in Nat, FrameLen(s[g + 1]) <= Len(p),
           NEW q \in Seq(Bytes), Without(q, p, FrameLen(s[g + 1]))
    PROVE  Flow(q, r, w, s, g + 1, st)
<1> DEFINE off2 == Shift(g, s, off)
<1>1. /\ off2 \in [(g + 1)..Len(s) -> Nat] /\ Layout(g + 1, s, off2)
      /\ Carries(q \o r, g + 1, s, off2)
  BY DrainCarries
<1>2. ASSUME st = "up"
      PROVE  Carries((q \o r) \o w, g + 1, s, off2) /\ Len((q \o r) \o w) = off2[Len(s)]
  BY <1>2, DrainMore
<1>3. g + 1 <= Len(s)
  BY LenProperties
<1> HIDE DEF off2
<1> QED BY <1>1, <1>2, <1>3 DEF Flow

\* The same bytes, p of which have arrived.
Resplit(p, r, b, c) == p \o r = b \o c

\* FramedReader has p, and r is still on the way: it does not refuse p, and the
\* frame that it drains is that of the next message that was sent.
LEMMA FlowReads ==
    ASSUME NEW b \in Seq(Bytes), NEW c \in Seq(Bytes), NEW w \in Seq(Bytes),
           NEW s \in Seq(Sendable), NEW g \in Nat, NEW st,
           Flow(b, c, w, s, g, st),
           NEW p \in Seq(Bytes), NEW r \in Seq(Bytes), p # <<>>, Resplit(p, r, b, c)
    PROVE  /\ g < Len(s) /\ s[g + 1] \in Message /\ p[1].msg = s[g + 1]
           /\ ~TooLarge(p) /\ ~Malformed(p)
           /\ ~HasFrame(p) => Flow(p, r, w, s, g, st)
           /\ HasFrame(p) =>
                /\ SubSeq(p, Len(Drained(p)) + 1, Len(p)) \in Seq(Bytes)
                /\ Flow(SubSeq(p, Len(Drained(p)) + 1, Len(p)), r, w, s, g + 1, st)
<1>1. PICK off \in [g..Len(s) -> Nat] :
        /\ g <= Len(s) /\ Layout(g, s, off) /\ Carries(p \o r, g, s, off)
        /\ st = "up" => Carries((p \o r) \o w, g, s, off) /\ Len((p \o r) \o w) = off[Len(s)]
  BY DEF Flow, Resplit
<1>2. Len(p) \in Nat /\ Len(r) \in Nat /\ Len(s) \in Nat
  BY LenProperties
<1> DEFINE v == p \o r
<1>3. /\ v \in Seq(Bytes) /\ Len(v) = Len(p) + Len(r)
      /\ \A i \in 1..Len(p) + Len(r) : v[i] = IF i <= Len(p) THEN p[i] ELSE r[i - Len(p)]
  BY ConcatProperties
<1>4. Carries(v, g, s, off)
  BY <1>1
<1> HIDE DEF v
<1>5. Len(p) <= Len(v) /\ \A i \in 1..Len(p) : p[i] = v[i]
  <2>1. \A i \in 1..Len(p) : i \in 1..Len(p) + Len(r) /\ i <= Len(p)
    BY <1>2
  <2>2. Len(p) <= Len(v)
    BY <1>2, <1>3
  <2> QED BY <1>3, <2>1, <2>2
<1>6. /\ g < Len(s) /\ s[g + 1] \in Sendable /\ p[1].msg = s[g + 1]
      /\ ~TooLarge(p) /\ ~Malformed(p)
      /\ HasFrame(p) => Len(Drained(p)) = FrameLen(s[g + 1]) /\ FrameLen(s[g + 1]) <= Len(p)
  BY <1>1, <1>3, <1>4, <1>5, FirstFrame
<1>7. ~HasFrame(p) => Flow(p, r, w, s, g, st)
  BY <1>1 DEF Flow
<1>8. ASSUME HasFrame(p)
      PROVE  /\ SubSeq(p, Len(Drained(p)) + 1, Len(p)) \in Seq(Bytes)
             /\ Flow(SubSeq(p, Len(Drained(p)) + 1, Len(p)), r, w, s, g + 1, st)
  <2> DEFINE f == FrameLen(s[g + 1])
             q == SubSeq(p, f + 1, Len(p))
  <2>1. f \in Nat /\ f <= Len(p) /\ Len(Drained(p)) = f
    BY <1>6, <1>8, FrameLenType DEF Sendable
  <2> HIDE DEF f
  <2>2. q \in Seq(Bytes) /\ Without(q, p, f)
    <3>1. q \in Seq(Bytes) /\ Len(q) = Len(p) - f /\ \A i \in 1..(Len(p) - f) : q[i] = p[f + i]
      BY <2>1, LastMembers
    <3> HIDE DEF q
    <3> QED BY <3>1 DEF Without
  <2> HIDE DEF q
  <2>3. Flow(q, r, w, s, g + 1, st)
    BY <1>1, <1>6, <2>1, <2>2, FlowDrains DEF f
  <2> QED BY <2>1, <2>2, <2>3 DEF q
<1> QED BY <1>6, <1>7, <1>8 DEF Sendable

-----------------------------------------------------------------------------
(* The steps of the connection.                                            *)

\* What a reader has after n bytes, and what is still on the way.
LEMMA ChunkSplits ==
    ASSUME StreamInv, NEW d \in Dirs, NEW n \in Nat, n >= 1, n <= Len(chan[d]),
           NEW r, r = SubSeq(chan[d], n + 1, Len(chan[d]))
    PROVE  /\ Buffered(d, n) \in Seq(Bytes) /\ r \in Seq(Bytes) /\ Buffered(d, n) # <<>>
           /\ Resplit(Buffered(d, n), r, buffer[d], chan[d])
<1>1. buffer[d] \in Seq(Bytes) /\ chan[d] \in Seq(Bytes)
  BY DEF StreamInv, StreamTypeOK
<1> DEFINE b == buffer[d]
           c == chan[d]
           x == SubSeq(c, 1, n)
           y == SubSeq(c, n + 1, Len(c))
<1> HIDE DEF b, c
<1>2. b \in Seq(Bytes) /\ c \in Seq(Bytes) /\ n <= Len(c)
  BY <1>1 DEF b, c
<1>3. x \in Seq(Bytes) /\ Len(x) = n /\ y \in Seq(Bytes) /\ (b \o x) \o y = b \o c
  BY <1>2, FirstMembers, LastMembers, Regroup
<1> HIDE DEF x, y
<1>4. b \o x \in Seq(Bytes) /\ Len(b \o x) = Len(b) + n /\ Len(b) \in Nat
  BY <1>2, <1>3, ConcatProperties, LenProperties
<1>5. b \o x # <<>>
  <2>1. Len(<<>>) = 0
    BY EmptySeq
  <2>2. Len(b \o x) # 0
    BY <1>4
  <2> QED BY <2>1, <2>2
<1>6. Buffered(d, n) = b \o x /\ r = y
  BY DEF Buffered, b, c, x, y
<1> QED BY <1>3, <1>4, <1>5, <1>6 DEF b, c, Resplit

\* Two ends that speak the protocol do not refuse each other's bytes.
LEMMA StreamAccepted == StreamInv => FramesAccepted
<1> SUFFICES ASSUME StreamInv, NEW d \in Dirs, NEW n \in 1..Len(chan[d])
             PROVE  ~TooLarge(Buffered(d, n)) /\ ~Malformed(Buffered(d, n))
  BY DEF FramesAccepted, Garbled, Dirs
<1>1. /\ buffer[d] \in Seq(Bytes) /\ chan[d] \in Seq(Bytes) /\ writing[d] \in Seq(Bytes)
      /\ sent[d] \in Seq(Sendable) /\ got[d] \in Seq(Message)
      /\ Flow(buffer[d], chan[d], writing[d], sent[d], Len(got[d]), LinkState)
  BY DEF StreamInv, StreamTypeOK, InStep
<1>2. n \in Nat /\ n >= 1 /\ n <= Len(chan[d]) /\ Len(got[d]) \in Nat
  BY <1>1, LenProperties
<1> DEFINE r == SubSeq(chan[d], n + 1, Len(chan[d]))
<1>3. /\ Buffered(d, n) \in Seq(Bytes) /\ r \in Seq(Bytes) /\ Buffered(d, n) # <<>>
      /\ Resplit(Buffered(d, n), r, buffer[d], chan[d])
  BY <1>2, ChunkSplits
<1> DEFINE b == buffer[d]
           c == chan[d]
           w == writing[d]
           s == sent[d]
           g == Len(got[d])
           st == LinkState
           p == Buffered(d, n)
<1>4. /\ b \in Seq(Bytes) /\ c \in Seq(Bytes) /\ w \in Seq(Bytes) /\ s \in Seq(Sendable)
      /\ g \in Nat /\ Flow(b, c, w, s, g, st) /\ p \in Seq(Bytes) /\ r \in Seq(Bytes)
      /\ p # <<>> /\ Resplit(p, r, b, c)
  BY <1>1, <1>2, <1>3
<1> HIDE DEF r, b, c, w, s, g, st, p
<1>5. ~TooLarge(p) /\ ~Malformed(p)
  BY <1>4, FlowReads
<1> QED BY <1>5 DEF p

\* A reader takes n bytes of direction d.
LEMMA StreamTakes ==
    ASSUME StreamInv, NEW d \in Dirs, NEW n \in 1..SocketCap,
           Chunk(d, n), Store(d, Buffered(d, n)), Delivered(d, Buffered(d, n)),
           UNCHANGED <<writing, sent, link>>
    PROVE  /\ Buffered(d, n)[1].msg \in Message
           /\ chan' \in [Dirs -> Seq(Bytes)] /\ buffer' \in [Dirs -> Seq(Bytes)]
           /\ got' \in [Dirs -> Seq(Message)]
           /\ \A e \in Dirs : InStep(e)'
           /\ UNCHANGED got \/ AbstractLink!Deliver(d)
<1>1. /\ buffer[d] \in Seq(Bytes) /\ chan[d] \in Seq(Bytes) /\ writing[d] \in Seq(Bytes)
      /\ sent[d] \in Seq(Sendable) /\ got[d] \in Seq(Message)
      /\ Flow(buffer[d], chan[d], writing[d], sent[d], Len(got[d]), LinkState)
  BY DEF StreamInv, StreamTypeOK, InStep
<1>2. n \in Nat /\ n >= 1 /\ n <= Len(chan[d]) /\ Len(got[d]) \in Nat
  BY <1>1, LenProperties, TransportAssumption DEF Chunk
<1> DEFINE p == Buffered(d, n)
           r == SubSeq(chan[d], n + 1, Len(chan[d]))
           q == SubSeq(p, Len(Drained(p)) + 1, Len(p))
           g == Len(got[d])
           s == sent[d]
<1>3. p \in Seq(Bytes) /\ r \in Seq(Bytes) /\ p # <<>> /\ Resplit(p, r, buffer[d], chan[d])
  BY <1>2, ChunkSplits
<1>4. /\ chan' = [chan EXCEPT ![d] = r]
      /\ buffer' = [buffer EXCEPT ![d] = IF HasFrame(p) THEN q ELSE p]
      /\ got' = [got EXCEPT ![d] = IF HasFrame(p) THEN Append(got[d], p[1].msg) ELSE got[d]]
  BY DEF Chunk, Store, Delivered
<1> DEFINE b == buffer[d]
           c == chan[d]
           w == writing[d]
           st == LinkState
<1>5. /\ g < Len(s) /\ s[g + 1] \in Message /\ p[1].msg = s[g + 1]
      /\ ~HasFrame(p) => Flow(p, r, w, s, g, st)
      /\ HasFrame(p) => q \in Seq(Bytes) /\ Flow(q, r, w, s, g + 1, st)
  <2>1. /\ b \in Seq(Bytes) /\ c \in Seq(Bytes) /\ w \in Seq(Bytes) /\ s \in Seq(Sendable)
        /\ g \in Nat /\ Flow(b, c, w, s, g, st) /\ p \in Seq(Bytes) /\ r \in Seq(Bytes)
        /\ p # <<>> /\ Resplit(p, r, b, c)
    BY <1>1, <1>2, <1>3
  <2> HIDE DEF b, c, w, s, g, st, p, r
  <2> QED BY <2>1, FlowReads
<1> HIDE DEF b, c, p, r, q, g, s
<1>6. /\ chan' \in [Dirs -> Seq(Bytes)] /\ chan'[d] = r
      /\ buffer' \in [Dirs -> Seq(Bytes)] /\ buffer'[d] = (IF HasFrame(p) THEN q ELSE p)
  BY <1>3, <1>4, <1>5 DEF StreamInv, StreamTypeOK
<1>7. /\ got' \in [Dirs -> Seq(Message)]
      /\ Len(got'[d]) = (IF HasFrame(p) THEN g + 1 ELSE g)
  <2>1. Append(got[d], p[1].msg) \in Seq(Message) /\ Len(Append(got[d], p[1].msg)) = g + 1
    BY <1>1, <1>5, AppendProperties DEF g
  <2>2. got \in [Dirs -> Seq(Message)]
    BY DEF StreamInv, StreamTypeOK
  <2> QED BY <1>4, <2>1, <2>2 DEF g
<1>8. ASSUME NEW e \in Dirs PROVE InStep(e)'
  <2>1. CASE e = d
    <3>1. Flow(buffer'[d], chan'[d], writing[d], s, Len(got'[d]), LinkState)
      BY <1>5, <1>6, <1>7
    <3> QED BY <2>1, <3>1 DEF InStep, LinkState, s
  <2>2. CASE e # d
    <3>1. buffer'[e] = buffer[e] /\ chan'[e] = chan[e] /\ got'[e] = got[e]
      BY <1>4, <2>2 DEF StreamInv, StreamTypeOK
    <3> QED BY <3>1 DEF StreamInv, InStep, LinkState
  <2> QED BY <2>1, <2>2
<1>9. UNCHANGED got \/ AbstractLink!Deliver(d)
  <2>1. CASE HasFrame(p)
    BY <1>4, <1>5, <2>1 DEF AbstractLink!Deliver, g, s
  <2>2. CASE ~HasFrame(p)
    BY <1>4, <2>2 DEF StreamInv, StreamTypeOK
  <2> QED BY <2>1, <2>2
<1> QED BY <1>5, <1>6, <1>7, <1>8, <1>9 DEF p

\* write_all of direction d.
LEMMA StreamWrites ==
    ASSUME StreamInv, NEW d \in Dirs, NEW n \in 1..SocketCap, WritePart(d, n)
    PROVE  StreamInv'
<1> DEFINE b == buffer[d]
           c == chan[d]
           w == writing[d]
           s == sent[d]
           g == Len(got[d])
           x == SubSeq(w, 1, n)
           y == SubSeq(w, n + 1, Len(w))
<1>1. LinkState = "up" /\ LinkState' = "up"
  BY DEF WritePart, LinkState
<1>2. /\ b \in Seq(Bytes) /\ c \in Seq(Bytes) /\ w \in Seq(Bytes) /\ s \in Seq(Sendable)
      /\ got[d] \in Seq(Message) /\ Flow(b, c, w, s, g, "up")
  BY <1>1 DEF StreamInv, StreamTypeOK, InStep
<1>3. n \in Nat /\ n <= Len(w) /\ g \in Nat
  BY <1>2, LenProperties, TransportAssumption DEF WritePart
<1>4. /\ chan' = [chan EXCEPT ![d] = c \o x] /\ writing' = [writing EXCEPT ![d] = y]
      /\ UNCHANGED <<buffer, sent, got, cmds, reply, tasks, out>>
  BY DEF WritePart
<1> HIDE DEF b, c, w, s, g
<1>5. Flow(b, c \o x, y, s, g, "up")
  BY <1>2, <1>3, FlowWrites
<1>6. c \o x \in Seq(Bytes) /\ y \in Seq(Bytes)
  <2>1. x \in Seq(Bytes) /\ y \in Seq(Bytes)
    BY <1>2, <1>3, FirstMembers, LastMembers
  <2> HIDE DEF x, y
  <2> QED BY <1>2, <2>1, ConcatProperties
<1> DEFINE z == c \o x
<1> HIDE DEF y, z
<1>7. StreamTypeOK' /\ chan'[d] = z /\ writing'[d] = y
  BY <1>4, <1>6 DEF StreamInv, StreamTypeOK, z
<1>8. ASSUME NEW e \in Dirs PROVE InStep(e)'
  <2>1. CASE e = d
    <3>1. Flow(b, z, y, s, g, "up")
      BY <1>5 DEF z
    <3> QED BY <1>1, <1>4, <1>7, <2>1, <3>1 DEF InStep, b, s, g
  <2>2. CASE e # d
    <3>1. writing'[e] = writing[e] /\ chan'[e] = chan[e]
      BY <1>4, <2>2 DEF StreamInv, StreamTypeOK
    <3> QED BY <1>1, <1>4, <3>1 DEF StreamInv, InStep
  <2> QED BY <2>1, <2>2
<1> QED BY <1>7, <1>8 DEF StreamInv

\* write_message in direction d.
LEMMA StreamSends ==
    ASSUME StreamInv, NEW d \in Dirs, NEW m \in Sendable, writing[d] = <<>>, Write(d, m),
           UNCHANGED <<buffer, chan, got, link>>
    PROVE  /\ writing' \in [Dirs -> Seq(Bytes)] /\ sent' \in [Dirs -> Seq(Sendable)]
           /\ \A e \in Dirs : InStep(e)'
           /\ AbstractLink!Next
<1> DEFINE b == buffer[d]
           c == chan[d]
           s == sent[d]
           g == Len(got[d])
           st == LinkState
<1>1. /\ b \in Seq(Bytes) /\ c \in Seq(Bytes) /\ s \in Seq(Sendable)
      /\ got[d] \in Seq(Message) /\ Flow(b, c, <<>>, s, g, st)
  BY DEF StreamInv, StreamTypeOK, InStep
<1>2. g \in Nat
  BY <1>1, LenProperties
<1>3. /\ writing' = [writing EXCEPT ![d] = Frame(m)]
      /\ sent' = [sent EXCEPT ![d] = Append(s, m)]
  BY DEF Write
<1> HIDE DEF b, c, s, g, st
<1>4. Flow(b, c, Frame(m), Append(s, m), g, st)
  BY <1>1, <1>2, FlowSends
<1>5. Append(s, m) \in Seq(Sendable) /\ Frame(m) \in Seq(Bytes)
  BY <1>1, AppendProperties, FrameLenType DEF Sendable
<1>6. /\ writing' \in [Dirs -> Seq(Bytes)] /\ writing'[d] = Frame(m)
      /\ sent' \in [Dirs -> Seq(Sendable)] /\ sent'[d] = Append(s, m)
  BY <1>3, <1>5 DEF StreamInv, StreamTypeOK
<1>7. ASSUME NEW e \in Dirs PROVE InStep(e)'
  <2>1. CASE e = d
    BY <1>4, <1>6, <2>1 DEF InStep, LinkState, b, c, g, st
  <2>2. CASE e # d
    <3>1. writing'[e] = writing[e] /\ sent'[e] = sent[e]
      BY <1>3, <2>2 DEF StreamInv, StreamTypeOK
    <3> QED BY <3>1 DEF StreamInv, InStep, LinkState
  <2> QED BY <2>1, <2>2
<1>8. AbstractLink!Next
  <2>1. AbstractLink!Send(d, m)
    BY <1>3 DEF AbstractLink!Send, s
  <2>2. m \in Message
    BY DEF Sendable
  <2> QED BY <2>1, <2>2 DEF AbstractLink!Next
<1> QED BY <1>6, <1>7, <1>8

\* The connection ends, whoever ends it.
LEMMA StreamDown ==
    ASSUME StreamInv, link' = FALSE, UNCHANGED <<buffer, sent, got>>,
           UNCHANGED chan \/ Lose
    PROVE  chan' \in [Dirs -> Seq(Bytes)] /\ \A e \in Dirs : InStep(e)'
<1>1. ASSUME NEW e \in Dirs
      PROVE  chan'[e] \in Seq(Bytes) /\ InStep(e)'
  <2> DEFINE b == buffer[e]
             c == chan[e]
             w == writing[e]
             s == sent[e]
             g == Len(got[e])
             st == LinkState
             v == writing'[e]
  <2>1. /\ b \in Seq(Bytes) /\ c \in Seq(Bytes) /\ s \in Seq(Sendable)
        /\ got[e] \in Seq(Message) /\ Flow(b, c, w, s, g, st)
    BY DEF StreamInv, StreamTypeOK, InStep
  <2>2. g \in Nat
    BY <2>1, LenProperties
  <2>3. chan'[e] = c \/ \E n \in Nat : n <= Len(c) /\ chan'[e] = SubSeq(c, 1, n)
    <3>1. CASE UNCHANGED chan
      BY <3>1
    <3>2. CASE Lose
      <4>1. PICK i \in 0..Len(chan["up"]), j \in 0..Len(chan["down"]) :
              chan' = [d \in Dirs |-> SubSeq(chan[d], 1, IF d = "up" THEN i ELSE j)]
        BY <3>2 DEF Lose
      <4>2. Len(chan["up"]) \in Nat /\ Len(chan["down"]) \in Nat
        BY LenProperties DEF StreamInv, StreamTypeOK, Dirs
      <4>3. i \in Nat /\ i <= Len(chan["up"]) /\ j \in Nat /\ j <= Len(chan["down"])
        BY <4>2
      <4>4. CASE e = "up"
        BY <4>1, <4>3, <4>4
      <4>5. CASE e = "down"
        BY <4>1, <4>3, <4>5
      <4> QED BY <4>4, <4>5 DEF Dirs
    <3> QED BY <3>1, <3>2
  <2> HIDE DEF b, c, w, s, g, st, v
  <2>4. chan'[e] \in Seq(Bytes) /\ Flow(b, chan'[e], v, s, g, "down")
    <3>1. CASE chan'[e] = c
      BY <2>1, <3>1, FlowDown
    <3>2. CASE \E n \in Nat : n <= Len(c) /\ chan'[e] = SubSeq(c, 1, n)
      <4>1. PICK n \in Nat : n <= Len(c) /\ chan'[e] = SubSeq(c, 1, n)
        BY <3>2
      <4>2. SubSeq(c, 1, n) \in Seq(Bytes)
        BY <2>1, <4>1, FirstMembers
      <4>3. Flow(b, SubSeq(c, 1, n), v, s, g, "down")
        BY <2>1, <2>2, <4>1, FlowCut
      <4> QED BY <4>1, <4>2, <4>3
    <3> QED BY <2>3, <3>1, <3>2
  <2> QED BY <2>4 DEF InStep, LinkState, b, s, g, v
<1>2. chan' = [d \in Dirs |-> chan'[d]]
  BY DEF StreamInv, StreamTypeOK, Lose
<1> QED BY <1>1, <1>2

\* A step of MessageLink, or none.
LinkStep == AbstractLink!Next \/ UNCHANGED <<sent, got>>

LEMMA EmptyInStep ==
    ASSUME buffer = Empty, chan = Empty, writing = Empty, sent = Empty, got = Empty,
           NEW d \in Dirs
    PROVE  InStep(d)
<1>1. Len(<<>>) = 0
  BY EmptySeq
<1> DEFINE st == LinkState
<1> HIDE DEF st
<1>2. Flow(<<>>, <<>>, <<>>, <<>>, 0, st)
  BY FlowEmpty
<1> QED BY <1>1, <1>2 DEF InStep, Empty, st

LEMMA StreamInit == Init => StreamInv /\ AbstractLink!Init
<1> SUFFICES ASSUME Init PROVE StreamInv /\ AbstractLink!Init
  OBVIOUS
<1>1. Cold \/ Known \/ Connected
  BY BudgetsAssumption DEF Init
<1>2. Idle
  BY <1>1 DEF Cold, Known, Connected, TransportInit, TransportConnected
<1>3. \A S : <<>> \in Seq(S)
  BY EmptySeq
<1>4. StreamTypeOK
  BY <1>2, <1>3 DEF Idle, Empty, StreamTypeOK
<1>5. \A d \in Dirs : InStep(d)
  BY <1>2, EmptyInStep DEF Idle
<1>6. AbstractLink!Init
  BY <1>2 DEF AbstractLink!Init, Idle, Empty
<1> QED BY <1>4, <1>5, <1>6 DEF StreamInv

\* Steps that leave the bytes alone.
LEMMA StreamQuiet ==
    ASSUME StreamInv, UNCHANGED <<buffer, chan, writing, sent, got, link>>,
           cmds' \in Seq(Sendable), reply' \in Seq(Message), tasks' \subseteq Message,
           out' \in Seq(Message)
    PROVE  StreamInv' /\ LinkStep
<1>1. StreamTypeOK'
  BY DEF StreamInv, StreamTypeOK
<1>2. ASSUME NEW d \in Dirs PROVE InStep(d)'
  BY DEF StreamInv, InStep, LinkState
<1> QED BY <1>1, <1>2 DEF StreamInv, LinkStep

LEMMA StreamEnds == ASSUME StreamInv, Ended PROVE StreamInv' /\ LinkStep
<1>1. \A d \in Dirs : InStep(d)'
  BY StreamDown DEF Ended
<1>2. <<>> \in Seq(Bytes) /\ <<>> \in Seq(Message)
  BY EmptySeq
<1>3. StreamTypeOK'
  BY <1>2 DEF Ended, StreamInv, StreamTypeOK
<1> QED BY <1>1, <1>3 DEF StreamInv, LinkStep, Ended

LEMMA StreamOpens == ASSUME StreamInv, Open PROVE StreamInv' /\ LinkStep
<1>1. \A S : <<>> \in Seq(S)
  BY EmptySeq
<1>2. StreamTypeOK'
  BY <1>1 DEF Open, Empty, StreamInv, StreamTypeOK
<1>3. ASSUME NEW d \in Dirs PROVE InStep(d)'
  <2>1. Len(<<>>) = 0
    BY EmptySeq
  <2> DEFINE st == LinkState'
  <2> HIDE DEF st
  <2>2. Flow(<<>>, <<>>, <<>>, <<>>, 0, st)
    BY FlowEmpty
  <2> QED BY <2>1, <2>2 DEF Open, InStep, Empty, st
<1>4. AbstractLink!Next
  BY DEF Open, Empty, AbstractLink!Next, AbstractLink!Reopen
<1> QED BY <1>2, <1>3, <1>4 DEF StreamInv, LinkStep

LEMMA StreamCalls ==
    ASSUME StreamInv, NEW c \in Calls, NEW kind \in {"inline", "urb"},
           NEW len \in UrbLens \cup {0}, Call(c, kind, len)
    PROVE  StreamInv' /\ LinkStep
<1> DEFINE m == [id |-> c, kind |-> kind, len |-> len]
<1>1. m \in Message
  BY DEF Message, Lens
<1>2. m \in Sendable
  <2>1. len \in 0..MAX_PAYLOAD
    BY TransportAssumption
  <2> QED BY <1>1, <2>1, TransportAssumption DEF Sendable
<1>3. cmds \in Seq(Sendable) /\ (cmds' = cmds \/ cmds' = Append(cmds, m))
  BY DEF StreamInv, StreamTypeOK, Call
<1> HIDE DEF m
<1>4. cmds' \in Seq(Sendable)
  BY <1>2, <1>3, AppendProperties
<1>5. UNCHANGED <<buffer, chan, writing, sent, got, link, reply, tasks, out>>
  BY DEF Call
<1> QED BY <1>4, <1>5, StreamQuiet DEF StreamInv, StreamTypeOK

LEMMA StreamPumps == ASSUME StreamInv, PumpStep PROVE StreamInv' /\ LinkStep
<1>1. CASE PumpCommand
  <2>1. cmds \in Seq(Sendable) /\ cmds # <<>>
    BY <1>1 DEF PumpCommand, StreamInv, StreamTypeOK
  <2>2. Head(cmds) \in Sendable /\ Tail(cmds) \in Seq(Sendable)
    BY <2>1, HeadTailProperties
  <2>3. UNCHANGED <<buffer, chan, got, link, reply, tasks, out>> /\ cmds' = Tail(cmds)
    BY <1>1 DEF PumpCommand, Cancelled, StreamInv, StreamTypeOK
  <2>4. "up" \in Dirs /\ writing["up"] = <<>> /\ Write("up", Head(cmds))
    BY <1>1 DEF PumpCommand, Dirs
  <2>5. /\ writing' \in [Dirs -> Seq(Bytes)] /\ sent' \in [Dirs -> Seq(Sendable)]
        /\ \A e \in Dirs : InStep(e)'
        /\ AbstractLink!Next
    BY <2>2, <2>3, <2>4, StreamSends
  <2> QED BY <2>2, <2>3, <2>5 DEF StreamInv, StreamTypeOK, LinkStep
<1>2. ASSUME NEW n \in 1..SocketCap, PumpReads(n) PROVE StreamInv' /\ LinkStep
  <2>1. /\ Chunk("down", n) /\ Store("down", Buffered("down", n))
        /\ Delivered("down", Buffered("down", n)) /\ "down" \in Dirs
        /\ UNCHANGED <<writing, sent, link, cmds, reply, tasks, out>>
    BY <1>2 DEF PumpReads, Dirs
  <2>2. /\ chan' \in [Dirs -> Seq(Bytes)] /\ buffer' \in [Dirs -> Seq(Bytes)]
        /\ got' \in [Dirs -> Seq(Message)]
        /\ \A e \in Dirs : InStep(e)'
        /\ UNCHANGED got \/ AbstractLink!Deliver("down")
    BY <2>1, StreamTakes
  <2>3. LinkStep
    BY <2>1, <2>2 DEF LinkStep, AbstractLink!Next
  <2> QED BY <2>1, <2>2, <2>3 DEF StreamInv, StreamTypeOK
<1>3. ASSUME NEW n \in 1..SocketCap, WritePart("up", n) PROVE StreamInv' /\ LinkStep
  <2>1. StreamInv'
    BY <1>3, StreamWrites DEF Dirs
  <2> QED BY <1>3, <2>1 DEF WritePart, LinkStep
<1>4. CASE PumpEnds
  <2>1. \A d \in Dirs : InStep(d)'
    BY <1>4, StreamDown DEF PumpEnds
  <2>2. <<>> \in Seq(Bytes) /\ <<>> \in Seq(Sendable)
    BY EmptySeq
  <2>3. StreamTypeOK'
    BY <1>4, <2>2 DEF PumpEnds, StreamInv, StreamTypeOK
  <2> QED BY <1>4, <2>1, <2>3 DEF StreamInv, LinkStep, PumpEnds
<1> QED BY <1>1, <1>2, <1>3, <1>4 DEF PumpStep

LEMMA StreamServes == ASSUME StreamInv, SessionStep PROVE StreamInv' /\ LinkStep
<1>1. ASSUME NEW n \in 1..SocketCap, WritePart("down", n) PROVE StreamInv' /\ LinkStep
  <2>1. StreamInv'
    BY <1>1, StreamWrites DEF Dirs
  <2> QED BY <1>1, <2>1 DEF WritePart, LinkStep
<1>2. ASSUME NEW n \in 1..SocketCap, NEW len \in Lens, ReaderReads(n, len)
      PROVE  StreamInv' /\ LinkStep
  <2> DEFINE m == Buffered("up", n)[1].msg
             a == [m EXCEPT !.len = len]
  <2>1. /\ Chunk("up", n) /\ Store("up", Buffered("up", n))
        /\ Delivered("up", Buffered("up", n)) /\ "up" \in Dirs
        /\ UNCHANGED <<writing, sent, link, cmds, out>>
    BY <1>2 DEF ReaderReads, Dirs
  <2>2. /\ tasks' = tasks \/ tasks' = tasks \cup {a}
        /\ reply' = reply \/ reply' = <<a>>
    BY <1>2 DEF ReaderReads
  <2>3. /\ m \in Message
        /\ chan' \in [Dirs -> Seq(Bytes)] /\ buffer' \in [Dirs -> Seq(Bytes)]
        /\ got' \in [Dirs -> Seq(Message)]
        /\ \A e \in Dirs : InStep(e)'
        /\ UNCHANGED got \/ AbstractLink!Deliver("up")
    BY <2>1, StreamTakes
  <2>4. LinkStep
    BY <2>1, <2>3 DEF LinkStep, AbstractLink!Next
  <2> HIDE DEF m
  <2>5. a \in Message
    BY <2>3 DEF Message
  <2> HIDE DEF a
  <2>6. <<a>> \in Seq(Message)
    BY <2>5
  <2>7. tasks' \subseteq Message /\ reply' \in Seq(Message)
    BY <2>2, <2>5, <2>6 DEF StreamInv, StreamTypeOK
  <2> QED BY <2>1, <2>3, <2>4, <2>7 DEF StreamInv, StreamTypeOK
<1>3. CASE ReaderReplies
  <2>1. out \o reply \in Seq(Message) /\ <<>> \in Seq(Message)
    BY EmptySeq, ConcatProperties DEF StreamInv, StreamTypeOK
  <2> QED BY <1>3, <2>1, StreamQuiet DEF ReaderReplies, StreamInv, StreamTypeOK
<1>4. ASSUME NEW m \in tasks, TaskReplies(m) PROVE StreamInv' /\ LinkStep
  <2>1. m \in Message /\ out \in Seq(Message)
    BY DEF StreamInv, StreamTypeOK
  <2>2. Append(out, m) \in Seq(Message)
    BY <2>1, AppendProperties
  <2> QED BY <1>4, <2>2, StreamQuiet DEF TaskReplies, StreamInv, StreamTypeOK
<1>5. CASE WriterTakes
  <2>1. out \in Seq(Message) /\ out # <<>>
    BY <1>5 DEF WriterTakes, StreamInv, StreamTypeOK
  <2>2. Head(out) \in Message /\ Tail(out) \in Seq(Message)
    BY <2>1, HeadTailProperties
  <2>3. Head(out) \in Sendable
    BY <1>5, <2>2 DEF WriterTakes, Sendable
  <2>4. UNCHANGED <<buffer, chan, got, link, cmds, reply, tasks>> /\ out' = Tail(out)
    BY <1>5 DEF WriterTakes
  <2>5. "down" \in Dirs /\ writing["down"] = <<>> /\ Write("down", Head(out))
    BY <1>5 DEF WriterTakes, Dirs
  <2>6. /\ writing' \in [Dirs -> Seq(Bytes)] /\ sent' \in [Dirs -> Seq(Sendable)]
        /\ \A e \in Dirs : InStep(e)'
        /\ AbstractLink!Next
    BY <2>3, <2>4, <2>5, StreamSends
  <2> QED BY <2>2, <2>4, <2>6 DEF StreamInv, StreamTypeOK, LinkStep
<1>6. CASE ReaderEof
  BY <1>6, StreamQuiet DEF ReaderEof, StreamInv, StreamTypeOK
<1>7. CASE WriterRefuses \/ SessionEnds
  BY <1>7, StreamEnds DEF WriterRefuses, SessionEnds
<1> QED BY <1>1, <1>2, <1>3, <1>4, <1>5, <1>6, <1>7 DEF SessionStep

LEMMA StreamStep == StreamInv /\ [Next]_vars => StreamInv' /\ LinkStep
<1> SUFFICES ASSUME StreamInv, [Next]_vars PROVE StreamInv' /\ LinkStep
  OBVIOUS
<1>1. ASSUME UNCHANGED transportVars PROVE StreamInv' /\ LinkStep
  BY <1>1, StreamQuiet DEF transportVars, StreamInv, StreamTypeOK
<1>2. CASE \/ Boots \/ Dials \/ GivesUp \/ Hangup \/ UNCHANGED vars
           \/ \E i \in Attempts : Proceeds(i)
  BY <1>1, <1>2 DEF Boots, Dials, GivesUp, Hangup, vars, Proceeds
<1>3. CASE Crashes
  BY <1>1, <1>3, StreamEnds DEF Crashes
<1>4. CASE Connects
  BY <1>4, StreamOpens DEF Connects
<1>5. CASE Calling
  <2>1. PICK c \in Calls : Call(c, "inline", 0) \/ \E len \in UrbLens : Call(c, "urb", len)
    BY <1>5 DEF Calling
  <2> QED BY <2>1, StreamCalls
<1>6. CASE Pumps
  BY <1>6, StreamPumps DEF Pumps
<1>7. CASE Serves
  BY <1>7, StreamServes DEF Serves
<1>8. CASE Loses
  <2>1. chan' \in [Dirs -> Seq(Bytes)] /\ \A e \in Dirs : InStep(e)'
    BY <1>8, StreamDown DEF Loses, Lose
  <2> QED BY <1>8, <2>1 DEF Loses, Lose, StreamInv, StreamTypeOK, LinkStep
<1> QED BY <1>2, <1>3, <1>4, <1>5, <1>6, <1>7, <1>8 DEF Next

\* FramedReader never meets a frame that is too large or malformed: however the
\* bytes are split up and whatever is cancelled, it starts at a header.
THEOREM NothingRefused == Spec => []FramesAccepted
BY StreamInit, StreamStep, StreamAccepted, PTL DEF Spec

\* write_message and FramedReader together are a MessageLink: what read_message
\* returns are the messages that were written, whole, in order and once.
THEOREM LinkIsMessageLink == Spec => ImplementsMessageLink
<1>1. StreamInv /\ [Next]_vars => [AbstractLink!Next]_<<sent, got>>
  BY StreamStep DEF LinkStep
<1> QED BY StreamInit, StreamStep, <1>1, PTL DEF Spec, ImplementsMessageLink, AbstractLink!Spec
=============================================================================
