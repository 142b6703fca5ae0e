-------------------------------- MODULE Dial ---------------------------------
(***************************************************************************)
(* How a client gets a connection to the server whose fingerprint it has   *)
(* pinned: crates/farbus-core/src/path.rs (address order), happy.rs (race  *)
(* of the addresses), reconnect.rs (repeated attempts), tls.rs (pinning)   *)
(* and FarBusClient::connect_with_identity of client.rs.                   *)
(*                                                                         *)
(* An address is [v6, peer], where the peer is the server or somebody who  *)
(* never answers.  Attempts are numbered by their place in the order.      *)
(***************************************************************************)
EXTENDS ServerIdentity, Sequences, FiniteSets

CONSTANTS
    Addrs,          \* sequence of addresses of the server
    MaxAttempts,    \* ReconnectPolicy::max_attempts
    NoAttempt

ASSUME DialAssumption ==
    /\ Addrs \in Seq([v6 : BOOLEAN, peer : {"server", "silent"}])
    /\ MaxAttempts \in Nat \ {0}
    /\ NoAttempt \notin Nat

VARIABLES
    pinned,     \* fingerprint the client insists on, 0 before it has one
    kept,       \* the server had saved the identity when it was pinned
    dialing,    \* what the client does: nothing, a race, or attempts in a row
    attempt,    \* number -> where the attempt is
    tries,      \* attempts in a row that are left
    held,       \* attempts whose FarBusClient exists
    served,     \* attempts for which the server has a session
    winner,     \* the attempt the client uses
    dials       \* bound: connects that are left

dialVars == <<pinned, kept, dialing, attempt, tries, held, served, winner, dials>>

\* IPv6 first, then one IPv4, then the other IPv6 and the other IPv4 addresses.
connection_order(addrs) ==
    LET v6 == SelectSeq(addrs, LAMBDA a : a.v6)
        v4 == SelectSeq(addrs, LAMBDA a : ~a.v6)
        First(s) == SubSeq(s, 1, IF s = <<>> THEN 0 ELSE 1)
        Others(s) == SubSeq(s, 2, Len(s))
    IN  First(v6) \o First(v4) \o Others(v6) \o Others(v4)

Ordered == connection_order(Addrs)
Attempts == 1..Len(Addrs)
Running == {"tcp", "tls", "hello"}

DialTypeOK ==
    /\ pinned \in Nat /\ kept \in BOOLEAN
    /\ dialing \in {"idle", "race", "retry", "connected"}
    /\ attempt \in [Attempts -> Running \cup {"none", "waiting", "ok", "failed"}]
    /\ tries \in 0..MaxAttempts
    /\ held \subseteq Attempts /\ served \subseteq Attempts
    /\ winner \in Attempts \cup {NoAttempt}
    /\ dials \in Nat

DialInit ==
    /\ dialing = "idle" /\ winner = NoAttempt /\ tries = 0
    /\ attempt = [i \in Attempts |-> "none"]
    /\ held = {} /\ served = {}

DialConnected(i) ==
    /\ dialing = "connected" /\ winner = i /\ tries = 0
    /\ attempt = [j \in Attempts |-> "none"]
    /\ held = {i} /\ served = {i}

-----------------------------------------------------------------------------

\* The user takes the fingerprint from the console of the server.
Pin ==
    /\ Up /\ dialing = "idle" /\ pinned # cert
    /\ pinned' = cert
    /\ kept' = (Saved /\ cert_file = cert)
    /\ UNCHANGED <<dialing, attempt, tries, held, served, winner, dials>>

Begin ==
    /\ dialing = "idle" /\ pinned # 0 /\ dials > 0
    /\ dials' = dials - 1
    /\ UNCHANGED <<pinned, kept, held, served, winner>>

\* happy_eyeballs_connect spawns one task per address, each of which first
\* sleeps for its turn.
RaceBegins ==
    /\ Begin
    /\ dialing' = "race"
    /\ attempt' = [i \in Attempts |-> "waiting"]
    /\ UNCHANGED tries

\* connect_with_retry, or with one try only connect_with_identity and reconnect,
\* all on one address.
RetryBegins(i, n) ==
    /\ Begin
    /\ dialing' = "retry"
    /\ attempt' = [attempt EXCEPT ![i] = "tcp"]
    /\ tries' = n

\* connect_saved of the command-line client: once with the stored identity, and
\* again and again if none is stored.
ConnectSaved(i) == RetryBegins(i, 1) \/ RetryBegins(i, MaxAttempts)

Wake(i) ==
    /\ attempt[i] = "waiting"
    /\ attempt' = [attempt EXCEPT ![i] = "tcp"]
    /\ UNCHANGED <<pinned, kept, dialing, tries, held, served, winner, dials>>

\* TcpStream::connect.  A host without a server refuses.
Tcp(i) ==
    /\ attempt[i] = "tcp" /\ Ordered[i].peer = "server"
    /\ attempt' = [attempt EXCEPT ![i] = IF Up THEN "tls" ELSE "failed"]
    /\ UNCHANGED <<pinned, kept, dialing, tries, held, served, winner, dials>>

\* (Mutation) ObservingServerVerifier, which takes any certificate.
verify_any(actual) == actual = actual

\* PinnedServerVerifier
verify_server_cert(actual) == actual = pinned

\* The handshake.  The server has its session when it is over, and the client
\* its pump.
Tls(i) ==
    /\ attempt[i] = "tls"
    /\ LET ok == Up /\ verify_server_cert(cert)
       IN  /\ attempt' = [attempt EXCEPT ![i] = IF ok THEN "hello" ELSE "failed"]
           /\ held' = IF ok THEN held \cup {i} ELSE held
           /\ served' = IF ok THEN served \cup {i} ELSE served
    /\ UNCHANGED <<pinned, kept, dialing, tries, winner, dials>>

\* The answer to the Hello, or the end of the connection.
SayHello(i) ==
    /\ attempt[i] = "hello"
    /\ attempt' = [attempt EXCEPT ![i] = IF i \in served THEN "ok" ELSE "failed"]
    /\ held' = IF i \in served THEN held ELSE held \ {i}
    /\ UNCHANGED <<pinned, kept, dialing, tries, served, winner, dials>>

\* (Mutation) Only the handshake is timed.
TimeOutTls(i) ==
    /\ dialing = "race" /\ attempt[i] \in {"tls", "hello"}
    /\ attempt' = [attempt EXCEPT ![i] = "failed"]
    /\ held' = held \ {i}
    /\ UNCHANGED <<pinned, kept, dialing, tries, served, winner, dials>>

\* A task of the race gives up after 1,500 ms.
TimeOut(i) ==
    /\ dialing = "race" /\ attempt[i] \in Running
    /\ attempt' = [attempt EXCEPT ![i] = "failed"]
    /\ held' = held \ {i}
    /\ UNCHANGED <<pinned, kept, dialing, tries, served, winner, dials>>

\* (Mutation) Nobody aborts the others, or takes what they return.
RaceWonAlone(i) ==
    /\ dialing = "race" /\ attempt[i] = "ok"
    /\ dialing' = "connected" /\ winner' = i
    /\ attempt' = [attempt EXCEPT ![i] = "none"]
    /\ UNCHANGED <<pinned, kept, tries, held, served, dials>>

\* The first task that has a client wins; the others are aborted, and what they
\* have opened or returned is dropped with them.
RaceWon(i) ==
    /\ dialing = "race" /\ attempt[i] = "ok"
    /\ dialing' = "connected" /\ winner' = i
    /\ attempt' = [j \in Attempts |-> "none"]
    /\ held' = {i}
    /\ UNCHANGED <<pinned, kept, tries, served, dials>>

RaceLost ==
    /\ dialing = "race" /\ \A i \in Attempts : attempt[i] = "failed"
    /\ dialing' = "idle"
    /\ attempt' = [i \in Attempts |-> "none"]
    /\ UNCHANGED <<pinned, kept, tries, held, served, winner, dials>>

RetryOk(i) ==
    /\ dialing = "retry" /\ attempt[i] = "ok"
    /\ dialing' = "connected" /\ winner' = i
    /\ attempt' = [attempt EXCEPT ![i] = "none"]
    /\ UNCHANGED <<pinned, kept, tries, held, served, dials>>

\* After the backoff the next attempt, if there is one.
RetryFailed(i) ==
    /\ dialing = "retry" /\ attempt[i] = "failed"
    /\ tries' = tries - 1
    /\ dialing' = IF tries > 1 THEN "retry" ELSE "idle"
    /\ attempt' = [attempt EXCEPT ![i] = IF tries > 1 THEN "tcp" ELSE "none"]
    /\ UNCHANGED <<pinned, kept, held, served, winner, dials>>

\* A client that is dropped closes its connection, and its session ends.
SessionEof(i) ==
    /\ i \in served \ held
    /\ served' = served \ {i}
    /\ UNCHANGED <<pinned, kept, dialing, attempt, tries, held, winner, dials>>

AttemptStep(i) == Wake(i) \/ Tcp(i) \/ Tls(i) \/ SayHello(i) \/ SessionEof(i)

-----------------------------------------------------------------------------

\* Nothing but the pinned server is ever talked to, whichever attempt got
\* through and whatever identity the server has come back with (tls.rs).
OnlyPinned == Up => (served \cap held # {} => pinned = cert)

\* Once the identity was saved and then pinned, the server still has it after
\* every restart (load_or_create_server_identity), so a client that comes back
\* is let through by its pin and has no new fingerprint to confirm.  The tokens
\* do not survive (session.rs:46): it pairs again, with the server it knows.
RestartKeepsPin == clean /\ kept /\ Up => cert = pinned

\* A race returns a client or an error, although an address never answers.
RaceReturns == dialing = "race" ~> dialing # "race"

\* The losers of a race leave no session behind on the server: in the end only
\* the connection in use is served.
LosersEnd == dialing = "connected" ~> dialing # "connected" \/ served \subseteq {winner}
=============================================================================
