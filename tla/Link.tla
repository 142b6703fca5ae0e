-------------------------------- MODULE Link ---------------------------------
(***************************************************************************)
(* The life of a client's connection: the server starts, keeps or loses    *)
(* its identity and crashes; the client pins it, dials, makes calls over   *)
(* the connection, loses it and dials again.                               *)
(***************************************************************************)
EXTENDS Dial, Transport, Wire

CONSTANT Budgets        \* bounds to explore, and where the exploration starts

ASSUME BudgetsAssumption ==
    Budgets \subseteq [from : {"cold", "known", "connected"}, starts : Nat, dials : Nat,
                      calls : 0..MaxCalls, losses : Nat]

VARIABLES
    calls,      \* bound: calls the client makes
    losses      \* bound: losses of the network that are left

vars == <<identityVars, dialVars, transportVars, calls, losses>>

LinkTypeOK ==
    /\ IdentityTypeOK /\ DialTypeOK /\ TransportTypeOK
    /\ calls \in 0..MaxCalls /\ losses \in Nat

\* A server that has never run, one that is up and pinned, or one to which the
\* client has just connected.
Cold == ColdStart /\ pinned = 0 /\ kept = FALSE /\ DialInit /\ TransportInit
Known == Settled /\ pinned = 1 /\ kept = TRUE /\ DialInit /\ TransportInit
Connected ==
    /\ Settled /\ pinned = 1 /\ kept = TRUE
    /\ DialConnected(Len(Addrs)) /\ TransportConnected

Init ==
    /\ clean = TRUE
    /\ \E b \in Budgets :
         /\ starts = b.starts /\ dials = b.dials /\ calls = b.calls /\ losses = b.losses
         /\ CASE b.from = "cold" -> Cold
              [] b.from = "known" -> Known
              [] b.from = "connected" -> Connected

Boots == ServerStep /\ UNCHANGED <<dialVars, transportVars, calls, losses>>

\* All connections of the server end with it.
Crashes ==
    /\ Crash
    /\ served' = {}
    /\ IF session = "closed" THEN UNCHANGED transportVars ELSE Ended
    /\ UNCHANGED <<pinned, kept, dialing, attempt, tries, held, winner, dials, calls, losses>>

\* An attempt gets on, or times out.
Proceeds(i) ==
    /\ AttemptStep(i) \/ TimeOut(i)
    /\ UNCHANGED <<identityVars, transportVars, calls, losses>>

\* All of the race have failed.
GivesUp == RaceLost /\ UNCHANGED <<identityVars, transportVars, calls, losses>>

Dials ==
    /\ \/ Pin \/ RaceBegins
       \/ \E i \in Attempts : ConnectSaved(i) \/ RetryFailed(i)
    /\ UNCHANGED <<identityVars, transportVars, calls, losses>>

\* The client that connect returns has a pump of its own.
Connects ==
    /\ \E i \in Attempts : RaceWon(i) \/ RetryOk(i)
    /\ Open
    /\ UNCHANGED <<identityVars, calls, losses>>

\* The session may have ended between the Hello and the first call.
Calling ==
    /\ dialing = "connected"
    /\ \E c \in Calls : c <= calls
         /\ \/ Call(c, "inline", 0)
            \/ \E len \in UrbLens : Call(c, "urb", len)
    /\ UNCHANGED <<identityVars, dialVars, calls, losses>>

Pumps == PumpStep /\ UNCHANGED <<identityVars, dialVars, calls, losses>>

Serves ==
    /\ SessionStep
    /\ served' = IF session' = "closed" THEN served \ {winner} ELSE served
    /\ UNCHANGED <<identityVars, pinned, kept, dialing, attempt, tries, held, winner, dials,
                   calls, losses>>

Loses ==
    /\ losses > 0 /\ Lose
    /\ losses' = losses - 1
    /\ UNCHANGED <<identityVars, dialVars, calls>>

\* The client notices that its pump has ended, and may dial again.
Hangup ==
    /\ dialing = "connected" /\ ~pump
    /\ dialing' = "idle" /\ winner' = NoAttempt /\ held' = {}
    /\ UNCHANGED <<identityVars, pinned, kept, attempt, tries, served, dials,
                   transportVars, calls, losses>>

Next ==
    \/ Boots \/ Crashes \/ Dials \/ Connects \/ GivesUp \/ Hangup
    \/ \E i \in Attempts : Proceeds(i)
    \/ Calling \/ Pumps \/ Serves \/ Loses

Spec == Init /\ [][Next]_vars

\* Tokio runs what is ready, timers fire, and an attempt that gets an answer
\* goes on.  Nothing is assumed of the user, the network, or the server's start.
Fairness ==
    /\ WF_vars(Pumps) /\ WF_vars(Serves)
    /\ WF_vars(Connects) /\ WF_vars(GivesUp)
    /\ \A i \in Attempts : WF_vars(Proceeds(i))

FairSpec == Spec /\ Fairness

-----------------------------------------------------------------------------

\* Over a connection that is up both ends read what the other has written, and
\* take nothing else for a message (farbus-protocol, encode and decode).
RoundTrip == link => LayoutsAgree

\* No URB that the forwarder lets through ends the session it is sent on, or is
\* completed on: the largest transfer fits with all that goes before its data
\* (usbip_forward.rs:290 and host_usb.rs:166 against MAX_PAYLOAD).
UrbsFit == session # "closed" => TransfersFit

\* Devices that a running pump has brought are listed to USB/IP clients so that
\* they do not lose step (encode_device_header and encode_interfaces).
DevlistInStep == pump => ListedInStep
=============================================================================
