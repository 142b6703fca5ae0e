----------------------------- MODULE PinConsole ------------------------------
(***************************************************************************)
(* Pairing as the person at the server sees it: the PIN printed on the     *)
(* console (crates/farbus-server/src/main.rs), the broadcast channel that  *)
(* carries rotated PINs to it, and clients that pair with a PIN they read  *)
(* there.  PINs are told apart by their serial number: two PINs drawn at   *)
(* random are taken to differ.                                             *)
(***************************************************************************)
EXTENDS PairingPin, Integers, Sequences

CONSTANTS
    Clients,        \* people pairing a client
    MaxPins,        \* bound: PINs issued in one run of the model
    BroadcastCap    \* slots of the broadcast channel: 16

ASSUME ConsoleAssumption ==
    MaxPins \in Nat \ {0} /\ BroadcastCap \in Nat \ {0}

VARIABLES
    serial,     \* serial number of the current PIN
    updates,    \* values the console's receiver has not taken yet
    subscribed, \* the console task has run subscribe_pairing_pins()
    displayed,  \* the last PIN printed
    typed,      \* client -> the PIN its user has read, 0 for none yet
    pairedWith, \* serials of the PINs that have paired someone, one per success
    misses      \* wrong PINs received while each PIN was valid, up to MaxAttempts

consoleVars == <<pin, serial, updates, subscribed, displayed, typed,
                 pairedWith, misses>>

Serials == 1..MaxPins

ConsoleTypeOK ==
    /\ pin \in Pin
    /\ serial \in Serials
    /\ updates \in Seq(Serials) /\ Len(updates) <= BroadcastCap
    /\ subscribed \in BOOLEAN
    /\ displayed \in Serials
    /\ typed \in [Clients -> {0} \cup Serials]
    /\ pairedWith \in Seq(Serials)
    /\ misses \in [Serials -> 0..MaxAttempts]

\* ServerState::new, and main() reading and printing the first PIN before it
\* accepts connections.
ConsoleInit ==
    /\ pin = issue
    /\ serial = 1
    /\ updates = <<>>
    /\ subscribed = FALSE
    /\ displayed = 1
    /\ typed = [c \in Clients |-> 0]
    /\ pairedWith = <<>>
    /\ misses = [n \in Serials |-> 0]

\* broadcast::Sender::send: dropped without a receiver; with the receiver a
\* full channel behind, the oldest value is lost.
send(n) ==
    updates' = IF ~subscribed THEN updates
               ELSE IF Len(updates) < BroadcastCap THEN Append(updates, n)
               ELSE Append(Tail(updates), n)

\* Mutation: the PIN is renewed without being replaced.
RotateSamePin == /\ serial' = serial
                 /\ send(serial)

\* A rotation under the PIN mutex: new PIN, new serial, published.  The last
\* PIN of the bounded model is one the console task can hear of.
Rotate == /\ serial < MaxPins
          /\ subscribed \/ serial < MaxPins - 1
          /\ serial' = serial + 1
          /\ send(serial + 1)

\* The console task starts and subscribes.
Subscribe ==
    /\ ~subscribed
    /\ subscribed' = TRUE
    /\ UNCHANGED <<pin, serial, updates, displayed, typed, pairedWith, misses>>

\* The console task prints a PIN it received.
ShowPin ==
    /\ updates # <<>>
    /\ displayed' = Head(updates)
    /\ updates' = Tail(updates)
    /\ UNCHANGED <<pin, serial, subscribed, typed, pairedWith, misses>>

\* Mutation: the renewed PIN is not published.
RenewSilently ==
    /\ subscribed
    /\ Reissues(pin)
    /\ serial < MaxPins /\ serial' = serial + 1
    /\ pin' = renew_expired_pin(pin)
    /\ UNCHANGED <<updates, subscribed, displayed, typed, pairedWith, misses>>

\* The renewal tick of the console task.
Renew ==
    /\ subscribed
    /\ Reissues(pin)
    /\ Rotate
    /\ pin' = renew_expired_pin(pin)
    /\ UNCHANGED <<subscribed, displayed, typed, pairedWith, misses>>

\* A user reads the PIN off the console.
Read(c) ==
    /\ typed' = [typed EXCEPT ![c] = displayed]
    /\ UNCHANGED <<pin, serial, updates, subscribed, displayed, pairedWith, misses>>

\* A PairRequest reaches the server with the PIN the user read, or with a
\* mistyped one; validate_pairing_pin runs to the end under the PIN mutex.
Pair(c, mistyped) ==
    LET match == ~mistyped /\ typed[c] = serial
    IN  /\ typed[c] # 0
        /\ pin' = validate_pairing_pin(pin, match)
        /\ IF Rotates(pin, match) THEN Rotate ELSE UNCHANGED <<serial, updates>>
        /\ pairedWith' = IF Validates(pin, match)
                         THEN Append(pairedWith, serial) ELSE pairedWith
        /\ misses' = IF ~match /\ ~pin.expired /\ misses[serial] < MaxAttempts
                     THEN [misses EXCEPT ![serial] = @ + 1] ELSE misses
        /\ typed' = [typed EXCEPT ![c] = 0]
        /\ UNCHANGED <<subscribed, displayed>>

Expire ==
    /\ PinExpires
    /\ UNCHANGED <<serial, updates, subscribed, displayed, typed, pairedWith, misses>>

ConsoleNext ==
    \/ Subscribe \/ ShowPin \/ Renew \/ Expire
    \/ \E c \in Clients : Read(c) \/ \E m \in BOOLEAN : Pair(c, m)

\* The console task is a Tokio task and its timer keeps firing; time passes.
ConsoleSpec ==
    /\ ConsoleInit /\ [][ConsoleNext]_consoleVars
    /\ WF_consoleVars(Subscribe) /\ WF_consoleVars(ShowPin)
    /\ WF_consoleVars(Renew) /\ WF_consoleVars(Expire)

-----------------------------------------------------------------------------
\* One successful use consumes the PIN (docs/THREAT_MODEL.md, "Controls"):
\* no PIN ever pairs two requests, however they interleave with expiry and
\* renewal.
PinSingleUse ==
    \A i, j \in DOMAIN pairedWith : i # j => pairedWith[i] # pairedWith[j]

\* Lockout: a PIN that has seen MaxAttempts wrong candidates never pairs anyone,
\* and it outlives its two minutes: nothing but a restart of the server brings a
\* usable PIN back (reissue_if_expired checks `attempts`).
LockoutIsFinal ==
    [][/\ Len(pairedWith') > Len(pairedWith) => misses[serial] < MaxAttempts
       /\ Locked(pin) => Locked(pin') /\ serial' = serial]_consoleVars

\* The console catches up: a PIN on display that is not the current one is
\* replaced by the current one, unless the current one gets locked out first.
\* The task subscribes only after the first PIN was read and printed, and a
\* slow receiver loses values.
ConsoleCatchesUp == (displayed # serial) ~> (displayed = serial \/ Locked(pin))
=============================================================================
