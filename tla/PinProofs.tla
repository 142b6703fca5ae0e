------------------------------ MODULE PinProofs ------------------------------
(***************************************************************************)
(* Proofs about pairing, module PinConsole, for any number of clients,     *)
(* PINs, attempts and slots of the broadcast channel.                      *)
(***************************************************************************)
EXTENDS PinConsole, SequenceTheorems, TLAPS

\* No PIN is ever left behind consumed: the success that consumes it replaces
\* it under the same lock (validate_pairing_pin).
NeverConsumed == pin.consumed = FALSE

\* `attempts` of the current PIN counts exactly the misses against it, and a
\* PIN that is yet to come has none.
MissesCounted ==
    /\ misses[serial] = pin.attempts
    /\ \A n \in Serials : n > serial => misses[n] = 0

\* What has paired someone is older than the current PIN.
UsedAreOld == \A i \in DOMAIN pairedWith : pairedWith[i] < serial

ConsoleInv == ConsoleTypeOK /\ NeverConsumed /\ MissesCounted /\ UsedAreOld /\ PinSingleUse

\* The channel takes the new PIN, whether or not anyone listens and however
\* far behind the listener is.
LEMMA SendTyped ==
    ASSUME updates \in Seq(Serials), Len(updates) <= BroadcastCap,
           subscribed \in BOOLEAN, NEW n \in Serials, send(n)
    PROVE  updates' \in Seq(Serials) /\ Len(updates') <= BroadcastCap
<1>1. CASE ~subscribed
  BY <1>1 DEF send
<1>2. CASE subscribed /\ Len(updates) < BroadcastCap
  BY <1>2, ConsoleAssumption, AppendProperties DEF send
<1>3. CASE subscribed /\ ~(Len(updates) < BroadcastCap)
  <2>1. updates # <<>> /\ Len(updates) \in Nat
    BY <1>3, ConsoleAssumption, LenProperties
  <2>2. Tail(updates) \in Seq(Serials) /\ Len(Tail(updates)) = Len(updates) - 1
    BY <2>1, HeadTailProperties
  <2>3. updates' = Append(Tail(updates), n)
    BY <1>3 DEF send
  <2> QED BY <2>1, <2>2, <2>3, ConsoleAssumption, AppendProperties
<1> QED BY <1>1, <1>2, <1>3

\* A rotation makes the next PIN current.
LEMMA RotateTyped ==
    ASSUME ConsoleTypeOK, Rotate
    PROVE  /\ serial' = serial + 1 /\ serial' \in Serials
           /\ updates' \in Seq(Serials) /\ Len(updates') <= BroadcastCap
<1>1. serial + 1 \in Serials
  BY ConsoleAssumption DEF ConsoleTypeOK, Rotate, Serials
<1> QED BY <1>1, SendTyped DEF ConsoleTypeOK, Rotate

\* The fields of a fresh PIN and of one that has been tried.
LEMMA PinFields ==
    ASSUME NEW p \in Pin, p.consumed = FALSE, NEW match \in BOOLEAN
    PROVE  /\ issue \in Pin /\ issue.attempts = 0 /\ issue.consumed = FALSE
           /\ AfterIsValid(p, FALSE) \in Pin /\ AfterIsValid(p, FALSE).consumed = FALSE
           /\ AfterIsValid(p, FALSE).attempts =
                IF Locked(p) \/ p.expired THEN p.attempts ELSE p.attempts + 1
           /\ Validates(p, match) <=> ~Locked(p) /\ ~p.expired /\ match
           /\ Rotates(p, match) <=> ~Locked(p) /\ (p.expired \/ match)
           /\ ~Rotates(p, match) => AfterIsValid(p, match) = AfterIsValid(p, FALSE)
<1>1. issue \in Pin /\ issue.attempts = 0 /\ issue.consumed = FALSE
  BY MaxAttemptsAssumption DEF issue, Pin
<1>2. p.attempts \in 0..MaxAttempts /\ p.expired \in BOOLEAN
  BY DEF Pin
<1>3. /\ AfterIsValid(p, FALSE) \in Pin /\ AfterIsValid(p, FALSE).consumed = FALSE
      /\ AfterIsValid(p, FALSE).attempts =
                IF Locked(p) \/ p.expired THEN p.attempts ELSE p.attempts + 1
  <2>1. CASE Locked(p) \/ p.expired
    BY <2>1 DEF AfterIsValid
  <2>2. CASE ~Locked(p) /\ ~p.expired
    <3>1. p.attempts + 1 \in 0..MaxAttempts
      BY <1>2, <2>2, MaxAttemptsAssumption DEF Locked
    <3>2. AfterIsValid(p, FALSE) = [p EXCEPT !.attempts = p.attempts + 1]
      BY <2>2 DEF AfterIsValid
    <3> QED BY <2>2, <3>1, <3>2 DEF Pin
  <2> QED BY <2>1, <2>2
<1>4. /\ Validates(p, match) <=> ~Locked(p) /\ ~p.expired /\ match
      /\ Rotates(p, match) <=> ~Locked(p) /\ (p.expired \/ match)
  BY <1>2 DEF Validates, Rotates, Reissues, is_valid
<1>5. ~Rotates(p, match) => AfterIsValid(p, match) = AfterIsValid(p, FALSE)
  BY <1>2, <1>4 DEF AfterIsValid
<1> QED BY <1>1, <1>3, <1>4, <1>5

\* What a PairRequest does, in the two ways it can end.
LEMMA PairCases ==
    ASSUME ConsoleInv, NEW c \in Clients, NEW mistyped \in BOOLEAN, Pair(c, mistyped)
    PROVE  LET match == ~mistyped /\ typed[c] = serial
           IN  \/ /\ ~Locked(pin) /\ (pin.expired \/ match)
                  /\ pin' = issue /\ Rotate
                  /\ misses' \in {misses, [misses EXCEPT ![serial] = @ + 1]}
                  /\ misses' # misses => misses[serial] < MaxAttempts
                  /\ \/ pairedWith' = pairedWith
                     \/ pairedWith' = Append(pairedWith, serial)
               \/ /\ Locked(pin) \/ (~pin.expired /\ ~match)
                  /\ pin' = AfterIsValid(pin, FALSE)
                  /\ UNCHANGED <<serial, updates, pairedWith>>
                  /\ misses' = IF ~match /\ ~pin.expired /\ misses[serial] < MaxAttempts
                               THEN [misses EXCEPT ![serial] = @ + 1] ELSE misses
<1> DEFINE match == ~mistyped /\ typed[c] = serial
<1>1. match \in BOOLEAN /\ pin \in Pin /\ pin.consumed = FALSE /\ pin.expired \in BOOLEAN
  BY DEF ConsoleInv, ConsoleTypeOK, NeverConsumed, Pin
<1>2. /\ Validates(pin, match) <=> ~Locked(pin) /\ ~pin.expired /\ match
      /\ Rotates(pin, match) <=> ~Locked(pin) /\ (pin.expired \/ match)
      /\ ~Rotates(pin, match) => AfterIsValid(pin, match) = AfterIsValid(pin, FALSE)
  BY <1>1, PinFields
<1> HIDE DEF match
<1>3. /\ pin' = validate_pairing_pin(pin, match)
      /\ IF Rotates(pin, match) THEN Rotate ELSE UNCHANGED <<serial, updates>>
      /\ pairedWith' = IF Validates(pin, match) THEN Append(pairedWith, serial) ELSE pairedWith
      /\ misses' = IF ~match /\ ~pin.expired /\ misses[serial] < MaxAttempts
                     THEN [misses EXCEPT ![serial] = @ + 1] ELSE misses
  BY DEF Pair, match
<1> QED BY <1>1, <1>2, <1>3 DEF validate_pairing_pin, match

\* Every step keeps the invariant.
LEMMA ConsoleStep ==
    ASSUME ConsoleInv, [ConsoleNext]_consoleVars
    PROVE  ConsoleInv'
<1> USE DEF ConsoleInv, ConsoleTypeOK, NeverConsumed, MissesCounted, UsedAreOld, PinSingleUse
<1>0. serial \in Nat /\ \A i \in DOMAIN pairedWith : pairedWith[i] \in Serials
  BY ConsoleAssumption, LenProperties, ElementOfSeq DEF Serials
<1>1. CASE Subscribe
  BY <1>1 DEF Subscribe
<1>2. CASE ShowPin
  <2>1. /\ Head(updates) \in Serials /\ Tail(updates) \in Seq(Serials)
        /\ Len(Tail(updates)) = Len(updates) - 1 /\ Len(updates) \in Nat
    BY <1>2, HeadTailProperties, LenProperties DEF ShowPin
  <2>2. Len(Tail(updates)) <= BroadcastCap
    BY <2>1, ConsoleAssumption
  <2> QED BY <1>2, <2>1, <2>2 DEF ShowPin
<1>3. CASE Renew
  <2>1. pin' = issue /\ Rotate /\ UNCHANGED <<subscribed, displayed, typed, pairedWith, misses>>
    BY <1>3 DEF Renew, renew_expired_pin
  <2>2. issue \in Pin /\ issue.attempts = 0 /\ issue.consumed = FALSE
    BY PinFields
  <2>3. /\ serial' = serial + 1 /\ serial' \in Serials
        /\ updates' \in Seq(Serials) /\ Len(updates') <= BroadcastCap
    BY <2>1, RotateTyped
  <2> QED BY <1>0, <2>1, <2>2, <2>3 DEF Serials
<1>4. CASE Expire
  <2>1. pin' \in Pin /\ pin'.attempts = pin.attempts /\ pin'.consumed = pin.consumed
    BY <1>4 DEF Expire, PinExpires, Pin
  <2> QED BY <1>4, <2>1 DEF Expire
<1>5. ASSUME NEW c \in Clients, Read(c) PROVE ConsoleInv'
  BY <1>5 DEF Read
<1>6. ASSUME NEW c \in Clients, NEW m \in BOOLEAN, Pair(c, m) PROVE ConsoleInv'
  <2> DEFINE match == ~m /\ typed[c] = serial
  <2>1. UNCHANGED <<subscribed, displayed>> /\ typed' \in [Clients -> {0} \cup Serials]
    BY <1>6 DEF Pair
  <2>2. CASE /\ pin' = issue /\ Rotate
             /\ misses' \in {misses, [misses EXCEPT ![serial] = @ + 1]}
             /\ misses' # misses => misses[serial] < MaxAttempts
             /\ \/ pairedWith' = pairedWith
                \/ pairedWith' = Append(pairedWith, serial)
    <3>1. issue \in Pin /\ issue.attempts = 0 /\ issue.consumed = FALSE
      BY PinFields
    <3>2. /\ serial' = serial + 1 /\ serial' \in Serials
          /\ updates' \in Seq(Serials) /\ Len(updates') <= BroadcastCap
      BY <2>2, RotateTyped
    <3>3. /\ misses' \in [Serials -> 0..MaxAttempts]
          /\ \A n \in Serials : n > serial => misses'[n] = 0
      <4>1. CASE misses' = misses
        BY <4>1
      <4>2. CASE misses' = [misses EXCEPT ![serial] = @ + 1] /\ misses[serial] < MaxAttempts
        <5>1. misses[serial] + 1 \in 0..MaxAttempts
          BY <4>2, MaxAttemptsAssumption
        <5> QED BY <4>2, <5>1, <1>0
      <4> QED BY <2>2, <4>1, <4>2
    <3>4. pairedWith' \in Seq(Serials) /\ UsedAreOld' /\ PinSingleUse'
      <4>1. CASE pairedWith' = pairedWith
        BY <4>1, <3>2, <1>0 DEF Serials
      <4>2. CASE pairedWith' = Append(pairedWith, serial)
        <5>1. /\ pairedWith' \in Seq(Serials) /\ Len(pairedWith') = Len(pairedWith) + 1
              /\ \A i \in 1..Len(pairedWith) : pairedWith'[i] = pairedWith[i]
              /\ pairedWith'[Len(pairedWith) + 1] = serial
          BY <4>2, AppendProperties
        <5>2. /\ Len(pairedWith) \in Nat /\ DOMAIN pairedWith = 1..Len(pairedWith)
              /\ DOMAIN pairedWith' = 1..(Len(pairedWith) + 1)
          BY <5>1, LenProperties
        <5>3. \A i \in DOMAIN pairedWith' :
                i \in DOMAIN pairedWith \/ i = Len(pairedWith) + 1
          BY <5>2
        <5>4. \A i \in DOMAIN pairedWith' : pairedWith'[i] < serial + 1
          <6> TAKE i \in DOMAIN pairedWith'
          <6> QED BY <5>1, <5>2, <5>3, <1>0 DEF Serials
        <5>5. PinSingleUse'
          <6> SUFFICES ASSUME NEW i \in DOMAIN pairedWith', NEW j \in DOMAIN pairedWith', i # j
                       PROVE  pairedWith'[i] # pairedWith'[j]
            OBVIOUS
          <6>1. CASE i \in DOMAIN pairedWith /\ j \in DOMAIN pairedWith
            BY <5>1, <5>2, <6>1
          <6>2. CASE i = Len(pairedWith) + 1 \/ j = Len(pairedWith) + 1
            BY <5>1, <5>2, <5>3, <6>2, <1>0 DEF Serials
          <6> QED BY <5>3, <6>1, <6>2
        <5> QED BY <5>1, <5>4, <5>5, <3>2
      <4> QED BY <2>2, <4>1, <4>2
    <3> QED BY <2>1, <2>2, <3>1, <3>2, <3>3, <3>4 DEF Serials
  <2>3. CASE /\ Locked(pin) \/ (~pin.expired /\ ~match)
             /\ pin' = AfterIsValid(pin, FALSE)
             /\ UNCHANGED <<serial, updates, pairedWith>>
             /\ misses' = IF ~match /\ ~pin.expired /\ misses[serial] < MaxAttempts
                          THEN [misses EXCEPT ![serial] = @ + 1] ELSE misses
    <3>1. /\ pin' \in Pin /\ pin'.consumed = FALSE
          /\ pin'.attempts = IF Locked(pin) \/ pin.expired THEN pin.attempts ELSE pin.attempts + 1
      BY <2>3, PinFields
    <3>2. misses[serial] < MaxAttempts <=> ~Locked(pin)
      BY MaxAttemptsAssumption DEF Locked, Pin
    <3>3. /\ misses' \in [Serials -> 0..MaxAttempts] /\ misses'[serial] = pin'.attempts
          /\ \A n \in Serials : n > serial => misses'[n] = 0
      <4>1. CASE Locked(pin)
        BY <2>3, <3>1, <3>2, <4>1
      <4>2. CASE ~Locked(pin)
        <5>1. misses' = [misses EXCEPT ![serial] = @ + 1] /\ pin'.attempts = pin.attempts + 1
          BY <2>3, <3>1, <3>2, <4>2
        <5>2. misses[serial] + 1 \in 0..MaxAttempts
          BY <3>2, <4>2, MaxAttemptsAssumption
        <5> QED BY <5>1, <5>2, <1>0
      <4> QED BY <4>1, <4>2
    <3> QED BY <2>1, <2>3, <3>1, <3>3
  <2> HIDE DEF match
  <2>4. QED BY <1>6, <2>2, <2>3, PairCases DEF match
<1>7. CASE UNCHANGED consoleVars
  BY <1>7 DEF consoleVars
<1> QED BY <1>1, <1>2, <1>3, <1>4, <1>5, <1>6, <1>7 DEF ConsoleNext

LEMMA ConsoleStart == ConsoleInit => ConsoleInv
<1> SUFFICES ASSUME ConsoleInit PROVE ConsoleInv
  OBVIOUS
<1>1. issue \in Pin /\ issue.attempts = 0 /\ issue.consumed = FALSE
  BY MaxAttemptsAssumption DEF issue, Pin
<1>2. 1 \in Serials /\ <<>> \in Seq(Serials) /\ Len(<<>>) = 0 /\ DOMAIN <<>> = {}
  BY ConsoleAssumption, EmptySeq DEF Serials
<1>3. ConsoleTypeOK
  <2>1. /\ Len(updates) <= BroadcastCap /\ 0 \in 0..MaxAttempts
    BY <1>2, ConsoleAssumption, MaxAttemptsAssumption DEF ConsoleInit
  <2> QED BY <1>1, <1>2, <2>1 DEF ConsoleInit, ConsoleTypeOK
<1> QED BY <1>1, <1>2, <1>3 DEF ConsoleInit, ConsoleInv, NeverConsumed, MissesCounted,
                                UsedAreOld, PinSingleUse

\* No PIN ever pairs two requests (session.rs, validate_pairing_pin), however
\* many clients send it and whenever it expires or is renewed.
THEOREM PinPairsOnce == ConsoleSpec => []PinSingleUse
<1>1. ConsoleInv => PinSingleUse
  BY DEF ConsoleInv
<1> QED BY <1>1, ConsoleStart, ConsoleStep, PTL DEF ConsoleSpec

\* A PIN that has seen MaxAttempts wrong candidates pairs nobody, is never
\* reissued and stays locked (identity.rs, is_valid and reissue_if_expired).
THEOREM LockoutForGood == ConsoleSpec => LockoutIsFinal
<1> DEFINE Final == /\ Len(pairedWith') > Len(pairedWith) => misses[serial] < MaxAttempts
                    /\ Locked(pin) => Locked(pin') /\ serial' = serial
<1>1. ConsoleInv /\ [ConsoleNext]_consoleVars => [Final]_consoleVars
  <2> SUFFICES ASSUME ConsoleInv, ConsoleNext PROVE Final
    OBVIOUS
  <2> USE DEF ConsoleInv, ConsoleTypeOK
  <2>0. Len(pairedWith) \in Nat
    BY LenProperties
  <2>1. CASE Subscribe \/ ShowPin \/ \E c \in Clients : Read(c)
    BY <2>0, <2>1 DEF Subscribe, ShowPin, Read
  <2>2. CASE Renew
    BY <2>0, <2>2 DEF Renew, Reissues
  <2>3. CASE Expire
    <3>1. pin'.attempts = pin.attempts /\ UNCHANGED <<pairedWith, serial>>
      BY <2>3 DEF Expire, PinExpires, Pin
    <3> QED BY <2>0, <3>1 DEF Locked
  <2>4. ASSUME NEW c \in Clients, NEW m \in BOOLEAN, Pair(c, m) PROVE Final
    <3>1. CASE ~Locked(pin)
      <4>1. misses[serial] < MaxAttempts
        BY <3>1, MaxAttemptsAssumption DEF Locked, MissesCounted, Pin
      <4> QED BY <3>1, <4>1
    <3>2. CASE Locked(pin)
      <4>1. pin' = AfterIsValid(pin, FALSE) /\ UNCHANGED <<serial, pairedWith>>
        BY <2>4, <3>2, PairCases
      <4>2. pin' = pin
        BY <3>2, <4>1 DEF AfterIsValid
      <4>3. Locked(pin') /\ serial' = serial
        BY <3>2, <4>1, <4>2, Zenon
      <4>4. ~(Len(pairedWith') > Len(pairedWith))
        BY <2>0, <4>1
      <4> QED BY <4>3, <4>4
    <3> QED BY <3>1, <3>2
  <2> HIDE DEF Final
  <2> QED BY <2>1, <2>2, <2>3, <2>4 DEF ConsoleNext
<1> QED BY <1>1, ConsoleStart, ConsoleStep, PTL DEF ConsoleSpec, LockoutIsFinal
=============================================================================
