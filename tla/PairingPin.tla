----------------------------- MODULE PairingPin ------------------------------
(***************************************************************************)
(* crates/farbus-core/src/identity.rs, PairingPin, and the two operations  *)
(* of ServerState that use it under its mutex (session.rs).  A PIN is      *)
(* fresh when issued; a candidate hash either matches the PIN that is      *)
(* current when the mutex is taken or it does not.  `expired` abstracts    *)
(* Instant::now() > expires_at.                                            *)
(***************************************************************************)
EXTENDS Naturals

CONSTANT MaxAttempts     \* failed attempts that lock the PIN out: 5

ASSUME MaxAttemptsAssumption == MaxAttempts \in Nat \ {0}

VARIABLE pin             \* ServerState.pin

Pin == [attempts : 0..MaxAttempts, expired : BOOLEAN, consumed : BOOLEAN]

issue == [attempts |-> 0, expired |-> FALSE, consumed |-> FALSE]

Locked(p) == p.attempts >= MaxAttempts

\* Mutation: a PIN that is locked out is reissued too.
ReissuesLocked(p) == p.expired

\* reissue_if_expired returns Some: expired and not locked out.
Reissues(p) == p.expired /\ ~Locked(p)

\* is_valid: the answer, and the PIN it leaves behind.
is_valid(p, match) == ~p.consumed /\ ~Locked(p) /\ ~p.expired /\ match

\* Mutation: attempts are counted beyond the limit.
AfterIsValidLocked(p, match) ==
    IF p.consumed \/ p.expired THEN p
    ELSE IF match THEN [p EXCEPT !.consumed = TRUE]
                  ELSE [p EXCEPT !.attempts = @ + 1]

AfterIsValid(p, match) ==
    IF p.consumed \/ Locked(p) \/ p.expired THEN p
    ELSE IF match THEN [p EXCEPT !.consumed = TRUE]
                  ELSE [p EXCEPT !.attempts = @ + 1]

\* validate_pairing_pin: the answer; whether it rotates the PIN (expired, or
\* used up by this success); the PIN it leaves behind.
Validates(p, match) == ~Reissues(p) /\ is_valid(p, match)
Rotates(p, match)   == Reissues(p) \/ is_valid(p, match)
validate_pairing_pin(p, match) ==
    IF Rotates(p, match) THEN issue ELSE AfterIsValid(p, match)

\* renew_expired_pin: what the 15 s timer of the console task does.
renew_expired_pin(p) == IF Reissues(p) THEN issue ELSE p

\* Two minutes pass.
PinExpires == ~pin.expired /\ pin' = [pin EXCEPT !.expired = TRUE]
=============================================================================
