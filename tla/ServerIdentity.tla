--------------------------- MODULE ServerIdentity ----------------------------
(***************************************************************************)
(* crates/farbus-core/src/persist.rs: the key and the certificate of the   *)
(* server, kept in two files, and the start of the server that uses them   *)
(* (crates/farbus-server/src/main.rs).                                     *)
(*                                                                         *)
(* A generated identity is a number; its key, its certificate and the      *)
(* fingerprint of the certificate bear that number.  The temporary files   *)
(* are never read, so they are not part of the state.                      *)
(***************************************************************************)
EXTENDS Naturals

CONSTANTS Missing, Partial      \* a file that is not there, or cut short

ASSUME ContentsAssumption == Missing \notin Nat /\ Partial \notin Nat /\ Missing # Partial

VARIABLES
    key_file, cert_file,    \* key.der and cert.der
    server,                 \* where main is
    key, cert,              \* the identity main has in hand
    made,                   \* identities generated so far
    clean,                  \* no file that is there has failed to be read
    starts                  \* bound: starts of the server that are left

identityVars == <<key_file, cert_file, server, key, cert, made, clean, starts>>

Identities == Nat \ {0}
Contents == Identities \cup {Missing, Partial}

IdentityTypeOK ==
    /\ key_file \in Contents /\ cert_file \in Contents
    /\ server \in {"down", "save_key", "save_cert", "configure", "up"}
    /\ key \in Contents /\ cert \in Contents
    /\ made \in Nat /\ starts \in Nat
    /\ clean \in BOOLEAN

\* Either nothing is there yet, or the server has already been started once.
ColdStart ==
    /\ key_file = Missing /\ cert_file = Missing /\ made = 0
    /\ server = "down" /\ key = Missing /\ cert = Missing
Settled ==
    /\ key_file = 1 /\ cert_file = 1 /\ made = 1
    /\ server = "up" /\ key = 1 /\ cert = 1

Saved == key_file # Missing /\ cert_file # Missing
Up == server = "up"

\* (Mutation) The file is written in place.
TornInPlace(old) == {old, Partial}

\* What a crash during write_private_atomic leaves of a file: the old contents,
\* since the new ones are renamed into place once they are complete.
Torn(old) == {old}

-----------------------------------------------------------------------------

Starts ==
    /\ server = "down" /\ starts > 0
    /\ starts' = starts - 1
    /\ UNCHANGED <<key_file, cert_file>>

Generate ==
    /\ made' = made + 1
    /\ key' = made + 1 /\ cert' = made + 1
    /\ server' = "save_key"

\* (Mutation) A start never looks at the files.
StartForgets == Starts /\ Saved /\ Generate /\ UNCHANGED clean

\* load_identity takes whatever the two files hold.
StartLoads ==
    /\ Starts /\ Saved
    /\ key' = key_file /\ cert' = cert_file
    /\ server' = "configure"
    /\ UNCHANGED <<made, clean>>

\* A file is missing.
StartGenerates == Starts /\ ~Saved /\ Generate /\ UNCHANGED clean

\* Any error that keeps one of the files from being read counts as missing.
StartReadError == Starts /\ Saved /\ Generate /\ clean' = FALSE

\* save_identity gives up at the first error, and its result is ignored.
SaveKey ==
    /\ server = "save_key"
    /\ \/ key_file' = key /\ server' = "save_cert"
       \/ UNCHANGED key_file /\ server' = "configure"
    /\ UNCHANGED <<cert_file, key, cert, made, clean, starts>>

SaveCert ==
    /\ server = "save_cert"
    /\ cert_file' \in {cert, cert_file}
    /\ server' = "configure"
    /\ UNCHANGED <<key_file, key, cert, made, clean, starts>>

\* with_single_cert refuses a key that does not belong to the certificate, and
\* main ends.
Configure ==
    /\ server = "configure"
    /\ server' = IF key = cert /\ key # Partial THEN "up" ELSE "down"
    /\ UNCHANGED <<key_file, cert_file, key, cert, made, clean, starts>>

Crash ==
    /\ server # "down"
    /\ server' = "down"
    /\ key_file' \in IF server = "save_key" THEN Torn(key_file) ELSE {key_file}
    /\ cert_file' \in IF server = "save_cert" THEN Torn(cert_file) ELSE {cert_file}
    /\ UNCHANGED <<key, cert, made, clean, starts>>

ServerStep ==
    StartLoads \/ StartGenerates \/ StartReadError \/ SaveKey \/ SaveCert \/ Configure

-----------------------------------------------------------------------------

\* The two files never come from different identities, wherever a save was cut
\* short, as long as what was there could be read (save_identity, written only
\* when load_identity has failed).
PairMatches == clean /\ Saved => key_file = cert_file
=============================================================================
