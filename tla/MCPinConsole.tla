---------------------------- MODULE MCPinConsole -----------------------------
(* Two people pairing; the real five attempts, a one-slot broadcast channel. *)
EXTENDS PinConsole
=============================================================================
