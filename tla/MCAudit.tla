------------------------------- MODULE MCAudit -------------------------------
(* Small instances of the server with its history variables. *)
EXTENDS SessionAudit, TLC

Symmetric == Permutations(Sessions) \cup Permutations(Peers) \cup Permutations(TaskIds)
=============================================================================
