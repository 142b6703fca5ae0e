------------------------------ MODULE MCSession ------------------------------
(* Small instances of the server. *)
EXTENDS Session, TLC

Symmetric == Permutations(Sessions) \cup Permutations(Peers) \cup Permutations(TaskIds)
=============================================================================
