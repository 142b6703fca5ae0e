------------------------------ MODULE MCForward ------------------------------
\* Small instances of the USB/IP forwarder.
EXTENDS Forward

Symmetric == Permutations(UrbTasks) \cup Permutations(Importers)
=============================================================================
