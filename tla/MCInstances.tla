------------------------------ MODULE MCInstances -----------------------------
\* Several small instances of the USB/IP forwarder in one run.
EXTENDS MCForward

\* What an instance has: USB/IP connections, connections to the server, how many of
\* those the network may lose, URBs, unlinks, and what may happen to an import: that its
\* reader stops, that its peer goes.
CONSTANT Instances

VARIABLE instance

exploredVars == <<forwardVars, instance>>

InUse(tasks) == Cardinality({c \in tasks : pc'[c] # "idle"})

Within(e) ==
    /\ opened' <= e.pumps
    /\ \A i \in Pumps : i > e.lost /\ pump'[i] \in {"running", "aborted"} => link'[i]
    /\ InUse(Importers) <= e.imports
    /\ InUse(UrbTasks) <= e.urbs
    /\ InUse(UnlinkTasks) <= e.unlinks
    /\ \A h \in Importers : /\ pc'[h] = "closing" => "stops" \in e.ends
                            /\ writer'[h] # "up" => "goes" \in e.ends

ExploreInit == ForwardInit /\ instance \in Instances
ExploreNext == ForwardNext /\ Within(instance) /\ UNCHANGED instance
ExploreSpec == ExploreInit /\ [][ExploreNext]_exploredVars
ExploreFair == ExploreSpec /\ ForwardFairness /\ LossNoticed

\* Reconnects that follow one another; two imports with colliding numbers.
Reconnects ==
    [imports |-> 1, pumps |-> 3, lost |-> 2, urbs |-> 2, unlinks |-> 0, ends |-> {"stops"}]
TwoImports ==
    [imports |-> 2, pumps |-> 2, lost |-> 0, urbs |-> 2, unlinks |-> 1, ends |-> {"stops"}]
SafetyInstances == {Reconnects, TwoImports}

\* Two recoveries from one loss, each of which takes a reconnect of its own; an
\* import that closes while its URB recovers and an unlink holds the mutex.
TwoRecoveries == [Reconnects EXCEPT !.lost = 1, !.ends = {}]
Closing ==
    [imports |-> 1, pumps |-> 2, lost |-> 1, urbs |-> 1, unlinks |-> 1, ends |-> {"stops", "goes"}]
LiveInstances == {TwoRecoveries, Closing}
=============================================================================
