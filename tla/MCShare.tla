------------------------------- MODULE MCShare -------------------------------
\* Several small instances of the server with its history variables in one run.
EXTENDS MCAudit

\* What may happen in an instance: the device comes and goes, URBs run, tokens and
\* PINs expire, a connection says a second Hello for another peer.
CONSTANT Instances

VARIABLE instance

exploredVars == <<auditVars, instance>>

Within(e) ==
    /\ "hotplug" \notin e => hotplugVars' = hotplugVars
    /\ "urbs" \notin e => pc' = pc
    /\ "expiry" \notin e => live \subseteq live' /\ ~pin'.expired
    /\ "switches" \notin e =>
         \A s \in Sessions : peer[s] # NoPeer => peer'[s] \in {peer[s], NoPeer}

ExploreInit == AuditInit /\ instance \in Instances
ExploreNext == AuditNext /\ Within(instance) /\ UNCHANGED instance
ExploreSpec == ExploreInit /\ [][ExploreNext]_exploredVars

\* URBs with each of the other three, and those together.
ShareInstances ==
    {{"urbs", "hotplug"}, {"urbs", "expiry"}, {"urbs", "switches"},
     {"hotplug", "expiry", "switches"}}
=============================================================================
