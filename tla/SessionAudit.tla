---------------------------- MODULE SessionAudit -----------------------------
(***************************************************************************)
(* The server of module Session with history variables, for what its own   *)
(* state forgets: which peers have ever been granted a device, through     *)
(* which connection the present lease was last asked for, and whether that *)
(* connection has been authenticated as another peer since.                *)
(***************************************************************************)
EXTENDS Session

VARIABLES
    grants,     \* id -> peers whose attach has succeeded
    via,        \* id -> connection of the last successful attach, while leased
    switched    \* leased ids whose connection has changed its principal since

auditVars == <<vars, grants, via, switched>>

AuditInit ==
    /\ Init
    /\ grants = [d \in Ids |-> {}]
    /\ via = [d \in Ids |-> NoSession]
    /\ switched = {}

RecordGrants ==
    grants' = [d \in Ids |-> IF owners'[d] = NoPeer THEN grants[d]
                             ELSE grants[d] \cup {owners'[d]}]

\* Connection s is authenticated as another peer than before.
Switches(s) == principal[s] # NoPeer /\ principal'[s] \notin {NoPeer, principal[s]}

Switched ==
    {d \in Ids : /\ owners'[d] # NoPeer
                 /\ d \in switched \/ (via[d] # NoSession /\ Switches(via[d]))}

AuditAttach(s, t, d) ==
    /\ HandleAttachRequest(s, t, d)
    /\ RecordGrants
    /\ IF owners'[d] = principal'[s]
       THEN via' = [via EXCEPT ![d] = s] /\ switched' = Switched \ {d}
       ELSE via' = via /\ switched' = Switched

AuditOther ==
    /\ Other
    /\ RecordGrants
    /\ via' = [d \in Ids |-> IF owners'[d] = NoPeer THEN NoSession ELSE via[d]]
    /\ switched' = Switched

AuditNext ==
    \/ \E s \in Sessions, t \in TokenIds, d \in Ids : AuditAttach(s, t, d)
    \/ AuditOther

AuditSpec == AuditInit /\ [][AuditNext]_auditVars

-----------------------------------------------------------------------------
\* A URB only ever runs for a peer that was granted its device, although the
\* lease check, the presence check, the permit and the task are steps apart and
\* the lease may have moved on in between.
UrbOnlyAfterGrant ==
    \A t \in TaskIds : tasks[t].phase # "free" => tasks[t].peer \in grants[tasks[t].dev]

\* A lease is stranded in one way only: the connection through which it was last
\* asked for has been authenticated as another peer since, by a second Hello, and its
\* teardown will drop the leases of that peer.  Any other lease has that connection
\* still, authenticated as its owner, and goes with it, whatever other connections
\* of the same peer come and go.
LeaseHolderConnected ==
    \A d \in Ids : owners[d] # NoPeer /\ d \notin switched =>
        /\ via[d] \in Sessions
        /\ conn[via[d]] # "closed"
        /\ principal[via[d]] = owners[d]

\* docs/COMPATIBILITY.md, "Not supported": concurrent use of one physical
\* device by multiple clients; docs/THREAT_MODEL.md, "Controls": exclusive
\* per-device leases reject a second client.  Two transfers on the same
\* hardware at the same time are those of one peer.
ExclusiveUse ==
    \A t, u \in TaskIds :
        /\ tasks[t].phase = "executing"
        /\ tasks[u].phase = "executing"
        /\ tasks[t].key = tasks[u].key
        => tasks[t].peer = tasks[u].peer

\* README.md, "What FarBus Does Today": dropped TLS sessions reconnect and
\* reattach the same lease.  The lease a connection has asked for last is not
\* taken from it, while it stays open, by the end of another connection.
ReattachedLeaseKept ==
    [][\A d \in Ids :
         /\ via[d] # NoSession
         /\ conn[via[d]] = "open" /\ conn'[via[d]] = "open"
         /\ conn' # conn
         => owners'[d] = owners[d]]_auditVars
=============================================================================
