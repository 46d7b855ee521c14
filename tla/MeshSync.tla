------------------------------- MODULE MeshSync -------------------------------
(***************************************************************************)
(* The WireGuard tunnels between our own nodes:                            *)
(* internal/task/mesh_sync.go, with the callback into internal/task/rtt.go *)
(* and the interface commands of internal/wireguard/executor.go.           *)
(*                                                                         *)
(* Sync() sets up the tunnel of every peer served, removes those of peers  *)
(* it knew and no longer sees, hands the peers on as the targets of the    *)
(* latency measurement, and has a goroutine report the outcome, so that    *)
(* reports overtake each other.  Commands fail, reports are lost, an       *)
(* answer may come without data, and the agent restarts.                   *)
(***************************************************************************)
EXTENDS Naturals, FiniteSets

CONSTANTS Nodes,       \* node IDs the Control Plane may serve
          Self,        \* our own
          Keys,        \* public keys of the peers
          Faults,      \* kinds of fault that may happen
          MaxKinds,    \* how many kinds do in one behaviour, each any number of times
          MaxChanges   \* bound on the changes of what is served

FaultKinds == {"create",   \* an ip or wg command of CreateInterface fails
               "delete",   \* the one of DeleteInterface does
               "empty",    \* an answer has no data
               "lost",     \* a report does not arrive
               "restart"}

ASSUME MeshAssumption ==
    /\ Self \in Nodes
    /\ Keys \cap {"Absent", "bare"} = {}
    /\ Faults \subseteq FaultKinds
    /\ MaxKinds \in Nat
    /\ MaxChanges \in Nat

VARIABLES
    served,     \* the key of each node the Control Plane serves, or "Absent"
    peers,      \* nodes in m.peers
    newPeers,   \* newPeers of the Sync() in progress
    todo,       \* peers it has still to set up, then to remove
    status,     \* its peerStatus
    pc,         \* where it is
    tunnel,     \* per node: the key its interface sends to, or "bare", or "Absent"
    sent,       \* mesh reports on their way
    cpStatus,   \* what the Control Plane was told of each tunnel
    targets,    \* r.meshTargets
    faults,     \* kinds of fault that have happened
    changes

syncVars == <<peers, newPeers, todo, status, pc>>
vars == <<served, syncVars, tunnel, sent, cpStatus, targets, faults, changes>>

Lists    == [Nodes -> Keys \cup {"Absent"}]
Statuses == [Nodes -> {"none", "configured", "error"}]
NoList   == [n \in Nodes |-> "Absent"]
NoStatus == [n \in Nodes |-> "none"]
Listed(list) == {n \in Nodes : list[n] # "Absent"}

TypeOK ==
    /\ served \in Lists
    /\ peers \subseteq Nodes
    /\ newPeers \in Lists
    /\ todo \subseteq Nodes
    /\ status \in Statuses
    /\ pc \in {"idle", "ensure", "remove", "notify", "report"}
    /\ tunnel \in [Nodes -> Keys \cup {"bare", "Absent"}]
    /\ sent \subseteq Statuses
    /\ cpStatus \in Statuses
    /\ targets \subseteq Nodes
    /\ faults \subseteq Faults
    /\ changes \in 0..MaxChanges

Init ==
    /\ served \in {[n \in Nodes |-> key] : key \in Keys}
    /\ peers = {}
    /\ newPeers = NoList
    /\ todo = {}
    /\ status = NoStatus
    /\ pc = "idle"
    /\ tunnel = NoList
    /\ sent = {}
    /\ cpStatus = NoStatus
    /\ targets = {}
    /\ faults = {}
    /\ changes = 0

Fault(kind) ==
    /\ kind \in Faults
    /\ faults' = faults \cup {kind}
    /\ Cardinality(faults') <= MaxKinds

Goto(from, to) == pc = from /\ pc' = to

-----------------------------------------------------------------------------
(* Sync *)

Receive(list) ==
    /\ Goto("idle", "ensure")
    /\ newPeers' = list
    /\ todo' = Listed(list) \ {Self}
    /\ status' = NoStatus
    /\ UNCHANGED <<served, peers, tunnel, sent, cpStatus, targets, changes>>

FetchMeshConfig == Receive(served) /\ UNCHANGED faults

(* A body without "data" decodes to a list of nobody, and is believed.     *)
FetchEmpty == Receive(NoList) /\ Fault("empty")

Ensured(n, outcome) ==
    /\ pc = "ensure"
    /\ n \in todo
    /\ todo' = todo \ {n}
    /\ status' = [status EXCEPT ![n] = outcome]
    /\ UNCHANGED <<served, peers, newPeers, pc, sent, cpStatus, targets, changes>>

(* Mutation: a tunnel that is there is left alone.                         *)
EnsureOnce(n) ==
    /\ Ensured(n, "configured")
    /\ tunnel' = IF n \in peers THEN tunnel ELSE [tunnel EXCEPT ![n] = newPeers[n]]
    /\ UNCHANGED faults

(* Another key takes the allowed IPs over, and with them the traffic.      *)
EnsureMeshTunnel(n) ==
    /\ Ensured(n, "configured")
    /\ tunnel' = [tunnel EXCEPT ![n] = newPeers[n]]
    /\ UNCHANGED faults

(* CreateInterface gives up before it has added the interface, after, or,   *)
(* where one was in use, when it has already changed the peer.              *)
EnsureFails(n) ==
    /\ Ensured(n, "error")
    /\ Fault("create")
    /\ \/ UNCHANGED tunnel
       \/ tunnel[n] = "Absent" /\ tunnel' = [tunnel EXCEPT ![n] = "bare"]
       \/ tunnel[n] \in Keys   /\ tunnel' = [tunnel EXCEPT ![n] = newPeers[n]]

(* Mutation: peers whose tunnel could not be configured are not remembered. *)
RememberConfigured == {n \in Nodes : status[n] = "configured"}

Remembered == Listed(newPeers)

FindStale ==
    /\ Goto("ensure", "remove")
    /\ todo = {}
    /\ todo' = peers \ Listed(newPeers)
    /\ UNCHANGED <<served, peers, newPeers, status, tunnel, sent, cpStatus, targets,
                   faults, changes>>

Removed(n) ==
    /\ pc = "remove"
    /\ n \in todo
    /\ todo' = todo \ {n}
    /\ UNCHANGED <<served, peers, newPeers, status, pc, sent, cpStatus, targets, changes>>

RemoveMeshTunnel(n) ==
    /\ Removed(n)
    /\ tunnel' = [tunnel EXCEPT ![n] = "Absent"]
    /\ UNCHANGED faults

RemoveFails(n) ==
    /\ Removed(n)
    /\ Fault("delete")
    /\ UNCHANGED tunnel

SwapPeers ==
    /\ Goto("remove", "notify")
    /\ todo = {}
    /\ peers' = Remembered
    /\ UNCHANGED <<served, newPeers, todo, status, tunnel, sent, cpStatus, targets,
                   faults, changes>>

(* Mutation: targets are added to those there are.                         *)
AddMeshPeers ==
    /\ Goto("notify", "report")
    /\ targets' = targets \cup Listed(newPeers)
    /\ UNCHANGED <<served, peers, newPeers, todo, status, tunnel, sent, cpStatus,
                   faults, changes>>

(* onPeersUpdated is UpdateMeshPeers; the list names the node itself too.   *)
UpdateMeshPeers ==
    /\ Goto("notify", "report")
    /\ targets' = Listed(newPeers)
    /\ UNCHANGED <<served, peers, newPeers, todo, status, tunnel, sent, cpStatus,
                   faults, changes>>

Finish(reports) ==
    /\ Goto("report", "idle")
    /\ sent' = sent \cup reports
    /\ newPeers' = NoList
    /\ status' = NoStatus
    /\ UNCHANGED <<served, peers, todo, tunnel, cpStatus, targets, changes>>

(* The report leaves in a goroutine of its own.                            *)
ReportMeshStatus == Finish({status} \ {NoStatus}) /\ UNCHANGED faults

ReportLost == Finish({}) /\ Fault("lost")

(* The Control Plane stores what a report says of each peer.               *)
ReportArrives(report) ==
    /\ report \in sent
    /\ sent' = sent \ {report}
    /\ cpStatus' = [n \in Nodes |-> IF report[n] = "none" THEN cpStatus[n] ELSE report[n]]
    /\ UNCHANGED <<served, syncVars, tunnel, targets, faults, changes>>

-----------------------------------------------------------------------------
Serve(n, what) ==
    /\ changes < MaxChanges
    /\ what # served[n]
    /\ served' = [served EXCEPT ![n] = what]
    /\ changes' = changes + 1
    /\ UNCHANGED <<syncVars, tunnel, sent, cpStatus, targets, faults>>

(* Interfaces survive the agent, the map of peers does not.                *)
Restart ==
    /\ Fault("restart")
    /\ peers' = {}
    /\ newPeers' = NoList
    /\ todo' = {}
    /\ status' = NoStatus
    /\ pc' = "idle"
    /\ targets' = {}
    /\ UNCHANGED <<served, tunnel, sent, cpStatus, changes>>

SyncStep ==
    \/ FetchMeshConfig
    \/ \E n \in Nodes : EnsureMeshTunnel(n) \/ RemoveMeshTunnel(n)
    \/ FindStale \/ SwapPeers \/ UpdateMeshPeers \/ ReportMeshStatus

Arrival == \E report \in sent : ReportArrives(report)

FaultStep ==
    \/ FetchEmpty
    \/ \E n \in Nodes : EnsureFails(n) \/ RemoveFails(n)
    \/ ReportLost \/ Restart

Next ==
    \/ SyncStep \/ Arrival \/ FaultStep
    \/ \E n \in Nodes, what \in Keys \cup {"Absent"} : Serve(n, what)

Spec == Init /\ [][Next]_vars

(* The ticker keeps ticking, commands return, and a report that was sent    *)
(* arrives within the client's timeout or is lost.                          *)
LiveSpec == Spec /\ WF_vars(SyncStep) /\ WF_vars(Arrival)

-----------------------------------------------------------------------------
(* Properties *)

Others == Nodes \ {Self}

(* Every tunnel of the node belongs to a peer that Sync() knows, or has just *)
(* been told of, so that it will be removed when the peer goes: also one    *)
(* that was set up in part.  (A restart forgets the peers, and a removal    *)
(* that fails is not repeated.)                                             *)
TunnelsAreKnown ==
    faults \cap {"delete", "restart"} = {} =>
        \A n \in Others : tunnel[n] # "Absent" => n \in peers \cup Listed(newPeers)

(* Once the list settles and nothing fails any more, there is a tunnel with *)
(* its current key for every peer served, and no other tunnel: whatever     *)
(* was torn down for an answer without data, set up in part, or renewed.    *)
FaultsEnd == <>[][~FaultStep]_vars

MeshConverges ==
    FaultsEnd => <>[](\A n \in Others :
        IF served[n] # "Absent" THEN tunnel[n] = served[n]
        ELSE tunnel[n] = "Absent" \/ faults \cap {"delete", "restart"} # {})

(* The Control Plane comes to know every tunnel as configured although      *)
(* reports overtake each other, and the targets to measure are the nodes    *)
(* that are served.                                                         *)
ReportsConverge ==
    FaultsEnd => <>[](/\ targets = Listed(served)
                      /\ \A n \in Others \cap Listed(served) : cpStatus[n] = "configured")
=============================================================================
