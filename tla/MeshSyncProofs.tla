---------------------------- MODULE MeshSyncProofs ----------------------------
(***************************************************************************)
(* Proofs about MeshSync: however many nodes there are, Sync() forgets no  *)
(* tunnel that it, or a command that failed half way, has left behind.     *)
(***************************************************************************)
EXTENDS MeshSync, TLAPS

USE MeshAssumption

(* Every variable keeps to its domain, whatever the Control Plane serves    *)
(* and whichever commands fail.                                             *)
THEOREM TypeCorrect == Spec => []TypeOK
<1>1. Init => TypeOK
  BY DEF Init, TypeOK, Lists, Statuses, NoList, NoStatus
<1>2. TypeOK /\ [Next]_vars => TypeOK'
  <2> SUFFICES ASSUME TypeOK, [Next]_vars PROVE TypeOK'
    OBVIOUS
  <2> USE DEF TypeOK, Lists, Statuses, NoList, NoStatus, Listed, Goto, Fault
  <2>1. CASE FetchMeshConfig \/ FetchEmpty
    BY <2>1 DEF FetchMeshConfig, FetchEmpty, Receive
  <2>2. ASSUME NEW n \in Nodes, EnsureMeshTunnel(n) \/ EnsureFails(n) PROVE TypeOK'
    BY <2>2 DEF EnsureMeshTunnel, EnsureFails, Ensured
  <2>3. ASSUME NEW n \in Nodes, RemoveMeshTunnel(n) \/ RemoveFails(n) PROVE TypeOK'
    BY <2>3 DEF RemoveMeshTunnel, RemoveFails, Removed
  <2>4. CASE FindStale \/ SwapPeers \/ UpdateMeshPeers
    BY <2>4 DEF FindStale, SwapPeers, Remembered, UpdateMeshPeers
  <2>5. CASE ReportMeshStatus \/ ReportLost
    BY <2>5 DEF ReportMeshStatus, ReportLost, Finish
  <2>6. ASSUME NEW report \in sent, ReportArrives(report) PROVE TypeOK'
    BY <2>6 DEF ReportArrives, syncVars
  <2>7. ASSUME NEW n \in Nodes, NEW what \in Keys \cup {"Absent"}, Serve(n, what) PROVE TypeOK'
    BY <2>7 DEF Serve, syncVars
  <2>8. CASE Restart
    BY <2>8 DEF Restart
  <2>9. CASE UNCHANGED vars
    BY <2>9 DEF vars, syncVars
  <2> QED
    BY <2>1, <2>2, <2>3, <2>4, <2>5, <2>6, <2>7, <2>8, <2>9
    DEF Next, SyncStep, Arrival, FaultStep
<1> QED
  BY <1>1, <1>2, PTL DEF Spec

-----------------------------------------------------------------------------
(* As long as no removal fails and the agent is not restarted, a tunnel is  *)
(* one of a peer in m.peers, and while Sync() works on a new list, of a     *)
(* peer on that list or one it is about to remove.                          *)
Unforgotten == faults \cap {"delete", "restart"} = {}

Tunnels == {n \in Others : tunnel[n] # "Absent"}

(* The peers that account for a tunnel at each point of Sync().            *)
Accounted ==
    IF pc = "ensure" THEN peers \cup Listed(newPeers)
    ELSE IF pc = "remove" THEN Listed(newPeers) \cup todo
    ELSE peers

IInv ==
    /\ Unforgotten => Tunnels \subseteq Accounted
    /\ pc = "ensure" => todo \subseteq Listed(newPeers)
    /\ pc = "remove" => todo \subseteq peers

LEMMA SyncIInv ==
    ASSUME TypeOK, IInv, SyncStep \/ FaultStep PROVE IInv'
<1> USE DEF TypeOK, Lists, IInv, Unforgotten, Tunnels, Others, Accounted, Listed, Goto, Fault
<1>1. CASE FetchMeshConfig \/ FetchEmpty
  BY <1>1 DEF FetchMeshConfig, FetchEmpty, Receive
<1>2. ASSUME NEW n \in Nodes, EnsureMeshTunnel(n) \/ EnsureFails(n) PROVE IInv'
  <2>1. \A m \in Nodes \ {n} : tunnel'[m] = tunnel[m]
    BY <1>2 DEF EnsureMeshTunnel, EnsureFails
  <2>2. n \in Listed(newPeers) /\ pc = "ensure" /\ UNCHANGED <<pc, peers, newPeers>>
    BY <1>2 DEF EnsureMeshTunnel, EnsureFails, Ensured
  <2>3. todo' \subseteq todo /\ faults \subseteq faults'
    BY <1>2 DEF EnsureMeshTunnel, EnsureFails, Ensured
  <2> QED
    BY <2>1, <2>2, <2>3
<1>3. ASSUME NEW n \in Nodes, RemoveMeshTunnel(n) \/ RemoveFails(n) PROVE IInv'
  BY <1>3 DEF RemoveMeshTunnel, RemoveFails, Removed
<1>4. CASE FindStale
  BY <1>4 DEF FindStale
<1>5. CASE SwapPeers
  BY <1>5 DEF SwapPeers, Remembered
<1>6. CASE UpdateMeshPeers \/ ReportMeshStatus \/ ReportLost
  BY <1>6 DEF UpdateMeshPeers, ReportMeshStatus, ReportLost, Finish
<1>7. CASE Restart
  BY <1>7 DEF Restart
<1> QED
  BY <1>1, <1>2, <1>3, <1>4, <1>5, <1>6, <1>7 DEF SyncStep, FaultStep

LEMMA StepIInv ==
    ASSUME TypeOK, IInv, [Next]_vars PROVE IInv'
<1>1. CASE UNCHANGED <<syncVars, tunnel, faults>>
  BY <1>1 DEF syncVars, IInv, Unforgotten, Tunnels, Others, Accounted, Listed
<1> QED
  BY <1>1, SyncIInv DEF Next, Arrival, ReportArrives, Serve, vars

(* Every tunnel is one of a peer that Sync() knows or has just been told    *)
(* of, for any number of nodes, keys, changes and faults: also one that was *)
(* set up in part, or whose peer went away in the middle of a sync.         *)
THEOREM NoTunnelIsForgotten == Spec => []TunnelsAreKnown
<1>1. Init => IInv
  BY DEF Init, IInv, Unforgotten, Tunnels, Others, Accounted, NoList
<1>2. TypeOK /\ IInv => TunnelsAreKnown
  BY DEF TypeOK, IInv, Unforgotten, Tunnels, Accounted, TunnelsAreKnown
<1> QED
  BY <1>1, <1>2, StepIInv, TypeCorrect, PTL DEF Spec
=============================================================================
