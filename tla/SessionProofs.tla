----------------------------- MODULE SessionProofs -----------------------------
(***************************************************************************)
(* Proofs about the sessions with foreign neighbours: that SessionSync has *)
(* BIRD run none over an interface that does not exist, and reports the    *)
(* truth about them; and that RoutePolicy announces over them only what    *)
(* passed an import filter, and as it came.                                *)
(***************************************************************************)
EXTENDS SessionSync, RoutePolicy, WellFoundedInduction, TLAPS

USE SessionAssumption

-----------------------------------------------------------------------------
(* SessionSync: what Sync() is at, and how far it has got *)

Setup    == Doing("QueuedForSetup")
Teardown == Doing("QueuedForDelete") \/ Doing("Disabled")

(* The steps of processSession() and the sessions they are for.            *)
AtWork ==
    /\ pc \in {"create", "generate"} => cur \in Sessions /\ Setup
    /\ pc \in {"remove", "destroy"} => cur \in Sessions /\ Teardown
    /\ pc \in {"reload", "report"} => cur \in Sessions /\ (Setup \/ Teardown)
    /\ pc \in {"create", "destroy"} => cur \in Tunnelled

(* What setupSession() and the teardown have done to the node, as long as   *)
(* nothing that they only log has failed and the machine has not rebooted.  *)
Progress ==
    /\ pc = "generate" /\ cur \in Tunnelled => cur \in wgUp
    /\ pc = "reload" => (Setup <=> file[Asn[cur]] = cur)
    /\ pc = "destroy" => file[Asn[cur]] # cur /\ loaded[Asn[cur]] # cur
    /\ pc = "report" => IF Setup THEN Up(cur) ELSE Down(cur)

Tunnels ==
    /\ wgUp \subseteq Tunnelled
    /\ \A s \in Tunnelled : s \in {file[Asn[s]], loaded[Asn[s]]} => s \in wgUp

SyncIInv == AtWork /\ (~Undone => Progress /\ Tunnels)

LEMMA FirstStepIs ==
    ASSUME NEW s
    PROVE  \/ snapshot[s] = "QueuedForSetup" /\ s \in Tunnelled /\ FirstStep(s) = "create"
           \/ snapshot[s] = "QueuedForSetup" /\ s \notin Tunnelled /\ FirstStep(s) = "generate"
           \/ snapshot[s] \in {"QueuedForDelete", "Disabled"} /\ FirstStep(s) = "remove"
           \/ FirstStep(s) = "next"
<1>1. "QueuedForDelete" # "QueuedForSetup" /\ "Disabled" # "QueuedForSetup"
  OBVIOUS
<1>2. CASE snapshot[s] = "QueuedForSetup"
  BY <1>1, <1>2, Zenon DEF FirstStep
<1>3. CASE snapshot[s] \in {"QueuedForDelete", "Disabled"}
  BY <1>1, <1>3, Zenon DEF FirstStep
<1>4. CASE snapshot[s] \notin {"QueuedForSetup", "QueuedForDelete", "Disabled"}
  BY <1>4, Zenon DEF FirstStep
<1> QED
  BY <1>2, <1>3, <1>4

LEMMA InitSyncIInv ==
    ASSUME Init PROVE TypeOK /\ SyncIInv
<1>1. TypeOK
  BY DEF Init, TypeOK, PC, Statuses, NoTable, NoFiles
<1>2. \A a \in Asns : file[a] = None /\ loaded[a] = None
  BY DEF Init, NoFiles
<1>3. \A s \in Sessions : Asn[s] \in Asns
  BY DEF Asns
<1> QED
  BY <1>1, <1>2, <1>3 DEF Init, SyncIInv, AtWork, Progress, Tunnels

LEMMA SyncIsTyped ==
    ASSUME TypeOK, AtWork, [Next]_vars PROVE TypeOK'
<1> USE DEF TypeOK, PC, Goto, Fault, NoFault, agentVars, nodeVars
<1>1. \A s \in Sessions : Asn[s] \in Asns
  BY DEF Asns
<1>2. CASE Fetch \/ FetchEmpty \/ \E s \in Sessions : ProcessSession(s)
  BY <1>2, FirstStepIs DEF Fetch, FetchEmpty, NoTable, ProcessSession
<1>3. CASE CreateInterface \/ CreateFails \/ DeleteInterface \/ DeleteFails
  BY <1>3 DEF CreateInterface, CreateFails, DeleteInterface, DeleteFails, AfterDestroy, AtWork
<1>4. CASE GenerateSession \/ GenerateFails \/ RemoveSession \/ RemoveFails
  BY <1>1, <1>4 DEF GenerateSession, GenerateFails, RemoveSession, RemoveFails, AtWork
<1>5. CASE Configure \/ ConfigureFails \/ OtherReload
  BY <1>5 DEF Configure, ConfigureFails, OtherReload, AfterReload, AfterDestroy
<1>6. CASE ReportStatus \/ ReportLost \/ ReportLate
  BY <1>6 DEF ReportStatus, ReportLost, ReportLate, Store, Reported, Statuses, AtWork
<1>7. CASE SwapSessions \/ SyncPorts \/ SyncPortsFails
  BY <1>7 DEF SwapSessions, SyncPorts, SyncPortsFails, Expected
<1>8. CASE Restart \/ Reboot
  BY <1>8 DEF Restart, Reboot, ForgetsAll, NoTable
<1>9. CASE \E s \in Sessions, status \in AdminStatuses : AdminEdits(s, status)
  BY <1>9 DEF AdminEdits, AdminStatuses, Statuses
<1>10. CASE \E m \in late : LateReportArrives(m)
  BY <1>10 DEF LateReportArrives, Store, Statuses
<1>11. CASE UNCHANGED vars
  BY <1>11 DEF vars
<1> QED
  BY <1>2, <1>3, <1>4, <1>5, <1>6, <1>7, <1>8, <1>9, <1>10, <1>11
     DEF Next, SyncStep, FaultStep, Environment

LEMMA AtWorkStep ==
    ASSUME TypeOK, AtWork, [Next]_vars PROVE AtWork'
<1> USE DEF AtWork, Setup, Teardown, Doing, Goto, agentVars, nodeVars
<1>1. CASE Fetch \/ FetchEmpty \/ SwapSessions \/ SyncPorts \/ SyncPortsFails
  BY <1>1 DEF Fetch, FetchEmpty, SwapSessions, SyncPorts, SyncPortsFails
<1>2. CASE \E s \in Sessions : ProcessSession(s)
  BY <1>2, FirstStepIs DEF ProcessSession
<1>3. CASE CreateInterface \/ CreateFails \/ DeleteInterface \/ DeleteFails
  BY <1>3 DEF CreateInterface, CreateFails, DeleteInterface, DeleteFails, AfterDestroy
<1>4. CASE GenerateSession \/ GenerateFails \/ RemoveSession \/ RemoveFails
  BY <1>4 DEF GenerateSession, GenerateFails, RemoveSession, RemoveFails
<1>5. CASE Configure \/ ConfigureFails
  BY <1>5 DEF Configure, ConfigureFails, AfterReload, AfterDestroy
<1>6. CASE ReportStatus \/ ReportLost \/ ReportLate
  BY <1>6 DEF ReportStatus, ReportLost, ReportLate
<1>7. CASE Restart \/ Reboot
  BY <1>7 DEF Restart, Reboot, ForgetsAll
<1>8. CASE UNCHANGED agentVars
  BY <1>8
<1> QED
  BY <1>1, <1>2, <1>3, <1>4, <1>5, <1>6, <1>7, <1>8
     DEF Next, SyncStep, FaultStep, Environment, AdminEdits, LateReportArrives, OtherReload, vars

(* A step that works on the node.  What else reads it: nothing, but a       *)
(* reload by another task.                                                  *)
LEMMA NodeStep ==
    ASSUME TypeOK, SyncIInv, ~Undone,
           \/ CreateInterface \/ GenerateSession \/ RemoveSession \/ Configure
           \/ DeleteInterface \/ CreateFails
    PROVE  Progress' /\ Tunnels'
<1> USE DEF TypeOK, SyncIInv, AtWork, Goto, agentVars, nodeVars, Doing, Setup, Teardown
<1>1. \A s \in Sessions : Asn[s] \in Asns
  BY DEF Asns
<1>2. CASE CreateInterface
  BY <1>2 DEF CreateInterface, Progress, Tunnels
<1>3. CASE CreateFails
  BY <1>3 DEF CreateFails, Progress, Tunnels
<1>4. CASE GenerateSession
  <2>1. /\ cur \in Sessions /\ file' = [file EXCEPT ![Asn[cur]] = cur]
        /\ pc = "generate" /\ pc' = "reload"
        /\ UNCHANGED <<cur, snapshot, wgUp, loaded>>
    BY <1>4 DEF GenerateSession
  <2>2. file'[Asn[cur]] = cur /\ \A s \in Sessions : file'[Asn[s]] = s => s = cur \/ file[Asn[s]] = s
    BY <1>1, <2>1
  <2> QED
    BY <2>1, <2>2 DEF Progress, Tunnels
<1>5. CASE RemoveSession
  <2>1. /\ cur \in Sessions /\ file' = [file EXCEPT ![Asn[cur]] = None]
        /\ pc = "remove" /\ pc' = "reload"
        /\ UNCHANGED <<cur, snapshot, wgUp, loaded>>
    BY <1>5 DEF RemoveSession
  <2>2. file'[Asn[cur]] # cur /\ \A s \in Sessions : file'[Asn[s]] = s => file[Asn[s]] = s
    BY <1>1, <2>1
  <2> QED
    BY <2>1, <2>2 DEF Progress, Tunnels
<1>6. CASE Configure
  BY <1>6 DEF Configure, AfterReload, AfterDestroy, Progress, Tunnels, Up, Down
<1>7. CASE DeleteInterface
  BY <1>7 DEF DeleteInterface, AfterDestroy, Progress, Tunnels, Up, Down
<1> QED
  BY <1>2, <1>3, <1>4, <1>5, <1>6, <1>7

LEMMA SyncIInvStep ==
    ASSUME TypeOK, SyncIInv, [Next]_vars PROVE SyncIInv'
<1> SUFFICES ASSUME ~Undone' PROVE Progress' /\ Tunnels'
  BY AtWorkStep DEF SyncIInv
<1>1. ~Undone
  BY DEF Next, SyncStep, FaultStep, Environment, Fetch, FetchEmpty, ProcessSession, CreateInterface,
         CreateFails, GenerateSession, GenerateFails, RemoveSession, RemoveFails, Configure, ConfigureFails,
         DeleteInterface, DeleteFails, ReportStatus, ReportLost, ReportLate, LateReportArrives,
         SwapSessions, SyncPorts, SyncPortsFails, AdminEdits, OtherReload, Restart, Reboot,
         Fault, NoFault, Undone, vars
<1>2. CASE GenerateFails \/ RemoveFails \/ ConfigureFails \/ DeleteFails \/ Reboot
  BY <1>2 DEF GenerateFails, RemoveFails, ConfigureFails, DeleteFails, Reboot, Fault, Undone
<1>3. CASE OtherReload
  BY <1>1, <1>3 DEF OtherReload, agentVars, SyncIInv, Progress, Tunnels, Setup, Doing, Up, Down
<1>4. CASE pc' \in {"idle", "next", "create", "remove", "firewall"} /\ UNCHANGED <<wgUp, file, loaded>>
  BY <1>1, <1>4 DEF SyncIInv, Progress, Tunnels
<1>5. CASE UNCHANGED <<agentVars, wgUp, file, loaded>>
  BY <1>1, <1>5 DEF agentVars, SyncIInv, Progress, Tunnels, Setup, Doing, Up, Down
<1>6. ASSUME NEW s \in Sessions, ProcessSession(s) PROVE Progress' /\ Tunnels'
  <2>1. pc' = FirstStep(s) /\ cur' = s /\ UNCHANGED <<snapshot, wgUp, file, loaded>>
    BY <1>6 DEF ProcessSession, nodeVars
  <2>2. /\ pc' \in {"create", "generate", "remove", "next"}
        /\ pc' = "generate" => cur' \notin Tunnelled
    BY <2>1, FirstStepIs
  <2> QED
    BY <1>1, <2>1, <2>2 DEF SyncIInv, Progress, Tunnels
<1> QED
  BY <1>1, <1>2, <1>3, <1>4, <1>5, <1>6, NodeStep
     DEF Next, SyncStep, FaultStep, Environment, Fetch, FetchEmpty, SwapSessions, SyncPorts,
         SyncPortsFails, ReportStatus, ReportLost, ReportLate, LateReportArrives, AdminEdits, Restart,
         ForgetsAll, Goto, nodeVars, vars

LEMMA SyncInvariance == Spec => [](TypeOK /\ SyncIInv)
<1>1. TypeOK /\ SyncIInv /\ [Next]_vars => TypeOK' /\ SyncIInv'
  BY SyncIsTyped, SyncIInvStep DEF SyncIInv
<1> QED
  BY <1>1, InitSyncIInv, PTL DEF Spec

(* For any sessions, with AS numbers of their own or shared, and whatever   *)
(* fails: every variable keeps to its domain.                               *)
THEOREM SyncTypeCorrect == Spec => []TypeOK
BY SyncInvariance, PTL

(* For any sessions: as long as no file, no reload and no removal of an     *)
(* interface has failed and the machine has not rebooted, BIRD has neither  *)
(* read nor is about to read a session whose interface does not exist,      *)
(* whatever else fails, restarts or reloads BIRD at any moment.             *)
THEOREM BirdOnlyRunsTunnels == Spec => []BirdHasTunnel
<1>1. SyncIInv => BirdHasTunnel
  BY DEF SyncIInv, Tunnels, BirdHasTunnel
<1> QED
  BY <1>1, SyncInvariance, PTL

(* For any sessions, and short of the same faults: reportStatus() sends     *)
(* "Enabled" for a session that is up and "Deleted" for one of which        *)
(* nothing is left.                                                         *)
THEOREM ReportsTellTheTruth == Spec => []ReportsAreTrue
<1>1. SyncIInv => ReportsAreTrue
  BY DEF SyncIInv, AtWork, Progress, Setup, Teardown, Doing, Reported, ReportsAreTrue
<1> QED
  BY <1>1, SyncInvariance, PTL

-----------------------------------------------------------------------------
(* RoutePolicy: what a preference is, and that a choice is one of the       *)
(* candidates                                                               *)

Below == {ss \in Nat \X Nat : ss[1] < ss[2]}

LEMMA LeastNatural ==
    ASSUME NEW S \in SUBSET Nat, S # {}
    PROVE  \E x \in S : \A y \in S : x <= y
<1>1. IsWellFoundedOn(Below, Nat)
  BY NatLessThanWellFounded, Zenon DEF OpToRel, Below
<1>2. PICK x \in S : \A y \in S : ~(<<y, x>> \in Below)
  BY <1>1, WFMin, Zenon
<1>3. ASSUME NEW y \in S PROVE x <= y
  <2>1. \A a, b \in Nat : a < b => <<a, b>> \in Below
    BY DEF Below
  <2>2. x \in Nat /\ y \in Nat /\ ~(y < x)
    BY <1>2, <2>1
  <2> QED
    BY <2>2
<1> QED
  BY <1>3

LEMMA PreferenceIsTyped ==
    ASSUME NEW comms \in SUBSET Communities PROVE LocalPref(comms) \in 0..260
<1>1. CASE GRACEFUL_SHUTDOWN \in comms \/ comms \cap Tiers = {}
  BY <1>1 DEF LocalPref
<1>2. CASE comms \cap Tiers # {} /\ GRACEFUL_SHUTDOWN \notin comms
  <2>1. \E x \in comms \cap Tiers : \A y \in comms \cap Tiers : x >= y
    BY <1>2 DEF Tiers
  <2>2. Max(comms \cap Tiers) \in 1..9
    BY <2>1 DEF Max, Tiers
  <2> QED
    BY <1>2, <2>2 DEF LocalPref, Preference
<1> QED
  BY <1>1, <1>2

LEMMA RoutesHave ==
    ASSUME NEW r \in Routes
    PROVE  /\ r.source \in {"static", "bgp"} /\ r.pref \in 0..260
           /\ r.len \in Nat /\ r.len <= ASPathMaxLen /\ r.via \in Nat /\ r # NoRoute
<1>1. /\ r.source \in {"static", "bgp"} /\ r.pref \in 0..260
      /\ r.len \in 0..ASPathMaxLen /\ r.via \in Nodes
  BY DEF Routes
<1>2. r # NoRoute /\ ASPathMaxLen \in Nat /\ Nodes \subseteq Nat
  BY PolicyAssumption
<1>3. \A k \in 0..ASPathMaxLen : k \in Nat /\ k <= ASPathMaxLen
  BY <1>2
<1>4. r.len \in Nat /\ r.len <= ASPathMaxLen
  BY <1>1, <1>3, Zenon
<1>5. r.via \in Nat
  BY <1>1, <1>2, Zenon
<1> QED
  BY <1>1, <1>2, <1>4, <1>5, Zenon

LEMMA Complement ==
    ASSUME NEW p \in 0..260, NEW q \in 0..260
    PROVE  260 - p \in Nat /\ (260 - p <= 260 - q => q <= p) /\ (q <= p => ~(q > p))
<1>1. 260 - p \in Nat
  OBVIOUS
<1>2. 260 - p <= 260 - q => q <= p
  OBVIOUS
<1>3. q <= p => ~(q > p)
  OBVIOUS
<1> QED
  BY <1>1, <1>2, <1>3

(* Selection is lexicographic: the best source, of those the highest        *)
(* preference, of those the shortest path, of those the router's own, of    *)
(* those the lowest router.                                                 *)
LEMMA SomeBest ==
    ASSUME NEW C \in SUBSET Routes, C # {}, NEW n
    PROVE  \E r \in C : \A s \in C : ~Better(n, s, r)
<1>0. \A r \in C : /\ r.source \in {"static", "bgp"} /\ r.pref \in 0..260
                     /\ r.len \in Nat /\ r.via \in Nat
  BY RoutesHave
<1>1. PICK source : /\ source \in {"static", "bgp"} /\ \E r \in C : r.source = source
                    /\ source = "static" => \A r \in C : r.source = "static"
  BY <1>0
<1> DEFINE A == {r \in C : r.source = source}
<1>2. PICK a \in A : \A s \in A : s.pref <= a.pref
  <2>1. PICK x \in {260 - r.pref : r \in A} : \A y \in {260 - r.pref : r \in A} : x <= y
    <3>1. {260 - r.pref : r \in A} \in SUBSET Nat /\ {260 - r.pref : r \in A} # {}
      BY <1>0, <1>1
    <3> QED
      BY <3>1, LeastNatural
  <2>2. PICK a \in A : x = 260 - a.pref
    BY <2>1
  <2>3. \A s \in A : 260 - a.pref <= 260 - s.pref
    BY <2>1, <2>2
  <2>4. ASSUME NEW s \in A PROVE s.pref <= a.pref
    <3>1. s.pref \in 0..260 /\ a.pref \in 0..260 /\ 260 - a.pref <= 260 - s.pref
      BY <1>0, <2>3
    <3> QED
      BY <3>1, Complement, ZenonT(40)
  <2> QED
    BY <2>4
<1> DEFINE B == {r \in A : r.pref = a.pref}
<1>3. PICK b \in B : \A s \in B : b.len <= s.len
  <2>1. {r.len : r \in B} \in SUBSET Nat /\ {r.len : r \in B} # {}
    BY <1>0, <1>2
  <2>2. PICK x \in {r.len : r \in B} : \A y \in {r.len : r \in B} : x <= y
    BY <2>1, LeastNatural
  <2> QED
    BY <2>2
<1> DEFINE D == {r \in B : r.len = b.len}
<1>4. PICK own : /\ \E r \in D : own \in BOOLEAN /\ (r.via = n) = own
                 /\ own = FALSE => \A r \in D : r.via # n
  BY <1>3
<1> DEFINE E == {r \in D : (r.via = n) = own}
<1>5. PICK e \in E : \A s \in E : e.via <= s.via
  <2>1. {r.via : r \in E} \in SUBSET Nat /\ {r.via : r \in E} # {}
    BY <1>0, <1>4
  <2>2. PICK x \in {r.via : r \in E} : \A y \in {r.via : r \in E} : x <= y
    BY <2>1, LeastNatural
  <2> QED
    BY <2>2
<1>6. ASSUME NEW s \in C PROVE ~Better(n, s, e)
  <2>1. e \in C /\ e.source = source /\ e.pref = a.pref /\ e.len = b.len /\ (e.via = n) = own
    BY <1>5
  <2>2. s.source # source => ~Better(n, s, e)
    BY <1>0, <1>1, <2>1 DEF Better
  <2>3. s \in A /\ s.pref # a.pref => ~Better(n, s, e)
    <3>1. s \in A => ~(s.pref > a.pref)
      BY <1>0, <1>2, Complement, ZenonT(40)
    <3> QED
      BY <2>1, <3>1 DEF Better
  <2>4. s \in B /\ s.len # b.len => ~Better(n, s, e)
    BY <1>0, <1>3, <2>1 DEF Better
  <2>5. s \in D /\ s \notin E => ~Better(n, s, e)
    BY <1>0, <1>4, <2>1 DEF Better
  <2>6. s \in E => ~Better(n, s, e)
    BY <1>0, <1>5, <2>1 DEF Better
  <2> QED
    BY <2>2, <2>3, <2>4, <2>5, <2>6
<1> QED
  BY <1>5, <1>6

LEMMA BestIsCandidate ==
    ASSUME NEW n, Candidates(n) \subseteq Routes
    PROVE  Best(n) \in Candidates(n) \cup {NoRoute}
<1>1. CASE Candidates(n) = {}
  BY <1>1 DEF Best
<1>2. CASE Candidates(n) # {}
  <2>1. \E r \in Candidates(n) : \A s \in Candidates(n) : ~Better(n, s, r)
    BY <1>2, SomeBest
  <2> QED
    BY <1>2, <2>1, Zenon DEF Best
<1> QED
  BY <1>1, <1>2

-----------------------------------------------------------------------------
(* RoutePolicy: every route in the network passed the filter where it came  *)
(* in, and kept what it came with                                           *)

Sound(r) ==
    /\ net # "bogon"
    /\ r.roa
    /\ r.source = "static" => net = "own"
    /\ net = "foreign" => r.accepted = {r.entry}

Kept(r) == net = "foreign" /\ ~Internal => r.comms = r.heard

Travels(r) == r = NoRoute \/ (r \in Routes /\ Sound(r) /\ Kept(r))

AllSound == \A m, n \in Nodes : Travels(sent[m][n]) /\ Travels(rib[m][n])

LEMMA ImportIsSound ==
    ASSUME PolicyTypeOK, NEW n \in Nodes PROVE Travels(EbgpImport(n))
<1>1. CASE adv[n] = NoRoute \/ ~Accepts(adv[n])
  BY <1>1 DEF EbgpImport, Travels
<1>2. CASE ~(adv[n] = NoRoute \/ ~Accepts(adv[n]))
  <2>1. adv[n] \in Adverts
    BY <1>2 DEF PolicyTypeOK
  <2>2. /\ adv[n].len \in Nat \ {0} /\ adv[n].roa \in BOOLEAN /\ adv[n].comms \in SUBSET Communities
    BY <2>1, PolicyAssumption
  <2>3. adv[n].len <= ASPathMaxLen /\ net \in {"foreign", "own"} /\ adv[n].roa
    BY <1>2 DEF Accepts, is_valid_dn42_prefix
  <2>4. adv[n].len \in 0..ASPathMaxLen
    BY <2>2, <2>3, PolicyAssumption
  <2>5. LocalPref(adv[n].comms) \in 0..260
    BY <2>2, PreferenceIsTyped
  <2>6. EbgpImport(n) \in Routes
    BY <1>2, <2>2, <2>4, <2>5 DEF EbgpImport, Routes
  <2>7. /\ EbgpImport(n).source = "bgp" /\ EbgpImport(n).roa = adv[n].roa
        /\ EbgpImport(n).comms = EbgpImport(n).heard
        /\ EbgpImport(n).accepted = {n} /\ EbgpImport(n).entry = n
    BY <1>2 DEF EbgpImport
  <2> QED
    BY <2>3, <2>6, <2>7 DEF Travels, Sound, Kept
<1> QED
  BY <1>1, <1>2

LEMMA StaticIsSound ==
    ASSUME NEW n \in Nodes PROVE Travels(StaticRoute(n))
<1>1. CASE net # "own"
  BY <1>1 DEF StaticRoute, Travels
<1>2. CASE net = "own"
  <2>1. 0 \in 0..ASPathMaxLen
    BY PolicyAssumption
  <2>2. StaticRoute(n) \in Routes /\ StaticRoute(n).roa
    BY <1>2, <2>1 DEF StaticRoute, Routes
  <2> QED
    BY <1>2, <2>2 DEF Travels, Sound, Kept
<1> QED
  BY <1>1, <1>2

LEMMA IbgpKeepsSound ==
    ASSUME NEW r \in Routes, Travels(r), NEW m
    PROVE  /\ Travels(IbgpImport(r))
           /\ Travels(IbgpExport(m, [r EXCEPT !.source = "bgp"]))
<1>1. Sound(r) /\ Kept(r) /\ r # NoRoute
  BY RoutesHave DEF Travels
<1>2. ASSUME Internal PROVE /\ [r EXCEPT !.pref = 0] \in Routes
                            /\ Travels([r EXCEPT !.pref = 0])
  BY <1>1, <1>2 DEF Routes, Travels, Sound, Kept
<1>3. [r EXCEPT !.source = "bgp"] \in Routes /\ Travels([r EXCEPT !.source = "bgp"])
  BY <1>1 DEF Routes, Travels, Sound, Kept
<1>4. ASSUME Internal
      PROVE  Travels([[r EXCEPT !.source = "bgp"] EXCEPT !.comms = @ \cup {GRACEFUL_SHUTDOWN}])
  BY <1>1, <1>4 DEF Routes, Travels, Sound, Kept, Communities
<1> QED
  BY <1>2, <1>3, <1>4 DEF IbgpImport, IbgpExport

LEMMA BestTravels ==
    ASSUME PolicyTypeOK, AllSound, NEW n \in Nodes PROVE Travels(Best(n))
<1>1. \A r \in Candidates(n) : Travels(r)
  <2>1. ASSUME NEW m \in Nodes, rib[n][m] # NoRoute PROVE Travels(IbgpImport(rib[n][m]))
    BY <2>1, IbgpKeepsSound DEF AllSound, Travels
  <2> QED
    BY <2>1, ImportIsSound, StaticIsSound DEF Candidates
<1>2. NoRoute \notin Candidates(n)
  BY DEF Candidates
<1>3. Candidates(n) \subseteq Routes
  BY <1>1, <1>2 DEF Travels
<1> QED
  BY <1>1, <1>3, BestIsCandidate DEF Travels

LEMMA ToldTravels ==
    ASSUME PolicyTypeOK, AllSound, NEW m \in Nodes PROVE Travels(Told(m))
<1>1. CASE Best(m) = NoRoute \/ Best(m).via # m
  BY <1>1 DEF Told, Travels
<1>2. CASE ~(Best(m) = NoRoute \/ Best(m).via # m)
  <2>1. Best(m) \in Routes
    BY <1>2, BestTravels DEF Travels
  <2>2. Told(m) = IbgpExport(m, [Best(m) EXCEPT !.source = "bgp"])
    BY <1>2, Zenon DEF Told
  <2> QED
    BY <2>1, <2>2, BestTravels, IbgpKeepsSound
<1> QED
  BY <1>1, <1>2

LEMMA TravelsStays ==
    ASSUME UNCHANGED net, NEW r, Travels(r) PROVE Travels(r)'
BY DEF Travels, Sound, Kept

LEMMA PolicyStep ==
    ASSUME PolicyTypeOK, AllSound, [PolicyNext]_policyVars PROVE PolicyTypeOK' /\ AllSound'
<1>1. UNCHANGED net
  BY DEF PolicyNext, policyVars, SendUpdate, ReceiveUpdate, SessionResets, Announce, SetMaintenance
<1>2. Travels(NoRoute) /\ \A r : Travels(r) => r \in Routes \cup {NoRoute}
  BY DEF Travels
<1>3. CASE \E m, n \in Nodes : SendUpdate(m, n)
  <2>1. PICK m, n \in Nodes : SendUpdate(m, n)
    BY <1>3
  <2>2. Travels(Told(m))
    BY ToldTravels
  <2>3. /\ sent' = [sent EXCEPT ![m] = [sent[m] EXCEPT ![n] = Told(m)]]
        /\ UNCHANGED <<net, adv, rib, maintenance, changes>>
    BY <2>1 DEF SendUpdate
  <2>4. /\ sent' \in [Nodes -> [Nodes -> Routes \cup {NoRoute}]]
        /\ \A k, l \in Nodes : sent'[k][l] \in {sent[k][l], Told(m)}
    BY <1>2, <2>2, <2>3 DEF PolicyTypeOK
  <2> QED
    BY <1>1, <2>2, <2>3, <2>4, TravelsStays DEF PolicyTypeOK, AllSound
<1>4. CASE \E m, n \in Nodes : ReceiveUpdate(m, n)
  <2>1. PICK m, n \in Nodes : ReceiveUpdate(m, n)
    BY <1>4
  <2>2. /\ rib' = [rib EXCEPT ![n] = [rib[n] EXCEPT ![m] = sent[m][n]]]
        /\ UNCHANGED <<net, adv, sent, maintenance, changes>>
    BY <2>1 DEF ReceiveUpdate
  <2>3. /\ rib' \in [Nodes -> [Nodes -> Routes \cup {NoRoute}]]
        /\ \A k, l \in Nodes : rib'[k][l] \in {rib[k][l], sent[m][n]}
    BY <2>2 DEF PolicyTypeOK
  <2> QED
    BY <1>1, <2>2, <2>3, TravelsStays DEF PolicyTypeOK, AllSound
<1>5. CASE \E m, n \in Nodes : SessionResets(m, n)
  <2>1. PICK m, n \in Nodes : SessionResets(m, n)
    BY <1>5
  <2>2. /\ sent' \in [Nodes -> [Nodes -> Routes \cup {NoRoute}]]
        /\ \A k, l \in Nodes : sent'[k][l] \in {sent[k][l], NoRoute}
    BY <2>1 DEF SessionResets, PolicyTypeOK
  <2>3. /\ rib' \in [Nodes -> [Nodes -> Routes \cup {NoRoute}]]
        /\ \A k, l \in Nodes : rib'[k][l] \in {rib[k][l], NoRoute}
    BY <2>1 DEF SessionResets, PolicyTypeOK
  <2>4. changes' \in 0..MaxChanges /\ UNCHANGED <<net, adv, maintenance>>
    BY <2>1, PolicyAssumption DEF SessionResets, Change, PolicyTypeOK
  <2> QED
    BY <1>1, <1>2, <2>2, <2>3, <2>4, TravelsStays DEF PolicyTypeOK, AllSound
<1>6. CASE \/ \E n \in Nodes, a \in Adverts \cup {NoRoute} : Announce(n, a)
           \/ \E set \in SUBSET Nodes : SetMaintenance(set)
           \/ UNCHANGED policyVars
  <2>1. UNCHANGED <<net, sent, rib>>
    BY <1>6 DEF Announce, SetMaintenance, policyVars
  <2>2. maintenance' \subseteq Nodes /\ adv' \in [Nodes -> Adverts \cup {NoRoute}]
    BY <1>6 DEF Announce, SetMaintenance, policyVars, PolicyTypeOK
  <2>3. changes' \in 0..MaxChanges
    BY <1>6, PolicyAssumption DEF Announce, SetMaintenance, Change, policyVars, PolicyTypeOK
  <2> QED
    BY <1>1, <2>1, <2>2, <2>3, TravelsStays DEF PolicyTypeOK, AllSound
<1> QED
  BY <1>3, <1>4, <1>5, <1>6 DEF PolicyNext

LEMMA PolicyInvariance == PolicySpec => [](PolicyTypeOK /\ AllSound)
<1>1. PolicyInit => PolicyTypeOK /\ AllSound
  BY PolicyAssumption DEF PolicyInit, PolicyTypeOK, AllSound, Silence, Travels
<1>2. PolicyTypeOK /\ AllSound /\ [PolicyNext]_policyVars => PolicyTypeOK' /\ AllSound'
  BY PolicyStep
<1> QED
  BY <1>1, <1>2, PTL DEF PolicySpec

(* What the export filter lets out is the best route, its communities       *)
(* untouched unless it is the router's own.                                 *)
LEMMA ExportedIs ==
    ASSUME PolicyTypeOK, AllSound, NEW n \in Nodes, Exported(n) # NoRoute
    PROVE  /\ Best(n) \in Routes /\ Sound(Best(n)) /\ Kept(Best(n))
           /\ Exported(n) = TagSelfOrigin(Best(n))
<1>1. Best(n) # NoRoute /\ Exported(n) = TagSelfOrigin(Best(n))
  BY DEF Exported, EbgpExport
<1> QED
  BY <1>1, BestTravels DEF Travels

(* Every variable keeps to its domain: no update carries what is not a route. *)
THEOREM PolicyTypeCorrect == PolicySpec => []PolicyTypeOK
BY PolicyInvariance, PTL

(* For any routers, announcements and resets of their sessions, and whichever *)
(* iBGP template they use: nothing leaves for a foreign neighbour that the     *)
(* import filter did not pass, at the router where it came in and there alone. *)
THEOREM ExportsPassedTheFilter == PolicySpec => []ExportsAreSound
<1>1. PolicyTypeOK /\ AllSound => ExportsAreSound
  <2> SUFFICES ASSUME PolicyTypeOK, AllSound, NEW n \in Nodes, Exported(n) # NoRoute
               PROVE  /\ net # "bogon"
                      /\ Exported(n).roa /\ Exported(n).len <= ASPathMaxLen
                      /\ net = "foreign" => Exported(n).accepted = {Exported(n).entry}
    BY DEF ExportsAreSound
  <2>1. /\ Best(n) \in Routes /\ Sound(Best(n)) /\ Exported(n) = TagSelfOrigin(Best(n))
    BY ExportedIs
  <2>2. /\ Exported(n).roa = Best(n).roa /\ Exported(n).len = Best(n).len
        /\ Exported(n).accepted = Best(n).accepted /\ Exported(n).entry = Best(n).entry
    BY <2>1 DEF TagSelfOrigin, Routes
  <2> QED
    BY <2>1, <2>2, RoutesHave DEF Sound
<1> QED
  BY <1>1, PolicyInvariance, PTL

(* For any routers, while the iBGP sessions use the template they do use: a    *)
(* foreign route leaves with the communities it came with. (The other template *)
(* adds one for a graceful shutdown.)                                          *)
THEOREM ForeignStaysUntouched ==
    ASSUME Internal = FALSE PROVE PolicySpec => []ForeignUntouched
<1>1. PolicyTypeOK /\ AllSound => ForeignUntouched
  <2> SUFFICES ASSUME PolicyTypeOK, AllSound, net = "foreign", NEW n \in Nodes,
                      Exported(n) # NoRoute
               PROVE  Exported(n).comms = Exported(n).heard
    BY DEF ForeignUntouched
  <2>1. Sound(Best(n)) /\ Kept(Best(n)) /\ Exported(n) = TagSelfOrigin(Best(n))
    BY ExportedIs
  <2>2. Best(n).source # "static"
    BY <2>1 DEF Sound
  <2> QED
    BY <2>1, <2>2 DEF TagSelfOrigin, Kept
<1> QED
  BY <1>1, PolicyInvariance, PTL
=============================================================================
