--------------------------- MODULE ConfigSyncProofs ---------------------------
(***************************************************************************)
(* Proofs about ConfigSync: the hash comparison is a safe reason not to    *)
(* render, whatever fails in between, unless a render fails and the        *)
(* remembered hash comes back.                                             *)
(***************************************************************************)
EXTENDS ConfigSync, TLAPS

USE ConfigAssumption

AllFiles(v) == \A i \in DOMAIN Files : file[i] = v

(* What Sync() has rendered at each of its control points.                 *)
Progress ==
    /\ pc = "render" => /\ version # lastHash
                        /\ \A i \in DOMAIN Files : i < next => file[i] = version
    /\ pc \in {"hash", "reload"} => AllFiles(version)
    /\ pc = "reload" => lastHash = version

(* As long as no render has failed, the files are of the remembered version *)
(* but for the time it takes to render another.                             *)
Clean ==
    "render" \notin faults =>
        \/ lastHash = Empty
        \/ AllFiles(lastHash)
        \/ pc \in {"render", "hash"}

(* As long as versions only increase, the hash never runs ahead of them, and *)
(* files of another version than the remembered one mean that the next fetch *)
(* brings another hash.                                                      *)
Increasing == ~Reverts /\ "empty" \notin faults

Ordered ==
    Increasing =>
        /\ lastHash <= cp
        /\ pc \notin {"idle", "fetch"} => lastHash <= version /\ version <= cp
        /\ lastHash = Empty \/ AllFiles(lastHash) \/ lastHash < cp

IInv == TypeOK /\ Progress /\ Clean /\ Ordered /\ SkipIsSafe

LEMMA FilesDomain == DOMAIN Files = 1..5 /\ Len(Files) = 5
BY DEF Files

(* Every variable keeps to its domain, whatever the Control Plane serves:   *)
(* no index runs off the list of files, no version appears from nowhere.    *)
THEOREM TypeCorrect == Spec => []TypeOK
<1>1. Init => TypeOK
  BY FilesDomain DEF Init, TypeOK, Versions, Contents, Empty
<1>2. TypeOK /\ [Next]_vars => TypeOK'
  <2> SUFFICES ASSUME TypeOK, [Next]_vars PROVE TypeOK'
    OBVIOUS
  <2> USE FilesDomain DEF TypeOK, Versions, Contents, Empty, Goto, Fault
  <2>1. Reloaded \in [DOMAIN Files -> Versions \cup {Empty}]
    BY DEF Reloaded
  <2>2. CASE SyncStep
    BY <2>1, <2>2 DEF SyncStep, Begin, Fetch, Compare, Render, RememberHash, Configure
  <2>3. CASE FaultStep
    BY <2>3 DEF FaultStep, TryAgain, FetchFails, FetchEmpty, RenderFails, ConfigureFails, Restart
  <2>4. CASE (\E v \in Versions : Publish(v)) \/ OtherReload
    BY <2>1, <2>4 DEF Publish, OtherReload
  <2>5. CASE UNCHANGED vars
    BY <2>5 DEF vars
  <2> QED
    BY <2>2, <2>3, <2>4, <2>5 DEF Next
<1> QED
  BY <1>1, <1>2, PTL DEF Spec

LEMMA InitIInv == Init => Progress /\ Clean /\ Ordered /\ SkipIsSafe
BY FilesDomain DEF Init, Progress, Clean, Ordered, Empty, SkipIsSafe

(* One step of Sync() that nothing goes wrong in.                          *)
LEMMA SyncIInv == IInv /\ TypeOK' /\ SyncStep => IInv'
<1> SUFFICES ASSUME IInv, TypeOK', SyncStep PROVE IInv'
  OBVIOUS
<1> USE FilesDomain DEF IInv, TypeOK, Versions, Empty, Goto, Increasing
<1>0. CASE Begin
  BY <1>0 DEF Begin, Progress, Clean, Ordered, AllFiles, SkipIsSafe
<1>1. CASE Fetch
  <2>1. Progress' /\ Clean' /\ Ordered'
    BY <1>1 DEF Fetch, Progress, Clean, Ordered, AllFiles
  <2>2. SkipIsSafe'
    BY <1>1 DEF Fetch, Clean, Ordered, AllFiles, SkipIsSafe, Unchanged, HashComesBack
  <2> QED
    BY <2>1, <2>2
<1>2. CASE Compare
  BY <1>2 DEF Compare, Unchanged, Progress, Clean, Ordered, AllFiles, SkipIsSafe
<1>3. CASE Render
  <2>1. \A i \in DOMAIN Files : i <= next => file'[i] = version
    BY <1>3 DEF Render, Progress
  <2>2. Progress'
    BY <1>3, <2>1 DEF Render, Progress, AllFiles
  <2>3. Increasing => version > lastHash /\ version <= cp
    BY <1>3 DEF Render, Ordered, Progress
  <2>4. Clean' /\ Ordered' /\ SkipIsSafe'
    BY <1>3, <2>3 DEF Render, Clean, Ordered, AllFiles, SkipIsSafe
  <2> QED
    BY <2>2, <2>4
<1>4. CASE RememberHash
  BY <1>4 DEF RememberHash, Progress, Clean, Ordered, AllFiles, SkipIsSafe
<1>5. CASE Configure
  BY <1>5 DEF Configure, Progress, Clean, Ordered, AllFiles, SkipIsSafe
<1> QED
  BY <1>0, <1>1, <1>2, <1>3, <1>4, <1>5 DEF SyncStep

LEMMA FaultIInv == IInv /\ TypeOK' /\ FaultStep => IInv'
<1> SUFFICES ASSUME IInv, TypeOK', FaultStep PROVE IInv'
  OBVIOUS
<1> USE FilesDomain DEF IInv, TypeOK, Versions, Empty, Goto, Increasing, Fault
<1>1. CASE FetchEmpty
  BY <1>1 DEF FetchEmpty, Progress, Clean, Ordered, AllFiles, SkipIsSafe
<1>5. CASE TryAgain \/ FetchFails
  BY <1>5 DEF TryAgain, FetchFails, Progress, Clean, Ordered, AllFiles, SkipIsSafe, Unchanged,
              HashComesBack
<1>2. CASE RenderFails
  <2>1. Increasing => lastHash < cp
    BY <1>2 DEF RenderFails, Ordered, Progress
  <2> QED
    BY <1>2, <2>1 DEF RenderFails, Progress, Clean, Ordered, AllFiles, SkipIsSafe
<1>3. CASE ConfigureFails
  BY <1>3 DEF ConfigureFails, Progress, Clean, Ordered, AllFiles, SkipIsSafe
<1>4. CASE Restart
  BY <1>4 DEF Restart, Progress, Clean, Ordered, AllFiles, SkipIsSafe
<1> QED
  BY <1>1, <1>2, <1>3, <1>4, <1>5 DEF FaultStep

LEMMA EnvironmentIInv == IInv /\ TypeOK' /\ ((\E v \in Versions : Publish(v)) \/ OtherReload) => IInv'
<1> SUFFICES ASSUME IInv, TypeOK', (\E v \in Versions : Publish(v)) \/ OtherReload PROVE IInv'
  OBVIOUS
<1> USE FilesDomain DEF IInv, TypeOK, Versions, Empty, Increasing, AllFiles, SkipIsSafe, Unchanged,
                        HashComesBack
<1>1. ASSUME NEW v \in Versions, Publish(v) PROVE IInv'
  BY <1>1 DEF Publish, Progress, Clean, Ordered
<1>2. CASE OtherReload
  BY <1>2 DEF OtherReload, Progress, Clean, Ordered
<1> QED
  BY <1>1, <1>2

LEMMA Invariance == Spec => []IInv
<1>1. Init /\ TypeOK => IInv
  BY InitIInv DEF IInv
<1>2. IInv /\ TypeOK' /\ [Next]_vars => IInv'
  <2>1. IInv /\ UNCHANGED vars => IInv'
    BY DEF IInv, TypeOK, Progress, Clean, Ordered, Increasing, AllFiles, SkipIsSafe, Unchanged,
           HashComesBack, vars
  <2> QED
    BY <2>1, SyncIInv, FaultIInv, EnvironmentIInv DEF Next
<1> QED
  BY <1>1, <1>2, TypeCorrect, PTL DEF Spec

(* "Config unchanged, skipping render" (bird_config_sync.go:101-104) is     *)
(* said only when every file is already of the version fetched, however     *)
(* many versions there are and however often anything fails, unless a       *)
(* render fails and the remembered hash comes back.                         *)
THEOREM SkippingIsSafe == Spec => []SkipIsSafe
BY Invariance, PTL DEF IInv

(* BIRD is told to reload only when the five files are of one version, the  *)
(* one remembered.                                                          *)
THEOREM WholeVersionsReloaded == Spec => []ReloadsWholeVersion
<1>1. IInv => ReloadsWholeVersion
  BY DEF IInv, Progress, AllFiles, ReloadsWholeVersion
<1> QED
  BY <1>1, Invariance, PTL
=============================================================================
