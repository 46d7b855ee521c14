------------------------------ MODULE AgentProofs ------------------------------
(***************************************************************************)
(* Proofs about Agent: an update never leaves the node without a binary    *)
(* that runs, unless the process dies between the two renames or the       *)
(* rollback fails, and it never goes back to an older release.  And about  *)
(* CircuitBreaker, which guards the control plane that the two talk to:    *)
(* for any finite number of callers and any thresholds.                    *)
(***************************************************************************)
EXTENDS Agent, CircuitBreaker, FiniteSetTheorems, TLAPS

USE UpdaterAssumption, HeartbeatAssumption, AgentAssumption, BreakerAssumption

(* What is at the path, and beside it, runs.                               *)
GoodFiles ==
    /\ bin \in Runnable \cup {None}
    /\ backup \in Runnable \cup {None}

(* Where DownloadAndApply() has got to shows in the files.                 *)
Applying ==
    /\ step = "idle" \/ target \in Versions
    /\ step = "verify" => temp \in Versions
    /\ step \in {"clear", "move", "install"} => temp \in Runnable
    /\ step \in {"install", "rollback"} => bin = None /\ backup # None

(* Only a running process is in the middle of anything.                    *)
Alive ==
    /\ stage # "down" <=> up # None
    /\ up \in Dying \cup {None} => step = "idle"

(* No binary under its name means: between the renames, or broken off there  *)
(* for good, or after a failed rollback.                                    *)
Missing ==
    bin = None => \/ step \in {"install", "rollback"}
                  \/ "midway" \in scars /\ up = None /\ backup # None
                  \/ "rollback" \in scars

IInv == UpdaterTypeOK /\ GoodFiles /\ Applying /\ Alive /\ Missing

LEMMA InitIInv == Init => IInv
BY DEF Init, UpdaterInit, IInv, UpdaterTypeOK, Steps, Contents, GoodFiles, Applying, Alive, Missing,
       Runnable

LEMMA ApplyIInv == IInv /\ Running /\ ApplyStep /\ UNCHANGED stage => IInv'
<1> SUFFICES ASSUME IInv, Running, ApplyStep, UNCHANGED stage PROVE IInv'
  OBVIOUS
<1> USE DEF IInv, UpdaterTypeOK, Steps, Contents, GoodFiles, Applying, Alive, Missing, Runnable,
            Running, Goto
<1>1. CASE OpenTemp \/ CopyDone \/ Verify
  BY <1>1 DEF OpenTemp, CopyDone, Verify
<1>2. CASE ClearBackup \/ MoveAway \/ MoveFails
  BY <1>2 DEF ClearBackup, MoveAway, MoveFails
<1>3. CASE Install \/ Rollback
  BY <1>3 DEF Install, Rollback
<1> QED
  BY <1>1, <1>2, <1>3 DEF ApplyStep

LEMMA ApplyFailsIInv == IInv /\ Running /\ ApplyFails /\ UNCHANGED stage => IInv'
BY DEF IInv, UpdaterTypeOK, Steps, Contents, GoodFiles, Applying, Alive, Missing, Runnable, Running,
       Goto, ApplyFails, DownloadFails, MoveFails, InstallFails, RollbackFails

LEMMA ProcessIInv == IInv /\ (Restarts \/ Killed \/ \E found : Start(found)) => IInv'
<1> SUFFICES ASSUME IInv, Restarts \/ Killed \/ \E found : Start(found) PROVE IInv'
  OBVIOUS
<1> USE DEF IInv, UpdaterTypeOK, Steps, Contents, GoodFiles, Applying, Alive, Missing, Runnable
<1>1. CASE Restarts \/ Killed
  BY <1>1 DEF Restarts, Killed, Exit, Dies, Crash, Ends, ProcessEnds
<1>2. CASE \E found : Start(found)
  BY <1>2 DEF Start, Exec
<1> QED
  BY <1>1, <1>2

LEMMA StepIInv == IInv /\ [Next]_vars => IInv'
<1> SUFFICES ASSUME IInv, [Next]_vars PROVE IInv'
  OBVIOUS
<1>1. CASE UpdaterStep
  <2>1. CASE CheckForUpdate
    BY <1>1, <2>1 DEF UpdaterStep, CheckForUpdate, IInv, UpdaterTypeOK, Steps, GoodFiles, Applying,
                      Alive, Missing, Running
  <2> QED
    BY <1>1, <2>1, ApplyIInv DEF UpdaterStep
<1>2. CASE FaultStep
  <2>1. CASE UpdaterFails
    BY <2>1, ApplyFailsIInv DEF UpdaterFails
  <2>2. CASE HeartbeatFails
    BY <2>2 DEF HeartbeatFails, updaterVars, IInv, UpdaterTypeOK, GoodFiles, Applying, Alive, Missing
  <2> QED
    BY <1>2, <2>1, <2>2, ProcessIInv DEF FaultStep
<1>3. CASE (\E v \in Versions : Publish(v)) /\ UNCHANGED stage
  BY <1>3 DEF Publish, IInv, UpdaterTypeOK, GoodFiles, Applying, Alive, Missing
<1>4. CASE UNCHANGED <<updaterVars, stage>>
  BY <1>4 DEF updaterVars, IInv, UpdaterTypeOK, GoodFiles, Applying, Alive, Missing
<1>5. CASE Environment \/ HeartbeatStep \/ (\E found : Refresh(found)) \/ UNCHANGED vars
  BY <1>3, <1>4, <1>5 DEF Environment, HeartbeatStep, Refresh, vars
<1> QED
  BY <1>1, <1>2, <1>5, ProcessIInv DEF Next, LookupFails

(* Whatever is published, fails or dies: a binary that runs is under its    *)
(* name or beside it as the backup, and missing under its name only between *)
(* the two renames, or after a death just there or a failed rollback.       *)
THEOREM UpdatesKeepABinary == Spec => []BinaryIsThere
<1>1. IInv => BinaryIsThere
  BY DEF IInv, UpdaterTypeOK, GoodFiles, Applying, Missing, BinaryIsThere, Runnable
<1> QED
  BY <1>1, InitIInv, StepIInv, PTL DEF Spec

-----------------------------------------------------------------------------
(* Which of the files holds what, while an update is under way: the process *)
(* was started from what is under the binary's name, the release it decided *)
(* on is newer, and is what it checked and installs.                        *)
InOrder(new, old) ==
    new # None /\ old # None /\ {new, old} \cap Untagged = {} => new >= old

Started == up # None /\ step # "exit" => bin \in {up, None}

Decided ==
    /\ step # "idle" => up # None /\ target # None /\ Newer(target, up)
    /\ step \in {"verify", "clear", "move", "install"} => temp = target
    /\ step \in {"install", "rollback", "exit"} => backup = up
    /\ step = "exit" => bin = target

FInv == IInv /\ Started /\ Decided /\ InOrder(bin, backup)

LEMMA NewerInOrder ==
    ASSUME NEW r \in Versions, NEW v \in Versions, Newer(r, v)
    PROVE  InOrder(r, v)
BY DEF Newer, InOrder

LEMMA ForwardApply == FInv /\ (ApplyStep \/ ApplyFails) => (Started /\ Decided /\ InOrder(bin, backup))'
<1> SUFFICES ASSUME FInv, ApplyStep \/ ApplyFails PROVE (Started /\ Decided /\ InOrder(bin, backup))'
  OBVIOUS
<1> USE DEF FInv, Started, Decided, Goto
<1>1. CASE OpenTemp \/ CopyDone \/ DownloadFails \/ Verify
  BY <1>1 DEF OpenTemp, CopyDone, DownloadFails, Verify, InOrder
<1>2. CASE ClearBackup \/ MoveAway \/ MoveFails
  BY <1>2 DEF ClearBackup, MoveAway, MoveFails, InOrder
<1>3. CASE Install
  <2>1. up \in Versions /\ target \in Versions
    BY <1>3 DEF Install, IInv, UpdaterTypeOK
  <2>2. InOrder(target, up)
    BY <1>3, <2>1, NewerInOrder DEF Install
  <2> QED
    BY <1>3, <2>1, <2>2 DEF Install, InOrder
<1>4. CASE Rollback \/ InstallFails \/ RollbackFails
  BY <1>4 DEF Rollback, InstallFails, RollbackFails, InOrder, IInv, Applying
<1> QED
  BY <1>1, <1>2, <1>3, <1>4 DEF ApplyStep, ApplyFails

LEMMA ForwardStep == FInv /\ [Next]_vars => (Started /\ Decided /\ InOrder(bin, backup))'
<1> SUFFICES ASSUME FInv, [Next]_vars PROVE (Started /\ Decided /\ InOrder(bin, backup))'
  OBVIOUS
<1> USE DEF FInv, Started, Decided
<1>1. CASE UpdaterStep /\ CheckForUpdate
  BY <1>1 DEF UpdaterStep, Running, CheckForUpdate, InOrder, IInv, Alive
<1>2. CASE Restarts \/ Killed
  BY <1>2 DEF Restarts, Killed, Exit, Dies, Crash, Ends, InOrder
<1>3. CASE \E found : Start(found)
  BY <1>3 DEF Start, Exec, InOrder, IInv, Alive
<1>4. CASE \E v \in Versions : Publish(v)
  BY <1>4 DEF Publish, InOrder
<1>5. CASE UNCHANGED updaterVars
  BY <1>5 DEF updaterVars, InOrder
<1> QED
  BY <1>1, <1>2, <1>3, <1>4, <1>5, ForwardApply
  DEF Next, LookupFails, FaultStep, UpdaterStep, UpdaterFails, HeartbeatStep, Refresh, HeartbeatFails,
      Environment, vars

(* updater.go:205 decides by the process's own version what is installed    *)
(* several calls later, whatever is published, fails or dies in between.    *)
THEOREM NeverBackward == Spec => []UpdatesGoForward
<1>1. Init => FInv
  BY InitIInv DEF Init, UpdaterInit, FInv, Started, Decided, InOrder
<1>2. FInv /\ [Next]_vars => FInv'
  BY StepIInv, ForwardStep DEF FInv
<1>3. FInv => UpdatesGoForward
  <2> SUFFICES ASSUME FInv, NEW old \in {up, backup} \ {None}, bin # None,
                      {bin, old} \cap Untagged = {}
               PROVE  bin >= old
    BY DEF UpdatesGoForward
  <2> USE DEF FInv, Started, Decided
  <2>1. bin \in Versions /\ old \in Versions
    BY DEF IInv, UpdaterTypeOK
  <2>2. CASE old = backup
    BY <2>2 DEF InOrder
  <2>3. CASE old = up /\ step # "exit"
    BY <2>1, <2>3
  <2>4. CASE old = up /\ step = "exit"
    BY <2>4 DEF InOrder
  <2> QED
    BY <2>2, <2>3, <2>4
<1> QED
  BY <1>1, <1>2, <1>3, PTL DEF Spec

-----------------------------------------------------------------------------
(* Addresses and beats                                                     *)

HeartbeatTypes == HeartbeatTypeOK(Versions)

LEMMA BeatIsTyped ==
    ASSUME HeartbeatTypes, NEW m \in Beats(Versions)
    PROVE  Store(m) => cpVersion' \in Versions /\ cpAddr' \in Known
BY DEF HeartbeatTypes, HeartbeatTypeOK, Beats, Known, Store, Carried

LEMMA SentIsTyped ==
    ASSUME HeartbeatTypes, up \in Versions, NEW found \in SUBSET Families,
           SendHeartbeat(up, found)
    PROVE  HeartbeatTypes'
<1> USE DEF HeartbeatTypes, HeartbeatTypeOK, Beats, Known
<1>1. cached' \in Known
  BY DEF SendHeartbeat, Refreshed
<1>2. beat' \subseteq Beats(Versions)
  BY <1>1 DEF SendHeartbeat
<1> QED
  BY <1>1, <1>2 DEF SendHeartbeat

LEMMA HeartbeatStepIsTyped ==
    HeartbeatTypes /\ IInv /\ [Next]_vars => HeartbeatTypes'
<1> SUFFICES ASSUME HeartbeatTypes, IInv, [Next]_vars PROVE HeartbeatTypes'
  OBVIOUS
<1> USE DEF HeartbeatTypes, HeartbeatTypeOK
<1>1. CASE \E found \in SUBSET Families : Start(found)
  BY <1>1 DEF Start, NewHeartbeat, Refreshed, NoAddr, Known, heartbeatVars
<1>2. CASE Restarts \/ Killed
  BY <1>2 DEF Restarts, Killed, ProcessEnds, HeartbeatEnds, GivenUp, NoAddr, Known
<1>3. CASE HeartbeatStep \/ \E found \in SUBSET Families : Refresh(found)
  <2>1. ASSUME Running PROVE up \in Versions
    BY <2>1 DEF Running, IInv, Alive, UpdaterTypeOK
  <2>2. CASE \E m \in beat : BeatArrives(m)
    BY <2>2, BeatIsTyped DEF BeatArrives
  <2> QED
    BY <1>3, <2>1, <2>2, SentIsTyped DEF HeartbeatStep, Refresh
<1>4. CASE HeartbeatFails
  BY <1>4 DEF HeartbeatFails, BeatFails, GivenUp, Carried
<1>5. CASE Environment
  <2>1. CASE \E f \in Families, a \in Addrs : Moves(f, a)
    BY <2>1 DEF Moves
  <2>2. CASE \E m \in late : LateBeatArrives(m)
    BY <2>2, BeatIsTyped DEF LateBeatArrives, Carried
  <2> QED
    BY <1>5, <2>1, <2>2 DEF Environment, heartbeatVars
<1>6. CASE UNCHANGED heartbeatVars
  BY <1>6 DEF heartbeatVars
<1> QED
  BY <1>1, <1>2, <1>3, <1>4, <1>5, <1>6
  DEF Next, UpdaterStep, LookupFails, FaultStep, UpdaterFails, vars

-----------------------------------------------------------------------------
(* The settings of a process are those its file or the Control Plane gave.  *)
FromSource ==
    /\ file \in Files
    /\ stage # "down" => cfg \in Loaded

LEMMA LoadIsTyped ==
    /\ \A f \in Files : f.settings \in Settings /\ Load(f.settings) \in Settings
    /\ \A remote \in Served : MergeConfig(remote) \in Settings
<1>1. \A f \in Files : f.settings \in Settings
  OBVIOUS
<1>2. ASSUME NEW s \in Settings PROVE Load(s) \in Settings /\ MergeConfig(s) \in Settings
  <2>1. \A k \in {5, 30, 64} : \A i \in Int : Default(i, k) \in Int
    BY DEF Default
  <2>2. Load(s) \in Settings
    BY <2>1 DEF Settings, Load
  <2>3. MergeConfig(s) \in Settings
    BY DEF Settings, MergeConfig
  <2> QED
    BY <2>2, <2>3
<1> QED
  BY <1>1, <1>2

LEMMA SourceStep == FromSource /\ [Next]_vars => FromSource'
<1> SUFFICES ASSUME FromSource, [Next]_vars PROVE FromSource'
  OBVIOUS
<1> USE DEF FromSource, Loaded
<1>1. CASE \E found : Start(found)
  BY <1>1 DEF Start
<1>2. CASE Restarts \/ Killed
  BY <1>2 DEF Restarts, Killed, ProcessEnds
<1>3. CASE UNCHANGED <<file, cfg, stage>>
  BY <1>3
<1> QED
  BY <1>1, <1>2, <1>3 DEF Next, LookupFails, FaultStep, UpdaterStep, UpdaterFails, HeartbeatStep,
                          Refresh, HeartbeatFails, Environment, vars

-----------------------------------------------------------------------------
(* Every variable keeps to its domain: what runs, what is beside it and what *)
(* the Control Plane is told are versions and addresses there have been.    *)
THEOREM TypeCorrect == Spec => []TypeOK
<1> DEFINE ProcessTypes == cfg \in Settings /\ stage \in {"down", "blocked", "running"}
<1>1. Init => HeartbeatTypes /\ FromSource /\ ProcessTypes
  BY LoadIsTyped DEF Init, FromSource, HeartbeatInit, HeartbeatTypes, HeartbeatTypeOK, NoAddr, Known
<1>2. FromSource /\ ProcessTypes /\ [Next]_vars => ProcessTypes'
  <2> SUFFICES ASSUME FromSource, ProcessTypes, [Next]_vars PROVE ProcessTypes'
    OBVIOUS
  <2>1. CASE \E found : Start(found)
    BY <2>1, LoadIsTyped DEF Start, Loaded, FromSource
  <2>2. CASE Restarts \/ Killed
    BY <2>2, LoadIsTyped DEF Restarts, Killed, ProcessEnds, FromSource
  <2>3. CASE UNCHANGED <<cfg, stage>>
    BY <2>3
  <2> QED
    BY <2>1, <2>2, <2>3 DEF Next, LookupFails, FaultStep, UpdaterStep, UpdaterFails, HeartbeatStep,
                            Refresh, HeartbeatFails, Environment, vars
<1>3. IInv /\ HeartbeatTypes /\ FromSource /\ ProcessTypes => TypeOK
  BY DEF IInv, HeartbeatTypes, FromSource, TypeOK
<1> QED
  BY <1>1, <1>2, <1>3, InitIInv, StepIInv, HeartbeatStepIsTyped, SourceStep, PTL DEF Spec

-----------------------------------------------------------------------------
(* CircuitBreaker *)

Counted == {c \in Callers : request[c] = "counted"}

(* In the half-open state every occupied slot is held by a request in       *)
(* flight, and every request counted is in a slot or has been made up for   *)
(* by a success, its own or a stale one.                                    *)
SlotsAreHeld ==
    state = "half-open" =>
        /\ halfOpenCount <= Cardinality(Counted)
        /\ Cardinality(Counted) <= halfOpenCount + successCount

OneFirst == \A c, d \in Callers : request[c] = "first" /\ request[d] = "first" => c = d

BreakerIInv == BreakerTypeOK /\ SlotsAreHeld /\ ClosedBelowThreshold /\ OneFirst

LEMMA CountedFinite == IsFiniteSet(Counted) /\ Cardinality(Counted) \in Nat
<1>1. Counted \subseteq Callers
  BY DEF Counted
<1> QED
  BY <1>1, FS_Subset, FS_CardinalityType

LEMMA AgedType == request \in [Callers -> Requests] => Aged \in [Callers -> {"none", "old"}]
BY DEF Aged, Age, Requests

(* What the end of a request that leaves the state alone does to the set.  *)
LEMMA CountedEnds ==
    ASSUME BreakerTypeOK, NEW c \in Callers, request' = [request EXCEPT ![c] = "none"]
    PROVE  \/ c \in Counted /\ Cardinality(Counted') = Cardinality(Counted) - 1
           \/ c \notin Counted /\ Counted' = Counted
<1>1. Counted' = Counted \ {c}
  BY DEF Counted, BreakerTypeOK
<1>2. CASE c \in Counted
  BY <1>1, <1>2, CountedFinite, FS_RemoveElement
<1>3. CASE c \notin Counted
  BY <1>1, <1>3
<1> QED
  BY <1>2, <1>3

LEMMA InitBreakerIInv == BreakerInit => BreakerIInv
<1> SUFFICES ASSUME BreakerInit PROVE BreakerIInv
  OBVIOUS
<1>1. BreakerTypeOK
  BY DEF BreakerInit, BreakerTypeOK, Requests
<1> QED
  BY <1>1 DEF BreakerInit, BreakerIInv, SlotsAreHeld, ClosedBelowThreshold, OneFirst

LEMMA AllowBreakerIInv == \A c \in Callers : BreakerIInv /\ Allow(c) => BreakerIInv'
<1> SUFFICES ASSUME NEW c \in Callers, BreakerIInv, Allow(c) PROVE BreakerIInv'
  OBVIOUS
<1> USE DEF BreakerIInv, BreakerTypeOK, Requests
<1>1. CASE AllowClosed(c)
  BY <1>1 DEF AllowClosed, SlotsAreHeld, ClosedBelowThreshold, OneFirst
<1>2. CASE AllowOpen(c)
  <2>1. Aged \in [Callers -> {"none", "old"}]
    BY AgedType
  <2>2. request' = [Aged EXCEPT ![c] = "first"] /\ state' = "half-open"
    BY <1>2 DEF AllowOpen
  <2>3. Counted' = {}
    BY <2>1, <2>2 DEF Counted
  <2>4. Cardinality(Counted') = 0
    BY <2>3, FS_EmptySet
  <2>5. OneFirst'
    BY <2>1, <2>2 DEF OneFirst
  <2>6. BreakerTypeOK'
    BY <1>2, <2>1 DEF AllowOpen
  <2>7. halfOpenCount' = 0 /\ successCount' = 0
    BY <1>2 DEF AllowOpen
  <2> QED
    BY <2>2, <2>4, <2>5, <2>6, <2>7 DEF SlotsAreHeld, ClosedBelowThreshold
<1>3. CASE AllowHalfOpen(c)
  <2>1. Counted' = Counted \cup {c} /\ c \notin Counted
    BY <1>3 DEF AllowHalfOpen, Counted
  <2>2. Cardinality(Counted') = Cardinality(Counted) + 1
    BY <2>1, CountedFinite, FS_AddElement
  <2>3. OneFirst'
    BY <1>3 DEF AllowHalfOpen, OneFirst
  <2>4. BreakerTypeOK'
    BY <1>3 DEF AllowHalfOpen, HasSlot
  <2>5. SlotsAreHeld'
    BY <1>3, <2>2, CountedFinite DEF AllowHalfOpen, SlotsAreHeld
  <2> QED
    BY <1>3, <2>3, <2>4, <2>5 DEF AllowHalfOpen, ClosedBelowThreshold
<1> QED
  BY <1>1, <1>2, <1>3 DEF Allow

(* The end of a request keeps the types and the uniqueness of the first.   *)
LEMMA EndedType ==
    ASSUME BreakerTypeOK, OneFirst, NEW c \in Callers, request' = Ended(c)
    PROVE  request' \in [Callers -> Requests] /\ OneFirst'
<1>1. CASE state' = state
  BY <1>1 DEF Ended, BreakerTypeOK, Requests, OneFirst
<1>2. CASE state' # state
  <2>1. Aged \in [Callers -> {"none", "old"}]
    BY AgedType DEF BreakerTypeOK
  <2> QED
    BY <1>2, <2>1 DEF Ended, Requests, OneFirst
<1> QED
  BY <1>1, <1>2

LEMMA SuccessBreakerIInv == \A c \in Callers : BreakerIInv /\ RecordSuccess(c) => BreakerIInv'
<1> SUFFICES ASSUME NEW c \in Callers, BreakerIInv, RecordSuccess(c) PROVE BreakerIInv'
  OBVIOUS
<1>1. request' \in [Callers -> Requests] /\ OneFirst'
  BY EndedType DEF BreakerIInv, RecordSuccess
<1>2. CASE SucceedClosed
  <2>1. state' = "closed" /\ failureCount' = 0
    BY <1>2 DEF SucceedClosed
  <2>2. BreakerTypeOK'
    BY <1>1, <1>2 DEF SucceedClosed, RecordSuccess, BreakerIInv, BreakerTypeOK
  <2> QED
    BY <1>1, <2>1, <2>2 DEF BreakerIInv, SlotsAreHeld, ClosedBelowThreshold
<1>3. CASE SucceedHalfOpen
  <2> USE <1>3 DEF SucceedHalfOpen, BreakerIInv
  <2>1. -SuccessThreshold <= halfOpenCount - 1
    <3>1. 0 <= halfOpenCount + successCount
      BY CountedFinite DEF SlotsAreHeld, BreakerTypeOK
    <3> QED
      BY <3>1 DEF BreakerTypeOK
  <2>2. CASE successCount + 1 >= SuccessThreshold
    <3>1. state' = "closed" /\ failureCount' = 0 /\ successCount' = 0
      BY <2>2
    <3>2. BreakerTypeOK'
      BY <1>1, <2>1, <3>1 DEF RecordSuccess, BreakerTypeOK
    <3> QED
      BY <1>1, <3>1, <3>2 DEF SlotsAreHeld, ClosedBelowThreshold
  <2>3. CASE ~(successCount + 1 >= SuccessThreshold)
    <3>1. /\ state' = state /\ state = "half-open"
          /\ successCount' = successCount + 1
          /\ failureCount' = failureCount
          /\ halfOpenCount' = halfOpenCount - 1
      BY <2>3
    <3>2. BreakerTypeOK'
      BY <1>1, <2>1, <2>3, <3>1 DEF RecordSuccess, BreakerTypeOK
    <3>3. request' = [request EXCEPT ![c] = "none"]
      BY <3>1 DEF RecordSuccess, Ended
    <3>4. Cardinality(Counted') \in {Cardinality(Counted), Cardinality(Counted) - 1}
      BY <3>3, CountedEnds
    <3>5. SlotsAreHeld'
      BY <3>1, <3>4, CountedFinite DEF SlotsAreHeld, BreakerTypeOK
    <3> QED
      BY <1>1, <3>1, <3>2, <3>5 DEF ClosedBelowThreshold
  <2> QED
    BY <2>2, <2>3
<1>4. CASE SucceedOpen
  <2>1. state' = "open" /\ UNCHANGED <<failureCount, successCount, halfOpenCount, expired>>
    BY <1>4 DEF SucceedOpen, RecordSuccess
  <2>2. BreakerTypeOK'
    BY <1>1, <2>1 DEF BreakerIInv, BreakerTypeOK
  <2> QED
    BY <1>1, <2>1, <2>2 DEF BreakerIInv, SlotsAreHeld, ClosedBelowThreshold
<1> QED
  BY <1>2, <1>3, <1>4 DEF RecordSuccess

LEMMA FailureBreakerIInv == \A c \in Callers : BreakerIInv /\ RecordFailure(c) => BreakerIInv'
<1> SUFFICES ASSUME NEW c \in Callers, BreakerIInv, RecordFailure(c) PROVE BreakerIInv'
  OBVIOUS
<1>1. request' \in [Callers -> Requests] /\ OneFirst'
  BY EndedType DEF BreakerIInv, RecordFailure
<1>2. state' # "half-open" /\ (state' = "closed" => failureCount' < FailureThreshold)
  BY DEF RecordFailure, FailClosed, FailHalfOpen, FailOpen, BreakerIInv, BreakerTypeOK
<1>3. BreakerTypeOK'
  <2> USE <1>1 DEF RecordFailure, BreakerIInv, BreakerTypeOK
  <2>1. CASE FailClosed
    <3>1. failureCount' = failureCount + 1 /\ failureCount' <= FailureThreshold
      BY <2>1 DEF FailClosed, ClosedBelowThreshold
    <3>2. failureCount' \in 0..FailureThreshold
      BY <3>1
    <3> QED
      BY <2>1, <3>2 DEF FailClosed
  <2>2. CASE FailHalfOpen
    <3>1. halfOpenCount' \in -SuccessThreshold..HalfOpenMaxRequests
      BY <2>2 DEF FailHalfOpen
    <3> QED
      BY <2>2, <3>1 DEF FailHalfOpen
  <2>3. CASE FailOpen
    BY <2>3 DEF FailOpen
  <2> QED
    BY <2>1, <2>2, <2>3
<1> QED
  BY <1>1, <1>2, <1>3 DEF BreakerIInv, SlotsAreHeld, ClosedBelowThreshold

LEMMA ResetBreakerIInv == BreakerIInv /\ Reset => BreakerIInv'
<1> SUFFICES ASSUME BreakerIInv, Reset PROVE BreakerIInv'
  OBVIOUS
<1>1. request' \in [Callers -> {"none", "old"}]
  BY AgedType DEF Reset, BreakerIInv, BreakerTypeOK
<1>2. state' = "closed" /\ failureCount' = 0
  BY DEF Reset
<1>3. BreakerTypeOK'
  BY <1>1 DEF Reset, BreakerIInv, BreakerTypeOK, Requests
<1> QED
  BY <1>1, <1>2, <1>3 DEF BreakerIInv, SlotsAreHeld, ClosedBelowThreshold, OneFirst

LEMMA BreakerInvariance == BreakerSpec => []BreakerIInv
<1>1. BreakerIInv /\ [BreakerNext]_breakerVars => BreakerIInv'
  <2> SUFFICES ASSUME BreakerIInv, [BreakerNext]_breakerVars PROVE BreakerIInv'
    OBVIOUS
  <2>1. CASE TimePasses
    BY <2>1 DEF TimePasses, BreakerIInv, BreakerTypeOK, SlotsAreHeld, ClosedBelowThreshold, OneFirst, Counted
  <2>2. CASE UNCHANGED breakerVars
    BY <2>2 DEF breakerVars, BreakerIInv, BreakerTypeOK, SlotsAreHeld, ClosedBelowThreshold, OneFirst, Counted
  <2> QED
    BY <2>1, <2>2, AllowBreakerIInv, SuccessBreakerIInv, FailureBreakerIInv, ResetBreakerIInv DEF BreakerNext
<1> QED
  BY <1>1, InitBreakerIInv, PTL DEF BreakerSpec

(* The counters stay within their bounds; halfOpenCount, which stale        *)
(* successes drive below zero, not further than SuccessThreshold.           *)
THEOREM BreakerTypeCorrect == BreakerSpec => []BreakerTypeOK
<1>1. BreakerIInv => BreakerTypeOK
  BY DEF BreakerIInv
<1> QED
  BY <1>1, BreakerInvariance, PTL

(* breaker.go:131-137 never turns a call away when no request is in flight: *)
(* the half-open state cannot last for want of a probe.                     *)
THEOREM NotStuckHalfOpen == BreakerSpec => []NeverStuckHalfOpen
<1>1. BreakerIInv => NeverStuckHalfOpen
  <2> SUFFICES ASSUME BreakerIInv, state = "half-open", \A c \in Callers : request[c] = "none"
               PROVE  HasSlot
    BY DEF NeverStuckHalfOpen
  <2>1. Counted = {}
    BY DEF Counted
  <2>2. Cardinality(Counted) = 0
    BY <2>1, FS_EmptySet
  <2> QED
    BY <2>2 DEF BreakerIInv, BreakerTypeOK, SlotsAreHeld, HasSlot
<1> QED
  BY <1>1, BreakerInvariance, PTL

(* breaker.go:174-178: the failure that reaches the threshold opens the     *)
(* breaker in the same critical section.                                    *)
THEOREM ClosedMeansBelow == BreakerSpec => []ClosedBelowThreshold
<1>1. BreakerIInv => ClosedBelowThreshold
  BY DEF BreakerIInv
<1> QED
  BY <1>1, BreakerInvariance, PTL

(* The concurrency of the half-open state is bounded, if not by             *)
(* HalfOpenMaxRequests alone (breaker.go:48).                               *)
THEOREM ProbesAreBounded == BreakerSpec => []ProbesBounded
<1>1. BreakerIInv => ProbesBounded
  <2> SUFFICES ASSUME BreakerIInv, state = "half-open"
               PROVE  Cardinality(Probes) <= HalfOpenMaxRequests + 1 + successCount
    BY DEF ProbesBounded
  <2>1. Cardinality(Counted) <= HalfOpenMaxRequests + successCount
    BY CountedFinite DEF BreakerIInv, BreakerTypeOK, SlotsAreHeld
  <2>2. CASE \E d \in Callers : request[d] = "first"
    <3>1. PICK d \in Callers : request[d] = "first"
      BY <2>2
    <3>2. Probes = Counted \cup {d} /\ d \notin Counted
      BY <3>1 DEF Probes, Counted, BreakerIInv, OneFirst
    <3>3. Cardinality(Probes) = Cardinality(Counted) + 1
      BY <3>2, CountedFinite, FS_AddElement
    <3> QED
      BY <2>1, <3>3, CountedFinite DEF BreakerIInv, BreakerTypeOK
  <2>3. CASE \A d \in Callers : request[d] # "first"
    <3>1. Probes = Counted
      BY <2>3 DEF Probes, Counted
    <3> QED
      BY <2>1, <3>1, CountedFinite DEF BreakerIInv, BreakerTypeOK
  <2> QED
    BY <2>2, <2>3
<1> QED
  BY <1>1, BreakerInvariance, PTL
=============================================================================
