---------------------------- MODULE IBGPSyncProofs ----------------------------
(***************************************************************************)
(* Proof about IBGPSync: however many runs of Sync() interleave over the   *)
(* same files, no reload of BIRD is forgotten between them.                *)
(***************************************************************************)
EXTENDS IBGPSync, TLAPS

USE IBGPAssumption

-----------------------------------------------------------------------------
(* Types *)

PCs == {"idle", "start", "generate", "fill", "cleanup", "reload"}

Contents == {Absent, Emptied, Garbled} \cup Versions

LEMMA ContentsDiffer ==
    /\ Absent \notin Versions /\ Emptied \notin Versions /\ Garbled \notin Versions
    /\ Emptied # Absent /\ Garbled # Absent /\ Garbled # Emptied
BY DEF Absent, Versions, Emptied, Garbled

(* What BIRD and the history of its reloads may become in a step.          *)
LEMMA LoadedStep ==
    ASSUME [Next]_vars PROVE UNCHANGED <<loaded, lost>> \/ Reload \/ ReloadFails
BY ZenonT(60) DEF Next, FaultStep, WorkerStep, UpdatePeers, CopyPeers, Keep, Truncate, Fill, FillOver,
       FillFails, OpenFails, ListFiles, Remove, RemoveFails, Finish, Configure, ConfigureFails,
       FirstReload, FirstReloadFails, OtherReload, Serve, Restart, vars, nodeVars

LEMMA LoadedIsTyped ==
    ASSUME TypeOK, [Next]_vars
    PROVE  loaded' \in [Peers -> Versions \cup {Absent}] /\ lost' \in BOOLEAN
<1>1. CASE UNCHANGED <<loaded, lost>>
  BY <1>1 DEF TypeOK
<1>2. CASE Reload
  <2>1. loaded' \in [Peers -> Versions \cup {Absent}]
    BY <1>2 DEF Reload, TypeOK
  <2>2. lost' \in BOOLEAN
    BY <1>2, Zenon DEF Reload
  <2> QED
    BY <2>1, <2>2
<1>3. CASE ReloadFails
  BY <1>3 DEF ReloadFails, TypeOK
<1> QED
  BY <1>1, <1>2, <1>3, LoadedStep

LEMMA FlagsAreTyped ==
    ASSUME changed \in [Workers -> BOOLEAN], due \in BOOLEAN, [Next]_vars
    PROVE  changed' \in [Workers -> BOOLEAN] /\ due' \in BOOLEAN
<1>1. \/ UNCHANGED changed
      \/ \E w \in Workers, b \in BOOLEAN : changed' = [changed EXCEPT ![w] = b]
      \/ changed' = [w \in Workers |-> FALSE]
  BY DEF Next, FaultStep, WorkerStep, UpdatePeers, CopyPeers, Keep, Truncate, Fill, FillOver,
         FillFails, OpenFails, ListFiles, Remove, RemoveFails, Finish, Configure, ConfigureFails,
         FirstReload, FirstReloadFails, OtherReload, Serve, Restart, vars,
         workerVars
<1>2. changed' \in [Workers -> BOOLEAN]
  BY <1>1
<1>3. UNCHANGED due \/ due' = TRUE \/ due' = FALSE
  BY ZenonT(60) DEF Next, FaultStep, WorkerStep, UpdatePeers, CopyPeers, Keep, Truncate, Fill, FillOver,
         FillFails, OpenFails, ListFiles, Remove, RemoveFails, Finish, Configure, ConfigureFails,
         FirstReload, FirstReloadFails, OtherReload, Serve, Restart, vars
<1>4. due' \in BOOLEAN
  BY <1>3, Zenon
<1> QED
  BY <1>2, <1>4

LEMMA WorkersAreTyped ==
    ASSUME TypeOK, [Next]_vars
    PROVE  /\ pc' \in [Workers -> PCs] /\ copy' \in [Workers -> Lists]
           /\ todo' \in [Workers -> SUBSET Peers] /\ writing' \in [Workers -> Peers \cup {NoFile}]
<1> USE DEF TypeOK, PCs, Goto, Close
<1>1. ASSUME NEW w \in Workers, UpdatePeers(w) \/ CopyPeers(w)
      PROVE  /\ pc' \in [Workers -> PCs] /\ copy' \in [Workers -> Lists]
             /\ todo' \in [Workers -> SUBSET Peers] /\ writing' \in [Workers -> Peers \cup {NoFile}]
  BY <1>1 DEF UpdatePeers, CopyPeers
<1>2. ASSUME NEW w \in Workers, \/ Fill(w) \/ FillOver(w) \/ FillFails(w) \/ ListFiles(w) \/ Finish(w)
                                 \/ Configure(w) \/ ConfigureFails(w)
      PROVE  /\ pc' \in [Workers -> PCs] /\ copy' \in [Workers -> Lists]
             /\ todo' \in [Workers -> SUBSET Peers] /\ writing' \in [Workers -> Peers \cup {NoFile}]
  BY <1>2 DEF Fill, FillOver, FillFails, ListFiles, Finish, Configure, ConfigureFails
<1>3. ASSUME NEW w \in Workers, NEW n \in Peers, \/ Keep(w, n) \/ Truncate(w, n) \/ OpenFails(w, n)
                                                 \/ Remove(w, n) \/ RemoveFails(w, n)
      PROVE  /\ pc' \in [Workers -> PCs] /\ copy' \in [Workers -> Lists]
             /\ todo' \in [Workers -> SUBSET Peers] /\ writing' \in [Workers -> Peers \cup {NoFile}]
  BY <1>3 DEF Keep, Truncate, OpenFails, Remove, RemoveFails
<1>4. CASE Restart
  BY <1>4 DEF Restart, Lists, NoList, Absent
<1>5. CASE UNCHANGED <<pc, copy, todo, writing>>
  BY <1>5
<1> QED
  BY <1>1, <1>2, <1>3, <1>4, <1>5
     DEF Next, FaultStep, WorkerStep, FirstReload, FirstReloadFails, OtherReload, Serve,
         workerVars, vars

LEMMA FilesAreTyped ==
    ASSUME TypeOK, [Next]_vars
    PROVE  file' \in [Peers -> Contents]
<1>1. \A w \in Workers : writing[w] \in Peers => copy[w][writing[w]] \in Contents
  BY DEF TypeOK, Lists, Peers, Contents
<1>2. \/ UNCHANGED file
      \/ \E n \in Peers, content \in Contents : file' = [file EXCEPT ![n] = content]
  BY <1>1, SMTT(30)
     DEF Next, FaultStep, WorkerStep, UpdatePeers, CopyPeers, Keep, Truncate, Fill, FillOver,
         FillFails, OpenFails, ListFiles, Remove, RemoveFails, Finish, Configure, ConfigureFails,
         FirstReload, FirstReloadFails, OtherReload, Serve, Restart, vars,
         nodeVars, TypeOK, Contents
<1> QED
  BY <1>2 DEF TypeOK, Contents

LEMMA StepIsTyped ==
    ASSUME TypeOK, [Next]_vars PROVE TypeOK'
<1>1. /\ served' \in Lists /\ peers' \in Lists /\ changes' \in 0..MaxChanges
  BY DEF Next, FaultStep, WorkerStep, UpdatePeers, CopyPeers, Keep, Truncate, Fill, FillOver,
         FillFails, OpenFails, ListFiles, Remove, RemoveFails, Finish, Configure, ConfigureFails,
         FirstReload, FirstReloadFails, OtherReload, Serve, Restart, vars,
         TypeOK, Lists, NoList
<1> QED
  BY <1>1, FlagsAreTyped, WorkersAreTyped, FilesAreTyped, LoadedIsTyped DEF TypeOK, PCs, Contents

-----------------------------------------------------------------------------
(* No reload is lost *)

(* A worker that has changed a file and is still to reload BIRD for it.    *)
WillReload(w) == changed[w] /\ pc[w] \in {"generate", "fill", "cleanup", "reload"}

(* Where BIRD does not run what a file says, somebody is about to reload    *)
(* (the writer of the file, another one, or the configuration task), or a   *)
(* reload has been lost.                                                    *)
Pending ==
    \A n \in Peers :
        file[n] \in Versions /\ loaded[n] # file[n]
            => due \/ lost \/ \E w \in Workers : WillReload(w)

LEMMA ReloadStep ==
    ASSUME Reload \/ ReloadFails, UNCHANGED file PROVE Pending'
<1>1. CASE lost'
  BY <1>1 DEF Pending
<1>2. CASE ~lost'
  <2>1. loaded' = [n \in Peers |-> IF file[n] = Emptied THEN Absent ELSE file[n]]
    BY <1>2 DEF Reload, ReloadFails
  <2>2. \A n \in Peers : file[n] \in Versions => loaded'[n] = file[n]
    BY <2>1, ContentsDiffer
  <2> QED
    BY <2>2 DEF Pending
<1> QED
  BY <1>1, <1>2

(* Steps that leave the files and BIRD alone, and no worker less to do.    *)
LEMMA IdleStep ==
    ASSUME Pending, UNCHANGED <<file, loaded, lost>>, due => due',
           \A w \in Workers : WillReload(w) => WillReload(w)'
    PROVE  Pending'
BY DEF Pending

(* Steps that leave BIRD alone and take a peer's text from its file.       *)
LEMMA BlankStep ==
    ASSUME TypeOK, Pending, NEW n \in Peers, NEW content \in {Absent, Emptied},
           file' = [file EXCEPT ![n] = content], UNCHANGED <<loaded, due, lost>>,
           \A w \in Workers : WillReload(w) => WillReload(w)'
    PROVE  Pending'
<1>1. \A k \in Peers : file'[k] \in Versions => file[k] = file'[k]
  BY ContentsDiffer DEF TypeOK
<1> QED
  BY <1>1 DEF Pending

LEMMA PendingStep ==
    ASSUME TypeOK, Pending, [Next]_vars PROVE Pending'
<1> USE DEF TypeOK, Goto
<1>1. ASSUME NEW w \in Workers, UpdatePeers(w) \/ CopyPeers(w) PROVE Pending'
  <2>1. /\ UNCHANGED <<file, loaded, due, lost>> /\ pc[w] \in {"idle", "start"}
        /\ \A v \in Workers \ {w} : pc'[v] = pc[v] /\ changed'[v] = changed[v]
    BY <1>1 DEF UpdatePeers, CopyPeers, Begins, nodeVars
  <2> QED
    BY <2>1, IdleStep DEF WillReload
<1>2. ASSUME NEW w \in Workers, NEW n \in Peers, Keep(w, n) \/ OpenFails(w, n) \/ RemoveFails(w, n)
      PROVE  Pending'
  BY <1>2, IdleStep DEF Keep, OpenFails, RemoveFails, WillReload, nodeVars
<1>3. ASSUME NEW w \in Workers, NEW n \in Peers, Truncate(w, n) \/ Remove(w, n) PROVE Pending'
  <2>1. /\ UNCHANGED <<loaded, due, lost>>
        /\ \E content \in {Absent, Emptied} : file' = [file EXCEPT ![n] = content]
        /\ \A v \in Workers : WillReload(v) => WillReload(v)'
    BY <1>3 DEF Truncate, Remove, WillReload
  <2> QED
    BY <2>1, BlankStep
<1>4. ASSUME NEW w \in Workers, Fill(w) \/ FillOver(w) PROVE Pending'
  <2>1. WillReload(w)'
    BY <1>4 DEF Fill, FillOver, WillReload
  <2> QED
    BY <2>1 DEF Pending
<1>5. ASSUME NEW w \in Workers, FillFails(w) \/ ListFiles(w) \/ Finish(w) PROVE Pending'
  BY <1>5, IdleStep DEF FillFails, ListFiles, Finish, WillReload, nodeVars
<1>6. CASE \/ FirstReload \/ FirstReloadFails \/ OtherReload
           \/ \E w \in Workers : Configure(w) \/ ConfigureFails(w)
  BY <1>6, ReloadStep DEF FirstReload, FirstReloadFails, OtherReload, Configure, ConfigureFails
<1>7. CASE Restart
  BY <1>7 DEF Restart, Pending
<1>8. CASE UNCHANGED <<file, loaded, due, lost, pc, changed>>
  BY <1>8, IdleStep DEF WillReload
<1>9. CASE UNCHANGED vars \/ \E n \in Nodes, v \in Versions \cup {Absent} : Serve(n, v)
  BY <1>8, <1>9 DEF Serve, nodeVars, workerVars, vars
<1>10. CASE \E w \in Workers : UpdatePeers(w) \/ WorkerStep(w)
  BY <1>1, <1>2, <1>3, <1>4, <1>5, <1>6, <1>10 DEF WorkerStep
<1>11. CASE FaultStep
  BY <1>2, <1>4, <1>5, <1>6, <1>7, <1>11 DEF FaultStep
<1> QED
  BY <1>6, <1>9, <1>10, <1>11 DEF Next

LEMMA Invariance == Spec => [](TypeOK /\ Pending)
<1>1. Init => TypeOK
  <2> SUFFICES ASSUME Init PROVE TypeOK
    OBVIOUS
  <2>1. /\ served \in Lists /\ peers \in Lists /\ copy \in [Workers -> Lists]
        /\ file \in [Peers -> Contents] /\ loaded \in [Peers -> Versions \cup {Absent}]
        /\ changes \in 0..MaxChanges
    BY DEF Init, NoWorker, NoList, Lists, Versions, Absent, Contents
  <2>2. /\ pc \in [Workers -> PCs] /\ todo \in [Workers -> SUBSET Peers]
        /\ writing \in [Workers -> Peers \cup {NoFile}] /\ changed \in [Workers -> BOOLEAN]
    BY DEF Init, NoWorker, PCs
  <2>3. due \in BOOLEAN /\ lost \in BOOLEAN
    BY Zenon DEF Init
  <2> QED
    BY <2>1, <2>2, <2>3 DEF TypeOK, Contents, PCs
<1>2. Init => Pending
  BY DEF Init, Pending
<1>3. TypeOK /\ Pending /\ [Next]_vars => TypeOK' /\ Pending'
  BY StepIsTyped, PendingStep
<1> QED
  BY <1>1, <1>2, <1>3, PTL DEF Spec

(* Every variable keeps to its domain, however the workers interleave.     *)
THEOREM TypeCorrect == Spec => []TypeOK
BY Invariance, PTL

(* For any peers and any number of runs of Sync() at a time, with files that *)
(* cannot be written or are spoilt by two writers, reloads that fail or are  *)
(* refused, and restarts at any moment: when no run is under way, BIRD runs  *)
(* each peer as its file says, unless the first reload is still due or one   *)
(* that BIRD did not carry out has not been followed by one it did.          *)
THEOREM NoReloadIsLost == Spec => []QuietIsLoaded
<1>1. Pending => QuietIsLoaded
  BY DEF Pending, WillReload, Quiet, QuietIsLoaded
<1> QED
  BY <1>1, Invariance, PTL
=============================================================================
