------------------------------- MODULE IBGPSync -------------------------------
(***************************************************************************)
(* The iBGP peers' files and BIRD's view of them:                          *)
(* internal/task/ibgp_sync.go, with the call of UpdatePeersFromAPI in      *)
(* internal/task/bird_config_sync.go.                                      *)
(*                                                                         *)
(* Sync() runs in the task's own goroutine on a ticker and, whenever the   *)
(* Control Plane's list has been fetched, in a goroutine made for the      *)
(* occasion; only the copying of the list is under the mutex.  A file is   *)
(* written by truncating and then filling it, and belongs to nobody in     *)
(* between.                                                                *)
(***************************************************************************)
EXTENDS Naturals, FiniteSets

CONSTANTS Nodes,       \* node IDs that may be peers
          Self,        \* our own
          MaxVersion,  \* versions of what is served about a peer
          Workers,     \* goroutines that may run Sync() at a time
          Ticker,      \* the task's own
          NonEmpty,    \* whether the list served always names somebody
          Faults,      \* kinds of fault that may happen, again and again
          MaxChanges   \* bound on the changes of what is served

FaultKinds == {"file",      \* os.WriteFile or os.Remove fails
               "bird",      \* BIRD cannot be reached, or refuses to reload
               "overlay",   \* two writers leave a file that is neither's
               "restart"}   \* the agent is restarted

ASSUME IBGPAssumption ==
    /\ Self \in Nodes
    /\ Ticker \in Workers
    /\ MaxVersion \in Nat \ {0}
    /\ NonEmpty \in BOOLEAN
    /\ Faults \subseteq FaultKinds
    /\ MaxChanges \in Nat

Absent == 0
Versions == 1..MaxVersion
Emptied == MaxVersion + 1     \* a file that has been truncated
Garbled == MaxVersion + 2     \* a file BIRD cannot parse
Peers == Nodes \ {Self}
Lists == [Nodes -> Versions \cup {Absent}]

VARIABLES
    served,     \* what the Control Plane says of each node
    peers,      \* i.peers
    file,       \* ibgp_<node>.conf
    loaded,     \* the peer as BIRD runs it
    due,        \* the configuration task has yet to reload BIRD since the start
    lost,       \* history: BIRD has not carried out a reload it should have, nor
                \* any since
    pc,         \* where each worker is
    copy,       \* its peerMap
    todo,       \* peers it has still to generate, then files to look at
    writing,    \* the file it has open
    changed,    \* its flag of that name
    changes

nodeVars   == <<file, loaded>>
workerVars == <<pc, copy, todo, writing, changed>>
vars == <<served, peers, due, lost, nodeVars, workerVars, changes>>

NoList == [n \in Nodes |-> Absent]
NoFile == Self                \* Self has no file

TypeOK ==
    /\ served \in Lists
    /\ peers \in Lists
    /\ file \in [Peers -> {Absent, Emptied, Garbled} \cup Versions]
    /\ loaded \in [Peers -> Versions \cup {Absent}]
    /\ due \in BOOLEAN /\ lost \in BOOLEAN
    /\ pc \in [Workers -> {"idle", "start", "generate", "fill", "cleanup", "reload"}]
    /\ copy \in [Workers -> Lists]
    /\ todo \in [Workers -> SUBSET Peers]
    /\ writing \in [Workers -> Peers \cup {NoFile}]
    /\ changed \in [Workers -> BOOLEAN]
    /\ changes \in 0..MaxChanges

NoWorker ==
    /\ pc = [w \in Workers |-> "idle"]
    /\ copy = [w \in Workers |-> NoList]
    /\ todo = [w \in Workers |-> {}]
    /\ writing = [w \in Workers |-> NoFile]
    /\ changed = [w \in Workers |-> FALSE]

Init ==
    /\ served = [n \in Nodes |-> 1]
    /\ peers = NoList
    /\ file = [n \in Peers |-> Absent]
    /\ loaded = file
    /\ due = TRUE
    /\ lost = FALSE
    /\ NoWorker
    /\ changes = 0

Goto(w, from, to) == pc[w] = from /\ pc' = [pc EXCEPT ![w] = to]

-----------------------------------------------------------------------------
(* UpdatePeersFromAPI, which is called only with a list that names somebody *)
UpdatePeers(w) ==
    /\ w # Ticker
    /\ served # NoList
    /\ Goto(w, "idle", "start")
    /\ peers' = served
    /\ UNCHANGED <<served, due, lost, nodeVars, copy, todo, writing, changed, changes>>

-----------------------------------------------------------------------------
(* Sync *)

Begins(w) == pc[w] = IF w = Ticker THEN "idle" ELSE "start"

CopyPeers(w) ==
    /\ Begins(w)
    /\ peers # NoList
    /\ pc' = [pc EXCEPT ![w] = "generate"]
    /\ copy' = [copy EXCEPT ![w] = peers]
    /\ todo' = [todo EXCEPT ![w] = {n \in Peers : peers[n] # Absent}]
    /\ changed' = [changed EXCEPT ![w] = FALSE]
    /\ UNCHANGED <<served, peers, due, lost, nodeVars, writing, changes>>

(* Mutation: the flag is that of the last peer.                            *)
KeepForgets(w, n) ==
    /\ n \in todo[w]
    /\ file[n] = copy[w][n]
    /\ Goto(w, "generate", "generate")
    /\ todo' = [todo EXCEPT ![w] = @ \ {n}]
    /\ changed' = [changed EXCEPT ![w] = FALSE]
    /\ UNCHANGED <<served, peers, due, lost, nodeVars, copy, writing, changes>>

(* generateConfig: a file that holds the right text already is left alone. *)
Keep(w, n) ==
    /\ n \in todo[w]
    /\ file[n] = copy[w][n]
    /\ Goto(w, "generate", "generate")
    /\ todo' = [todo EXCEPT ![w] = @ \ {n}]
    /\ UNCHANGED <<served, peers, due, lost, nodeVars, copy, writing, changed, changes>>

Truncate(w, n) ==
    /\ n \in todo[w]
    /\ file[n] # copy[w][n]
    /\ Goto(w, "generate", "fill")
    /\ file' = [file EXCEPT ![n] = Emptied]
    /\ writing' = [writing EXCEPT ![w] = n]
    /\ todo' = [todo EXCEPT ![w] = @ \ {n}]
    /\ UNCHANGED <<served, peers, due, lost, loaded, copy, changed, changes>>

(* The file cannot be opened and keeps its text.                           *)
OpenFails(w, n) ==
    /\ n \in todo[w]
    /\ file[n] # copy[w][n]
    /\ Goto(w, "generate", "generate")
    /\ "file" \in Faults
    /\ todo' = [todo EXCEPT ![w] = @ \ {n}]
    /\ UNCHANGED <<served, peers, due, lost, nodeVars, copy, writing, changed, changes>>

Close(w) == writing' = [writing EXCEPT ![w] = NoFile]

(* The text replaces what another writer has put there since the truncation, *)
(* or goes to a file that another worker has removed from the directory.     *)
Fill(w) ==
    /\ Goto(w, "fill", "generate")
    /\ file' = IF writing[w] = NoFile THEN file
               ELSE [file EXCEPT ![writing[w]] = copy[w][writing[w]]]
    /\ changed' = [changed EXCEPT ![w] = TRUE]
    /\ Close(w)
    /\ UNCHANGED <<served, peers, due, lost, loaded, copy, todo, changes>>

(* It is shorter, and the end of the other writer's text remains.          *)
FillOver(w) ==
    /\ Goto(w, "fill", "generate")
    /\ writing[w] # NoFile
    /\ file[writing[w]] \notin {Emptied, copy[w][writing[w]]}
    /\ "overlay" \in Faults
    /\ file' = [file EXCEPT ![writing[w]] = Garbled]
    /\ changed' = [changed EXCEPT ![w] = TRUE]
    /\ Close(w)
    /\ UNCHANGED <<served, peers, due, lost, loaded, copy, todo, changes>>

(* Nothing is written after the truncation.                                *)
FillFails(w) ==
    /\ Goto(w, "fill", "generate")
    /\ "file" \in Faults
    /\ Close(w)
    /\ UNCHANGED <<served, peers, due, lost, nodeVars, copy, todo, changed, changes>>

(* Mutation: the directory is looked at only when a file has changed.      *)
ListIfChanged(w) ==
    /\ todo[w] = {}
    /\ Goto(w, "generate", "cleanup")
    /\ todo' = [todo EXCEPT ![w] = {n \in Peers : changed[w] /\ file[n] # Absent /\ copy[w][n] = Absent}]
    /\ UNCHANGED <<served, peers, due, lost, nodeVars, copy, writing, changed, changes>>

(* cleanupStaleConfigs lists the directory and removes what the worker's    *)
(* own copy of the peers does not name.                                     *)
ListFiles(w) ==
    /\ todo[w] = {}
    /\ Goto(w, "generate", "cleanup")
    /\ todo' = [todo EXCEPT ![w] = {n \in Peers : file[n] # Absent /\ copy[w][n] = Absent}]
    /\ UNCHANGED <<served, peers, due, lost, nodeVars, copy, writing, changed, changes>>

Remove(w, n) ==
    /\ n \in todo[w]
    /\ Goto(w, "cleanup", "cleanup")
    /\ file' = [file EXCEPT ![n] = Absent]
    /\ writing' = [v \in Workers |-> IF writing[v] = n THEN NoFile ELSE writing[v]]
    /\ todo' = [todo EXCEPT ![w] = @ \ {n}]
    /\ UNCHANGED <<served, peers, due, lost, loaded, copy, changed, changes>>

RemoveFails(w, n) ==
    /\ n \in todo[w]
    /\ Goto(w, "cleanup", "cleanup")
    /\ "file" \in Faults
    /\ todo' = [todo EXCEPT ![w] = @ \ {n}]
    /\ UNCHANGED <<served, peers, due, lost, nodeVars, copy, writing, changed, changes>>

Finish(w) ==
    /\ todo[w] = {}
    /\ Goto(w, "cleanup", IF changed[w] THEN "reload" ELSE "idle")
    /\ UNCHANGED <<served, peers, due, lost, nodeVars, copy, todo, writing, changed, changes>>

(* BIRD reads every file there is and keeps what it had if one is garbled. *)
Reload ==
    LET legible == \A n \in Peers : file[n] # Garbled IN
    /\ loaded' = IF legible THEN [n \in Peers |-> IF file[n] = Emptied THEN Absent ELSE file[n]]
                 ELSE loaded
    /\ lost' = ~legible

(* No connection, an error code, or a refusal for the sake of some other    *)
(* file, which Configure() may well take for success: BIRD keeps what it    *)
(* had, and at most a warning is logged.                                    *)
ReloadFails ==
    /\ "bird" \in Faults
    /\ lost' = TRUE
    /\ UNCHANGED loaded

Configure(w) ==
    /\ Goto(w, "reload", "idle")
    /\ Reload
    /\ UNCHANGED <<served, peers, due, file, copy, todo, writing, changed, changes>>

(* The next Sync() finds the files as they should be and does not repeat it. *)
ConfigureFails(w) ==
    /\ Goto(w, "reload", "idle")
    /\ ReloadFails
    /\ UNCHANGED <<served, peers, due, file, copy, todo, writing, changed, changes>>

-----------------------------------------------------------------------------
(* The environment *)

(* The configuration task has no hash after a start, so it reloads BIRD     *)
(* when it has passed the first list on; ConfigSync tells the whole story.  *)
FirstReload ==
    /\ due
    /\ peers # NoList
    /\ due' = FALSE
    /\ Reload
    /\ UNCHANGED <<served, peers, file, workerVars, changes>>

(* The hash is remembered by then, so this one is not repeated either.     *)
FirstReloadFails ==
    /\ due
    /\ peers # NoList
    /\ due' = FALSE
    /\ ReloadFails
    /\ UNCHANGED <<served, peers, file, workerVars, changes>>

(* Another task or a handler reloads BIRD for reasons of its own.          *)
OtherReload ==
    /\ Reload
    /\ UNCHANGED <<served, peers, due, file, workerVars, changes>>

(* Nodes join, leave and change.                                           *)
Serve(n, v) ==
    /\ changes < MaxChanges
    /\ v # served[n]
    /\ served' = [served EXCEPT ![n] = v]
    /\ NonEmpty => served' # NoList
    /\ changes' = changes + 1
    /\ UNCHANGED <<peers, due, lost, nodeVars, workerVars>>

Restart ==
    /\ "restart" \in Faults
    /\ peers' = NoList
    /\ due' = TRUE
    /\ pc' = [w \in Workers |-> "idle"]
    /\ copy' = [w \in Workers |-> NoList]
    /\ todo' = [w \in Workers |-> {}]
    /\ writing' = [w \in Workers |-> NoFile]
    /\ changed' = [w \in Workers |-> FALSE]
    /\ UNCHANGED <<served, lost, nodeVars, changes>>

-----------------------------------------------------------------------------
WorkerStep(w) ==
    \/ CopyPeers(w) \/ Fill(w) \/ ListFiles(w) \/ Finish(w) \/ Configure(w)
    \/ \E n \in Peers : Keep(w, n) \/ Truncate(w, n) \/ Remove(w, n)

FaultStep ==
    \/ Restart \/ FirstReloadFails
    \/ \E w \in Workers :
          \/ FillOver(w) \/ FillFails(w) \/ ConfigureFails(w)
          \/ \E n \in Peers : OpenFails(w, n) \/ RemoveFails(w, n)

Next ==
    \/ \E w \in Workers : UpdatePeers(w) \/ WorkerStep(w)
    \/ FaultStep
    \/ FirstReload \/ OtherReload
    \/ \E n \in Nodes, v \in Versions \cup {Absent} : Serve(n, v)

Spec == Init /\ [][Next]_vars

(* Goroutines are scheduled, the ticker and the configuration task's ticker *)
(* keep ticking.                                                            *)
LiveSpec ==
    /\ Spec
    /\ \A w \in Workers : WF_vars(WorkerStep(w)) /\ WF_vars(UpdatePeers(w))
    /\ WF_vars(FirstReload)

-----------------------------------------------------------------------------
(* Properties *)

Quiet == \A w \in Workers : pc[w] = "idle"

(* No reload is forgotten between two workers: when both have finished,     *)
(* BIRD runs every file there is as it is (ibgp_sync.go:130, "Reload BIRD   *)
(* if configs changed"), unless the configuration task is still to reload,  *)
(* or BIRD was told to and has not carried it out, which the code does not  *)
(* repeat.  (A file that is gone is another matter.)                        *)
QuietIsLoaded ==
    Quiet /\ ~due /\ ~lost => \A n \in Peers : file[n] \in Versions => loaded[n] = file[n]

FaultsEnd == <>[][~FaultStep]_vars

(* Once the list settles and nothing fails any more, the directory holds    *)
(* the files of the peers served and no other, in spite of workers with old *)
(* lists that overwrite and remove what newer ones have written; and BIRD   *)
(* runs them, but for a reload it has not carried out and that nothing has  *)
(* made good since.                                                         *)
PeersAreRun ==
    FaultsEnd => <>[](\A n \in Peers :
                        /\ file[n] = served[n]
                        /\ served[n] # Absent /\ ~lost => loaded[n] = served[n])

(* ibgp_sync.go:88: "Sync updates iBGP peer configurations based on mesh    *)
(* peers".  Refuted by one ConfigureFails.                                  *)
LostReloadIsMadeGood == FaultsEnd => <>[]~lost

(* ibgp_sync.go:125,130: the files of peers that no longer exist are cleaned *)
(* up, and BIRD reloaded if configs changed.                                 *)
FormerPeersAreStopped == <>[](\A n \in Peers : served[n] = Absent => loaded[n] = Absent)
=============================================================================
