------------------------------ MODULE ConfigSync ------------------------------
(***************************************************************************)
(* The task that renders BIRD's policy from what the Control Plane serves: *)
(* internal/task/bird_config_sync.go, and internal/httpclient, the client  *)
(* it asks through.                                                        *)
(*                                                                         *)
(* Sync() fetches a configuration with a hash, compares the hash with that *)
(* of the last one it rendered, writes five files one after the other,     *)
(* remembers the hash and reloads BIRD.  A configuration is here the       *)
(* number of its version, which stands for its hash as well.               *)
(***************************************************************************)
EXTENDS Naturals, Sequences

CONSTANTS MaxVersion,   \* the versions the Control Plane may publish
          Reverts,      \* whether it may go back to an earlier one
          MaxRetries,   \* the client's: attempts after the first
          Torn,         \* content of a file whose writing broke off
          Faults,       \* kinds of fault that may happen, again and again
          MaxChanges    \* bound on the Control Plane's changes

FaultKinds == {"http",      \* a request fails, or its answer is no 200
               "empty",     \* a reply without "data", which decodes to zero values
               "render",    \* a template does not execute or a file is not written
               "bird",      \* Configure() fails
               "restart"}   \* the agent is restarted

ASSUME ConfigAssumption ==
    /\ MaxVersion \in Nat \ {0}
    /\ Reverts \in BOOLEAN
    /\ MaxRetries \in Nat
    /\ Torn \notin Nat
    /\ Faults \subseteq FaultKinds
    /\ MaxChanges \in Nat

(* In the order Sync() renders them.                                       *)
Files == <<"filters", "moenet_communities", "babel", "cold_potato", "bird">>

Versions == 1..MaxVersion
Empty == 0                       \* the zero configuration, whose hash is ""
Contents == {Empty, Torn} \cup Versions

VARIABLES
    cp,         \* the version the Control Plane serves
    attempt,    \* the attempt the HTTP client is at
    version,    \* birdConfig of this Sync()
    lastHash,   \* s.lastConfigHash
    file,       \* what each file holds
    loaded,     \* what each held when BIRD last loaded them
    pc,         \* where Sync() is
    next,       \* the file to render next
    faults,     \* kinds of fault that have happened
    changes

vars == <<cp, attempt, version, lastHash, file, loaded, pc, next, faults, changes>>

TypeOK ==
    /\ cp \in Versions
    /\ attempt \in 0..MaxRetries
    /\ version \in Versions \cup {Empty}
    /\ lastHash \in Versions \cup {Empty}
    /\ file \in [DOMAIN Files -> Contents]
    /\ loaded \in [DOMAIN Files -> Versions \cup {Empty}]
    /\ pc \in {"idle", "fetch", "compare", "render", "hash", "reload"}
    /\ next \in DOMAIN Files
    /\ faults \subseteq Faults
    /\ changes \in 0..MaxChanges

Init ==
    /\ cp = 1
    /\ attempt = 0
    /\ version = Empty
    /\ lastHash = Empty
    /\ file = [i \in DOMAIN Files |-> Empty]
    /\ loaded = [i \in DOMAIN Files |-> Empty]
    /\ pc = "idle"
    /\ next = 1
    /\ faults = {}
    /\ changes = 0

Fault(kind) ==
    /\ kind \in Faults
    /\ faults' = faults \cup {kind}

Goto(from, to) == pc = from /\ pc' = to

-----------------------------------------------------------------------------
(* Sync *)

Begin ==
    /\ Goto("idle", "fetch")
    /\ version' = Empty
    /\ UNCHANGED <<cp, attempt, lastHash, file, loaded, next, faults, changes>>

Fetch ==
    /\ Goto("fetch", "compare")
    /\ attempt' = 0
    /\ version' = cp
    /\ UNCHANGED <<cp, lastHash, file, loaded, next, faults, changes>>

(* fetchBirdConfig looks at the HTTP status and not at "code": an answer    *)
(* with nothing in "data" is taken for a configuration.                     *)
FetchEmpty ==
    /\ Goto("fetch", "compare")
    /\ Fault("empty")
    /\ attempt' = 0
    /\ version' = Empty
    /\ UNCHANGED <<cp, lastHash, file, loaded, next, changes>>

(* No answer, a status of 5xx or 429: after a delay the client tries again.  *)
TryAgain ==
    /\ Goto("fetch", "fetch")
    /\ Fault("http")
    /\ attempt < MaxRetries
    /\ attempt' = attempt + 1
    /\ UNCHANGED <<cp, version, lastHash, file, loaded, next, changes>>

(* The last attempt fails like that, or any attempt with another status or   *)
(* with a body that is cut off or no JSON: Sync() gives up until the next    *)
(* tick.                                                                    *)
FetchFails ==
    /\ Goto("fetch", "idle")
    /\ Fault("http")
    /\ attempt' = 0
    /\ UNCHANGED <<cp, version, lastHash, file, loaded, next, changes>>

Unchanged == version = lastHash

(* Mutation: the hash is remembered before anything is rendered.           *)
CompareAndRemember ==
    /\ Goto("compare", IF Unchanged THEN "idle" ELSE "render")
    /\ next' = 1
    /\ lastHash' = version
    /\ UNCHANGED <<cp, attempt, version, file, loaded, faults, changes>>

Compare ==
    /\ Goto("compare", IF Unchanged THEN "idle" ELSE "render")
    /\ next' = 1
    /\ UNCHANGED <<cp, attempt, version, lastHash, file, loaded, faults, changes>>

(* Mutations: the loop runs past the last file; a file that is not rendered *)
(* is only warned about.                                                    *)
RenderPastEnd ==
    /\ Goto("render", IF next = Len(Files) THEN "hash" ELSE "render")
    /\ file' = [file EXCEPT ![next] = version]
    /\ next' = next + 1
    /\ UNCHANGED <<cp, attempt, version, lastHash, loaded, faults, changes>>

RenderWarns ==
    /\ Goto("render", IF next = Len(Files) THEN "hash" ELSE "render")
    /\ Fault("render")
    /\ next' = IF next = Len(Files) THEN 1 ELSE next + 1
    /\ UNCHANGED <<cp, attempt, version, lastHash, file, loaded, changes>>

Render ==
    /\ Goto("render", IF next = Len(Files) THEN "hash" ELSE "render")
    /\ file' = [file EXCEPT ![next] = version]
    /\ next' = IF next = Len(Files) THEN 1 ELSE next + 1
    /\ UNCHANGED <<cp, attempt, version, lastHash, loaded, faults, changes>>

(* Sync() gives up; the files before this one have been rewritten.         *)
RenderFails ==
    /\ Goto("render", "idle")
    /\ Fault("render")
    /\ file' \in {file, [file EXCEPT ![next] = Torn]}
    /\ next' = 1
    /\ UNCHANGED <<cp, attempt, version, lastHash, loaded, changes>>

RememberHash ==
    /\ Goto("hash", "reload")
    /\ lastHash' = version
    /\ UNCHANGED <<cp, attempt, version, file, loaded, next, faults, changes>>

(* BIRD reads all the files, and keeps what it had if it cannot parse them. *)
Reloaded == IF \A i \in DOMAIN Files : file[i] \in Versions THEN file ELSE loaded

Configure ==
    /\ Goto("reload", "idle")
    /\ loaded' = Reloaded
    /\ UNCHANGED <<cp, attempt, version, lastHash, file, next, faults, changes>>

(* Configure() fails: a warning is logged.                                 *)
ConfigureFails ==
    /\ Goto("reload", "idle")
    /\ Fault("bird")
    /\ UNCHANGED <<cp, attempt, version, lastHash, file, loaded, next, changes>>

-----------------------------------------------------------------------------
(* The environment *)

Publish(v) ==
    /\ changes < MaxChanges
    /\ v # cp
    /\ Reverts \/ v > cp
    /\ cp' = v
    /\ changes' = changes + 1
    /\ UNCHANGED <<attempt, version, lastHash, file, loaded, pc, next, faults>>

(* Another task reloads BIRD, whatever this one is in the middle of.       *)
OtherReload ==
    /\ loaded # Reloaded
    /\ loaded' = Reloaded
    /\ UNCHANGED <<cp, attempt, version, lastHash, file, pc, next, faults, changes>>

Restart ==
    /\ Fault("restart")
    /\ attempt' = 0
    /\ version' = Empty
    /\ lastHash' = Empty
    /\ pc' = "idle"
    /\ next' = 1
    /\ UNCHANGED <<cp, file, loaded, changes>>

SyncStep == Begin \/ Fetch \/ Compare \/ Render \/ RememberHash \/ Configure

FaultStep == TryAgain \/ FetchFails \/ FetchEmpty \/ RenderFails \/ ConfigureFails \/ Restart

Next ==
    \/ SyncStep
    \/ FaultStep
    \/ \E v \in Versions : Publish(v)
    \/ OtherReload

Spec == Init /\ [][Next]_vars

(* The ticker keeps calling Sync().                                        *)
LiveSpec == Spec /\ WF_vars(SyncStep)

-----------------------------------------------------------------------------
(* Properties *)

(* When Sync() finds the hash unchanged and renders nothing, there is       *)
(* nothing to render: every file is of that version, although earlier calls *)
(* may have given up between two files or the agent been restarted.  (Not   *)
(* so when the remembered hash comes back after a failed render, because    *)
(* the Control Plane reverts or an answer without data was being rendered.) *)
HashComesBack == "render" \in faults /\ (Reverts \/ "empty" \in faults)

SkipIsSafe ==
    pc = "compare" /\ Unchanged /\ version # Empty /\ ~HashComesBack
        => \A i \in DOMAIN Files : file[i] = version

(* The remembered hash is older than the files only while Sync() is between *)
(* the first of them and the hash, or after a failure: it is set last, and  *)
(* a torn file never hides behind it once BIRD is told to reload.           *)
ReloadsWholeVersion ==
    pc = "reload" => \A i \in DOMAIN Files : file[i] = lastHash

(* Once the Control Plane has settled on a version and things have stopped  *)
(* failing, the files are of that version and BIRD runs them, unless a      *)
(* reload failed.                                                           *)
FaultsEnd == <>[][~FaultStep]_vars

FilesCurrent == \A i \in DOMAIN Files : file[i] = cp
BirdCurrent  == \A i \in DOMAIN Files : loaded[i] = cp

EventuallyConverged ==
    FaultsEnd => <>[](~HashComesBack => FilesCurrent /\ ("bird" \notin faults => BirdCurrent))

(* BIRD_CONFIG.md:98-103: when the configuration has changed the task       *)
(* renders it and reloads BIRD, so BIRD comes to run it.                    *)
EventuallyLoaded == FaultsEnd => <>[]BirdCurrent
=============================================================================
