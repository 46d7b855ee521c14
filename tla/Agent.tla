-------------------------------- MODULE Agent --------------------------------
(***************************************************************************)
(* The life of the agent's process on a node: cmd/moenet-agent/main.go     *)
(* with the configuration, the updater and the heartbeat.                  *)
(*                                                                         *)
(* systemd starts the binary there is; main loads the settings, fills the  *)
(* pool and starts the tasks.  The updater replaces the binary and ends    *)
(* the process, with everything the other tasks had in memory; the         *)
(* heartbeat tells the Control Plane which version came back.              *)
(***************************************************************************)
EXTENDS Updater, Heartbeat, Configuration

CONSTANTS Files,    \* the local files a node may have: [full, settings]
          Served    \* settings the Control Plane may serve to a node without any

ASSUME AgentAssumption ==
    /\ Files \subseteq [full : BOOLEAN, settings : Settings]
    /\ Served \subseteq Settings

VARIABLES
    file,     \* config.json
    cfg,      \* the settings of the process
    stage     \* "down", "blocked" in NewPool, or "running"

vars == <<updaterVars, heartbeatVars, file, cfg, stage>>

TypeOK ==
    /\ UpdaterTypeOK
    /\ HeartbeatTypeOK(Versions)
    /\ file \in Files
    /\ cfg \in Settings
    /\ stage \in {"down", "blocked", "running"}

Init ==
    /\ UpdaterInit
    /\ HeartbeatInit(Installed)
    /\ file \in Files
    /\ cfg = Load(file.settings)
    /\ stage = "down"

(* LoadWithBootstrap.                                                      *)
Loaded == IF file.full THEN {Load(file.settings)} ELSE {MergeConfig(remote) : remote \in Served}

(* main up to the start of the tasks; found are the families NewHeartbeat    *)
(* can look up.  Where the Control Plane or BIRD does not answer main exits, *)
(* and over a size or an interval below zero it panics: systemd starts it    *)
(* again, which leaves everything as it is.                                 *)
Start(found) ==
    /\ Exec
    /\ cfg' \in Loaded
    /\ ~NewPoolPanics(cfg')
    /\ \/ /\ NewPoolHangs(cfg')
          /\ stage' = "blocked"
          /\ UNCHANGED heartbeatVars
       \/ /\ ~NewPoolHangs(cfg')
          /\ ~TickerPanics(cfg')
          /\ stage' = "running"
          /\ NewHeartbeat(found)
    /\ UNCHANGED file

Running == stage = "running"

UpdaterStep ==
    /\ Running
    /\ \/ CheckForUpdate /\ cfg.githubRepo
       \/ ApplyStep
    /\ UNCHANGED <<heartbeatVars, file, cfg, stage>>

UpdaterFails ==
    /\ Running
    /\ ApplyFails
    /\ UNCHANGED <<heartbeatVars, file, cfg, stage>>

ProcessEnds ==
    /\ stage' = "down"
    /\ cfg' = Load(file.settings)
    /\ HeartbeatEnds
    /\ UNCHANGED file

Restarts == (Exit \/ (Running /\ Dies)) /\ ProcessEnds
Killed   == Crash /\ ProcessEnds

HeartbeatStep ==
    /\ \/ Running /\ SendHeartbeat(up, {})
       \/ \E m \in beat : BeatArrives(m)
    /\ UNCHANGED <<updaterVars, file, cfg, stage>>

(* An hour has passed since the last lookup.                               *)
Refresh(found) ==
    /\ Running
    /\ SendHeartbeat(up, found)
    /\ UNCHANGED <<updaterVars, file, cfg, stage>>

HeartbeatFails ==
    /\ \E m \in beat : BeatFails(m)
    /\ UNCHANGED <<updaterVars, file, cfg, stage>>

Environment ==
    \/ /\ \E v \in Versions : Publish(v)
       /\ UNCHANGED <<heartbeatVars, file, cfg, stage>>
    \/ /\ \/ \E f \in Families, a \in Addrs : Moves(f, a)
          \/ \E m \in late : LateBeatArrives(m)
       /\ UNCHANGED <<updaterVars, file, cfg, stage>>

LookupFails == \E found \in SUBSET Families \ {Families} : Start(found) \/ Refresh(found)

FaultStep == UpdaterFails \/ Killed \/ HeartbeatFails

Next ==
    \/ Start(Families) \/ UpdaterStep \/ Restarts \/ HeartbeatStep \/ Refresh(Families)
    \/ LookupFails
    \/ FaultStep
    \/ Environment

Spec == Init /\ [][Next]_vars

(* systemd restarts what has ended (moenet-agent.service:11), tickers tick,  *)
(* the calls of an update return, and the lookups of an hour succeed again   *)
(* and again.                                                               *)
LiveSpec ==
    /\ Spec
    /\ WF_vars(\E found \in SUBSET Families : Start(found))
    /\ WF_vars(UpdaterStep)
    /\ WF_vars(Restarts)
    /\ WF_vars(HeartbeatStep)
    /\ SF_vars(Refresh(Families))

-----------------------------------------------------------------------------
(* Properties *)

Runnable == Versions \ Broken

(* Whenever the process dies there is a binary that runs, under its name or *)
(* as the backup, and it is missing under its name only between the two     *)
(* renames: or else the process died right there, or the rollback failed,   *)
(* after which the next update removes the backup as well.                  *)
BinaryIsThere ==
    /\ "rollback" \notin scars => {bin, backup} \cap Runnable # {}
    /\ bin \in Runnable \/ step \in {"install", "rollback"} \/ scars # {}

(* (A fault that does what a step of the program does as well is none.)     *)
FaultsEnd == <>[][FaultStep => UpdaterStep \/ Restarts \/ HeartbeatStep]_vars

(* The release needs no installing: the process is it or newer, or cannot   *)
(* be replaced by it.                                                       *)
Settled == latest \in Broken \cup NoAsset \cup {None} \/ ~Newer(latest, up)

(* Settings that keep main from starting its tasks, told by what the source *)
(* says: a pool that is to hold more connections than it may (the example   *)
(* gives 5 and 64, for a file that says nothing), or less than none; and an *)
(* interval below zero.  The Control Plane has to give both sizes or none.   *)
OutOfOrder(size, max) == max < 0 \/ size > max

Unworkable ==
    IF file.full
    THEN LET s == file.settings
         IN  \/ s.poolSize # 0 /\ s.poolSizeMax # 0 /\ OutOfOrder(s.poolSize, s.poolSizeMax)
             \/ s.poolSize = 0 /\ s.poolSizeMax # 0 /\ OutOfOrder(5, s.poolSizeMax)
             \/ s.poolSize # 0 /\ s.poolSizeMax = 0 /\ OutOfOrder(s.poolSize, 64)
             \/ s.heartbeatInterval < 0
    ELSE \E remote \in Served : OutOfOrder(remote.poolSize, remote.poolSizeMax)

(* What can end the updates for good: no binary, settings main cannot work  *)
(* with, a Control Plane that names no repository, and a release that dies  *)
(* before it can look for the next one.                                     *)
Stuck ==
    \/ bin = None
    \/ Unworkable
    \/ ~file.full /\ ~cfg.githubRepo
    \/ bin \in Dying

(* When releases stop coming and things stop failing, the agent comes to    *)
(* run the newest one, and stays up with it.                                *)
EventuallyUpdated == FaultsEnd => <>[](Stuck \/ (Running /\ Settled))

(* The Control Plane comes to know the version that runs and the node's     *)
(* addresses, across updates, crashes and changes of address, unless a beat *)
(* with an address was lost in the life of this very process.               *)
ControlPlaneKnows ==
    FaultsEnd => <>[](Running /\ up \notin Dying =>
                         /\ cpVersion = up
                         /\ \A f \in Families \ missed : cpAddr[f] = addr[f])

(* An update never goes back to an older release: what is under the         *)
(* binary's name, and would run if the process died now, is not older than  *)
(* the process that runs nor than the backup, which is what ran before.  It *)
(* is decided once, by the release found before the download, and has to    *)
(* hold through releases published and withdrawn meanwhile, failures,       *)
(* rollbacks and deaths at every step; a commit hash has no order.          *)
UpdatesGoForward ==
    \A old \in {up, backup} \ {None} :
        bin # None /\ {bin, old} \cap Untagged = {} => bin >= old
=============================================================================
