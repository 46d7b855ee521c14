------------------------------- MODULE Updater -------------------------------
(***************************************************************************)
(* The agent replaces its own binary: internal/updater/updater.go.         *)
(*                                                                         *)
(* One goroutine asks GitHub for the newest release of its channel, and    *)
(* if that is newer than itself downloads it beside the binary, tries it   *)
(* with -v, moves the binary out of the way, moves the new one in, and     *)
(* ends the process, which systemd starts again with whatever is there by  *)
(* then.  Each step is a call that may fail, and the process may die       *)
(* between any two.                                                        *)
(***************************************************************************)
EXTENDS Integers

CONSTANTS Versions,    \* versions, ordered as semver orders their tags
          Installed,   \* the one the node starts with
          Dev,         \* those whose binary reports "dev"
          Untagged,    \* those called by a bare commit hash, which is no semver
          Broken,      \* those whose binary does not run
          Dying,       \* those that pass -v and then die before the first check
          NoAsset,     \* those released without a binary for this platform
          None,        \* no file
          Torn,        \* content of a file whose writing broke off
          MaxReleases  \* bound on the releases published

ASSUME UpdaterAssumption ==
    /\ Versions \subseteq Nat
    /\ Installed \in Versions \ (Broken \cup Dying)
    /\ None \notin Versions /\ Torn \notin Versions /\ None # Torn
    /\ MaxReleases \in Nat

VARIABLES
    latest,     \* the newest release of the channel: the first one in GitHub's list
    releases,   \* releases so far
    bin,        \* u.binaryPath
    backup,     \* u.binaryPath + ".backup"
    temp,       \* u.binaryPath + ".new"
    up,         \* the version that runs, None while systemd waits
    step,       \* where checkAndUpdate() is
    target,     \* its release
    scars       \* what went wrong that the code does not repair

updaterVars == <<latest, releases, bin, backup, temp, up, step, target, scars>>

Steps == {"idle", "download", "copy", "verify", "clear", "move", "install",
          "rollback", "exit"}

Contents == Versions \cup {None, Torn}

UpdaterTypeOK ==
    /\ latest \in Versions \cup {None}
    /\ releases \in 0..MaxReleases
    /\ bin \in Versions \cup {None}
    /\ backup \in Versions \cup {None}
    /\ temp \in Contents
    /\ up \in Versions \cup {None}
    /\ step \in Steps
    /\ target \in Versions \cup {None}
    /\ scars \subseteq {"midway", "rollback"}

UpdaterInit ==
    /\ latest = None
    /\ releases = 0
    /\ bin = Installed
    /\ backup = None
    /\ temp = None
    /\ up = None
    /\ step = "idle"
    /\ target = None
    /\ scars = {}

-----------------------------------------------------------------------------
(* CheckForUpdate *)

(* Mutation: a release that equals the running version counts as newer.    *)
NewerOrEqual(release, running) ==
    /\ running \notin Dev
    /\ {release, running} \cap Untagged # {} \/ release >= running

(* Mutation: any other release than the running one counts as newer.       *)
AnyOther(release, running) == running \notin Dev /\ release # running

(* semver.Compare, or, where one of the two is no semver, any difference;   *)
(* "dev" is never replaced.                                                 *)
Newer(release, running) ==
    /\ running \notin Dev
    /\ IF {release, running} \cap Untagged # {} THEN release # running
                                               ELSE release > running

(* A query that fails, an answer 404, a channel without a release and a     *)
(* release without an asset leave everything as it is until the next tick.  *)
CheckForUpdate ==
    /\ step = "idle"
    /\ up \notin Dying
    /\ latest \notin NoAsset \cup {None}
    /\ Newer(latest, up)
    /\ target' = latest
    /\ step' = "download"
    /\ UNCHANGED <<latest, releases, bin, backup, temp, up, scars>>

-----------------------------------------------------------------------------
(* DownloadAndApply *)

Goto(from, to) ==
    /\ step = from
    /\ step' = to
    /\ UNCHANGED <<latest, releases, up, target>>

OpenTemp ==
    /\ Goto("download", "copy")
    /\ temp' = Torn
    /\ UNCHANGED <<bin, backup, scars>>

CopyDone ==
    /\ Goto("copy", "verify")
    /\ temp' = target
    /\ UNCHANGED <<bin, backup, scars>>

(* No answer, a file that cannot be written or made executable, or one whose *)
(* run is cut off by the shutdown.                                          *)
DownloadFails ==
    /\ \E from \in {"download", "copy", "verify"} : Goto(from, "idle")
    /\ temp' = None
    /\ UNCHANGED <<bin, backup, scars>>

(* The new binary is run with -v, which prints the version before anything  *)
(* else is done.                                                            *)
Verify ==
    /\ Goto("verify", IF temp \in Broken THEN "idle" ELSE "clear")
    /\ temp' = IF temp \in Broken THEN None ELSE temp
    /\ UNCHANGED <<bin, backup, scars>>

ClearBackup ==
    /\ Goto("clear", "move")
    /\ backup' = None
    /\ UNCHANGED <<bin, temp, scars>>

MoveAway ==
    /\ bin # None
    /\ Goto("move", "install")
    /\ backup' = bin
    /\ bin' = None
    /\ UNCHANGED <<temp, scars>>

(* The rename fails, as it must where there is no binary to move.          *)
MoveFails ==
    /\ Goto("move", "idle")
    /\ temp' = None
    /\ UNCHANGED <<bin, backup, scars>>

Install ==
    /\ Goto("install", "exit")
    /\ bin' = temp
    /\ temp' = None
    /\ UNCHANGED <<backup, scars>>

(* Mutation: without the old binary being put back.                        *)
InstallFailsForGood ==
    /\ Goto("install", "idle")
    /\ UNCHANGED <<bin, backup, temp, scars>>

InstallFails ==
    /\ Goto("install", "rollback")
    /\ UNCHANGED <<bin, backup, temp, scars>>

(* The new binary stays beside the old one, for the next download to        *)
(* overwrite.                                                               *)
Rollback ==
    /\ Goto("rollback", "idle")
    /\ bin' = backup
    /\ backup' = None
    /\ UNCHANGED <<temp, scars>>

(* The error of the rollback's rename is dropped, and the agent goes on     *)
(* without a binary under its name.                                         *)
RollbackFails ==
    /\ Goto("rollback", "idle")
    /\ scars' = scars \cup {"rollback"}
    /\ UNCHANGED <<bin, backup, temp>>

-----------------------------------------------------------------------------
(* The process *)

Ends ==
    /\ up' = None
    /\ step' = "idle"
    /\ target' = None

(* os.Exit(0).                                                             *)
Exit ==
    /\ step = "exit"
    /\ Ends
    /\ UNCHANGED <<latest, releases, bin, backup, temp, scars>>

(* The process dies on its own.                                            *)
Dies ==
    /\ up \in Dying
    /\ Ends
    /\ UNCHANGED <<latest, releases, bin, backup, temp, scars>>

(* It is killed, also by a shutdown that does not wait any longer.         *)
Crash ==
    /\ up # None
    /\ Ends
    /\ scars' = IF step \in {"install", "rollback"} THEN scars \cup {"midway"} ELSE scars
    /\ UNCHANGED <<latest, releases, bin, backup, temp>>

(* systemd runs what is at the path, again and again.                      *)
Exec ==
    /\ up = None
    /\ bin # None
    /\ up' = bin
    /\ UNCHANGED <<latest, releases, bin, backup, temp, step, target, scars>>

(* Not always in the order of the versions: an older line gets its fixes,   *)
(* and a release may be withdrawn.                                          *)
Publish(v) ==
    /\ releases < MaxReleases
    /\ v # latest
    /\ latest' = v
    /\ releases' = releases + 1
    /\ UNCHANGED <<bin, backup, temp, up, step, target, scars>>

ApplyStep ==
    \/ OpenTemp \/ CopyDone \/ Verify \/ ClearBackup
    \/ MoveAway \/ (bin = None /\ MoveFails) \/ Install \/ Rollback

ApplyFails == DownloadFails \/ MoveFails \/ InstallFails \/ RollbackFails
=============================================================================
