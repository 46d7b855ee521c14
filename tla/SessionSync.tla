----------------------------- MODULE SessionSync -----------------------------
(***************************************************************************)
(* The task that turns the Control Plane's session table into WireGuard    *)
(* interfaces, BIRD protocols and open ports:                              *)
(* internal/task/session_sync.go with the steps it calls in                *)
(* internal/wireguard, internal/bird/config.go and internal/firewall.      *)
(*                                                                         *)
(* One goroutine runs Sync() over and over.  Each call takes a snapshot of *)
(* the table, works through it session by session with the effects of      *)
(* every external command being a step of its own, and reports statuses    *)
(* back one at a time.  Meanwhile administrators change the table, other   *)
(* tasks reload BIRD, reports are lost or arrive late, commands fail, and  *)
(* the agent or the machine restarts.                                      *)
(***************************************************************************)
EXTENDS Naturals, FiniteSets

CONSTANTS Sessions,    \* session UUIDs
          Asn,         \* the peer's AS number: it names the BIRD config file
          Tunnelled,   \* sessions of type wireguard with a credential
          WithPort,    \* sessions with Port > 0
          None,
          Faults,      \* kinds of fault that may happen, see FaultKinds
          MaxKinds,    \* how many kinds do in one behaviour, each any number of times
          MaxEdits     \* bound on the administrators' changes

FaultKinds == {"empty",    \* the table is fetched without its sessions
               "create",   \* an ip or wg command of CreateInterface fails
               "destroy",  \* one of DeleteInterface fails
               "file",     \* a config file is not written or not removed
               "bird",     \* Configure() fails or BIRD refuses the files
               "fw",       \* an iptables command fails
               "lost",     \* a report does not reach the Control Plane
               "late",     \* it does, after the agent has given up on it
               "restart",  \* the agent is restarted
               "reboot"}   \* the machine is

ASSUME SessionAssumption ==
    /\ DOMAIN Asn = Sessions
    /\ Tunnelled \subseteq Sessions
    /\ WithPort \subseteq Sessions
    /\ None \notin Sessions
    /\ Faults \subseteq FaultKinds
    /\ MaxKinds \in Nat
    /\ MaxEdits \in Nat

(* StatusDeleted .. StatusTeardown of types.go; "Absent" is no row at all.  *)
Statuses == {"Deleted", "Disabled", "Enabled", "PendingApproval",
             "QueuedForSetup", "QueuedForDelete", "Problem", "Teardown"}

Asns == {Asn[s] : s \in Sessions}

VARIABLES
    cp,         \* the Control Plane's table
    late,       \* reports on their way that the agent has given up on
    snapshot,   \* the table as this Sync() fetched it
    todo,       \* sessions of the snapshot still to be processed
    cur,        \* the session being processed
    pc,         \* where Sync() is
    local,      \* keys of s.sessions
    wgUp,       \* WireGuard interfaces that exist
    file,       \* dn42_<asn>.conf: the session it configures
    loaded,     \* the same, as BIRD last loaded it
    ports,      \* sessions whose port is open
    faults,     \* the kinds of fault that have happened
    edits

agentVars == <<snapshot, todo, cur, pc, local>>
nodeVars  == <<wgUp, file, loaded, ports>>
vars == <<cp, late, agentVars, nodeVars, faults, edits>>

PC == {"idle", "next", "create", "generate", "remove", "reload", "destroy",
       "report", "firewall"}

NoTable == [s \in Sessions |-> "Absent"]
NoFiles == [a \in Asns |-> None]

TypeOK ==
    /\ cp \in [Sessions -> Statuses \cup {"Absent"}]
    /\ late \subseteq Sessions \X {"Enabled", "Deleted"}
    /\ snapshot \in [Sessions -> Statuses \cup {"Absent"}]
    /\ todo \subseteq Sessions
    /\ cur \in Sessions \cup {None}
    /\ pc \in PC
    /\ local \subseteq Sessions
    /\ wgUp \subseteq Sessions
    /\ file \in [Asns -> Sessions \cup {None}]
    /\ loaded \in [Asns -> Sessions \cup {None}]
    /\ ports \subseteq Sessions
    /\ faults \subseteq Faults
    /\ edits \in 0..MaxEdits

Init ==
    /\ cp \in [Sessions -> {"PendingApproval", "QueuedForSetup"}]
    /\ late = {}
    /\ snapshot = NoTable
    /\ todo = {}
    /\ cur = None
    /\ pc = "idle"
    /\ local = {}
    /\ wgUp = {}
    /\ file = NoFiles
    /\ loaded = NoFiles
    /\ ports = {}
    /\ faults = {}
    /\ edits = 0

Fault(kind) ==
    /\ kind \in Faults
    /\ faults' = faults \cup {kind}
    /\ Cardinality(faults') <= MaxKinds

NoFault == UNCHANGED faults

-----------------------------------------------------------------------------
(* Sync: fetch and dispatch *)

Fetch ==
    /\ pc = "idle"
    /\ snapshot' = cp
    /\ todo' = {s \in Sessions : cp[s] # "Absent"}
    /\ pc' = "next"
    /\ UNCHANGED <<cp, late, cur, local, nodeVars, faults, edits>>

(* An answer of status 200 without the list decodes to no sessions, and is   *)
(* taken for an empty table.                                                *)
FetchEmpty ==
    /\ pc = "idle"
    /\ Fault("empty")
    /\ snapshot' = NoTable
    /\ todo' = {}
    /\ pc' = "next"
    /\ UNCHANGED <<cp, late, cur, local, nodeVars, edits>>

(* Mutations: a session that is known already is not set up again, or keeps *)
(* the interface it is believed to have; Disabled is overlooked.            *)
FirstStepUnlessKnown(s) ==
    CASE snapshot[s] = "QueuedForSetup" /\ s \notin local ->
            IF s \in Tunnelled THEN "create" ELSE "generate"
      [] snapshot[s] \in {"QueuedForDelete", "Disabled"} -> "remove"
      [] OTHER -> "next"

FirstStepReusing(s) ==
    CASE snapshot[s] = "QueuedForSetup" ->
            IF s \in Tunnelled \ local THEN "create" ELSE "generate"
      [] snapshot[s] \in {"QueuedForDelete", "Disabled"} -> "remove"
      [] OTHER -> "next"

FirstStepButDisabled(s) ==
    CASE snapshot[s] = "QueuedForSetup" -> IF s \in Tunnelled THEN "create" ELSE "generate"
      [] snapshot[s] = "QueuedForDelete" -> "remove"
      [] OTHER -> "next"

(* processSession: the first step that the session's status calls for.     *)
FirstStep(s) ==
    CASE snapshot[s] = "QueuedForSetup" -> IF s \in Tunnelled THEN "create" ELSE "generate"
      [] snapshot[s] \in {"QueuedForDelete", "Disabled"} -> "remove"
      [] OTHER -> "next"

ProcessSession(s) ==
    /\ pc = "next"
    /\ s \in todo
    /\ todo' = todo \ {s}
    /\ cur' = s
    /\ pc' = FirstStep(s)
    /\ UNCHANGED <<cp, late, snapshot, local, nodeVars, faults, edits>>

Doing(status) == snapshot[cur] = status

Goto(from, to) ==
    /\ pc = from
    /\ pc' = to
    /\ UNCHANGED <<snapshot, todo, cur, local, edits>>

-----------------------------------------------------------------------------
(* setupSession *)

CreateInterface ==
    /\ Goto("create", "generate")
    /\ wgUp' = wgUp \cup {cur}
    /\ NoFault
    /\ UNCHANGED <<cp, late, file, loaded, ports>>

(* CreateInterface fails before or after the interface was added; setup is  *)
(* abandoned until the next Sync().                                         *)
CreateFails ==
    /\ Goto("create", "next")
    /\ Fault("create")
    /\ wgUp' \in {wgUp, wgUp \cup {cur}}
    /\ UNCHANGED <<cp, late, file, loaded, ports>>

GenerateSession ==
    /\ Goto("generate", "reload")
    /\ file' = [file EXCEPT ![Asn[cur]] = cur]
    /\ NoFault
    /\ UNCHANGED <<cp, late, wgUp, loaded, ports>>

GenerateFails ==
    /\ Goto("generate", "next")
    /\ Fault("file")
    /\ UNCHANGED <<cp, late, nodeVars>>

-----------------------------------------------------------------------------
(* deleteSession and cleanupDisabledSession *)

RemoveSession ==
    /\ Goto("remove", "reload")
    /\ file' = [file EXCEPT ![Asn[cur]] = None]
    /\ NoFault
    /\ UNCHANGED <<cp, late, wgUp, loaded, ports>>

RemoveFails ==
    /\ Goto("remove", "reload")
    /\ Fault("file")
    /\ UNCHANGED <<cp, late, nodeVars>>

(* What follows the steps that tear a session down: cleanupDisabledSession  *)
(* does not report.                                                         *)
AfterDestroy == IF Doing("Disabled") THEN "next" ELSE "report"

(* Mutation: the interface stays.                                          *)
AfterReloadReport == AfterDestroy

AfterReload ==
    IF ~Doing("QueuedForSetup") /\ cur \in Tunnelled THEN "destroy" ELSE AfterDestroy

Configure ==
    /\ Goto("reload", AfterReload)
    /\ loaded' = file
    /\ NoFault
    /\ UNCHANGED <<cp, late, wgUp, file, ports>>

(* The error is logged as a warning and the steps go on as if it had worked. *)
ConfigureFails ==
    /\ Goto("reload", AfterReload)
    /\ Fault("bird")
    /\ UNCHANGED <<cp, late, nodeVars>>

DeleteInterface ==
    /\ Goto("destroy", AfterDestroy)
    /\ wgUp' = wgUp \ {cur}
    /\ NoFault
    /\ UNCHANGED <<cp, late, file, loaded, ports>>

DeleteFails ==
    /\ Goto("destroy", AfterDestroy)
    /\ Fault("destroy")
    /\ UNCHANGED <<cp, late, nodeVars>>

-----------------------------------------------------------------------------
(* reportStatus *)

Reported == IF Doing("QueuedForSetup") THEN "Enabled" ELSE "Deleted"

(* The Control Plane stores what it is told for a session it knows.        *)
Store(s, status) ==
    cp' = [cp EXCEPT ![s] = IF @ = "Absent" THEN @ ELSE status]

ReportStatus ==
    /\ Goto("report", "next")
    /\ Store(cur, Reported)
    /\ NoFault
    /\ UNCHANGED <<late, nodeVars>>

ReportLost ==
    /\ Goto("report", "next")
    /\ Fault("lost")
    /\ UNCHANGED <<cp, late, nodeVars>>

ReportLate ==
    /\ Goto("report", "next")
    /\ Fault("late")
    /\ late' = late \cup {<<cur, Reported>>}
    /\ UNCHANGED <<cp, nodeVars>>

LateReportArrives(m) ==
    /\ Store(m[1], m[2])
    /\ late' = late \ {m}
    /\ UNCHANGED <<agentVars, nodeVars, faults, edits>>

-----------------------------------------------------------------------------
(* The end of Sync *)

(* Sessions known locally and missing from the snapshot are logged as being *)
(* cleaned up; the snapshot becomes the local map.                          *)
SwapSessions ==
    /\ pc = "next"
    /\ todo = {}
    /\ local' = {s \in Sessions : snapshot[s] # "Absent"}
    /\ pc' = "firewall"
    /\ UNCHANGED <<cp, late, snapshot, todo, cur, nodeVars, faults, edits>>

Expected(table) == {s \in WithPort : table[s] \in {"Enabled", "QueuedForSetup"}}

(* Mutation: ports are opened and never closed.                            *)
SyncPortsOpens ==
    /\ Goto("firewall", "idle")
    /\ ports' = ports \cup Expected(snapshot)
    /\ NoFault
    /\ UNCHANGED <<cp, late, wgUp, file, loaded>>

SyncPorts ==
    /\ Goto("firewall", "idle")
    /\ ports' = Expected(snapshot)
    /\ NoFault
    /\ UNCHANGED <<cp, late, wgUp, file, loaded>>

(* Each rule is a command of its own; any of them may fail, and only that   *)
(* is logged.                                                               *)
SyncPortsFails ==
    /\ Goto("firewall", "idle")
    /\ Fault("fw")
    /\ \E added \in SUBSET (Expected(snapshot) \ ports),
          removed \in SUBSET (ports \ Expected(snapshot)) :
             ports' = (ports \cup added) \ removed
    /\ UNCHANGED <<cp, late, wgUp, file, loaded>>

-----------------------------------------------------------------------------
(* The environment *)

(* An administrator decides about a session.                               *)
AdminEdits(s, status) ==
    /\ edits < MaxEdits
    /\ cp[s] # "Absent"
    /\ cp' = [cp EXCEPT ![s] = status]
    /\ edits' = edits + 1
    /\ UNCHANGED <<late, agentVars, nodeVars, faults>>

AdminStatuses == {"QueuedForSetup", "QueuedForDelete", "Disabled", "Problem", "Absent"}

(* Any of the other tasks reconfigures BIRD, which reads every file.       *)
OtherReload ==
    /\ loaded # file
    /\ loaded' = file
    /\ UNCHANGED <<cp, late, agentVars, wgUp, file, ports, faults, edits>>

(* The process is gone and comes back with an empty map.                   *)
ForgetsAll ==
    /\ snapshot' = NoTable
    /\ todo' = {}
    /\ cur' = None
    /\ pc' = "idle"
    /\ local' = {}

Restart ==
    /\ Fault("restart")
    /\ ForgetsAll
    /\ UNCHANGED <<cp, late, nodeVars, edits>>

(* Interfaces do not survive a reboot; files and saved rules do, and BIRD   *)
(* loads the files when it starts.                                          *)
Reboot ==
    /\ Fault("reboot")
    /\ ForgetsAll
    /\ wgUp' = {}
    /\ loaded' = file
    /\ UNCHANGED <<cp, late, file, ports, edits>>

-----------------------------------------------------------------------------
SyncStep ==
    \/ Fetch
    \/ \E s \in Sessions : ProcessSession(s)
    \/ CreateInterface \/ GenerateSession
    \/ RemoveSession \/ Configure \/ DeleteInterface
    \/ ReportStatus
    \/ SwapSessions \/ SyncPorts

FaultStep ==
    \/ FetchEmpty
    \/ CreateFails \/ GenerateFails \/ RemoveFails \/ ConfigureFails \/ DeleteFails
    \/ ReportLost \/ ReportLate \/ SyncPortsFails
    \/ Restart \/ Reboot

Environment ==
    \/ \E s \in Sessions, status \in AdminStatuses : AdminEdits(s, status)
    \/ \E m \in late : LateReportArrives(m)
    \/ OtherReload

Next == SyncStep \/ FaultStep \/ Environment

Spec == Init /\ [][Next]_vars

(* The ticker keeps calling Sync() and commands return.  Nobody has to edit *)
(* the table, reload BIRD or fail.                                          *)
LiveSpec == Spec /\ WF_vars(SyncStep)

-----------------------------------------------------------------------------
(* Properties *)

Up(s)   == (s \in Tunnelled => s \in wgUp) /\ file[Asn[s]] = s /\ loaded[Asn[s]] = s
Down(s) == s \notin wgUp /\ file[Asn[s]] # s /\ loaded[Asn[s]] # s

Undone == faults \cap {"destroy", "file", "bird", "reboot"} # {}

(* BIRD never runs a session over an interface that does not exist: setup   *)
(* creates it before the file, teardown deletes it after the reload, and no *)
(* restart, foreign reload, lost report or failure to create the interface  *)
(* turns that around.  (A reboot, or a file or reload that fails, does.)    *)
BirdHasTunnel ==
    ~Undone => \A s \in Tunnelled : s \in {file[Asn[s]], loaded[Asn[s]]} => s \in wgUp

(* A report tells the truth when it leaves: Enabled is sent for a session   *)
(* that is up, Deleted for one of which nothing is left.                    *)
ReportsAreTrue ==
    ~Undone /\ pc = "report" => IF Reported = "Enabled" THEN Up(cur) ELSE Down(cur)

(* Statuses move along the session lifecycle: the agent alone (no step of   *)
(* an administrator) takes a session only from a queue to its outcome, so a *)
(* decision made while Sync() works on an old snapshot is not undone.       *)
AgentFollowsLifecycle ==
    [][edits' = edits => \A s \in Sessions :
          cp'[s] # cp[s] => <<cp[s], cp'[s]>> \in {<<"QueuedForSetup", "Enabled">>,
                                                   <<"QueuedForDelete", "Deleted">>}]_cp

FaultsEnd == <>[][~FaultStep]_vars

(* A queued session does not stay queued, whatever failed, was lost or was  *)
(* restarted, however often, before that ended.                             *)
QueueIsServed ==
    FaultsEnd => \A s \in Sessions :
                    cp[s] \in {"QueuedForSetup", "QueuedForDelete"}
                       ~> cp[s] \notin {"QueuedForSetup", "QueuedForDelete"}

(* When the table has come to rest, so does the node: what is disabled or   *)
(* deleted is down, what is enabled is up.  The agent repeats what fails in *)
(* setting a session up; what fails in tearing it down is reported done.    *)
Settled ==
    \A s \in Sessions :
        /\ cp[s] \in {"Disabled", "Deleted"} => Down(s)
        /\ cp[s] = "Enabled" => Up(s)

EventuallySettled ==
    FaultsEnd => <>[](faults \subseteq {"empty", "create", "fw", "lost", "restart"} => Settled)

(* The open ports end up being those of the sessions that are to run.      *)
PortsConverge == FaultsEnd => <>[](ports = Expected(cp))

(* session_sync.go:102 says of a session that is no longer in the table     *)
(* "removed from CP, cleaning up".                                          *)
ForgottenIsCleanedUp ==
    [][pc' = "firewall" => \A s \in local \ local' : Down(s)]_local

(* config.go:15 names the protocol dn42_<asn>_<suffix>: a session's file is *)
(* its own, so nobody takes an enabled session's file away.                 *)
FileIsOwn ==
    [][\A s \in Sessions :
          file[Asn[s]] = s /\ file'[Asn[s]] # s => cur = s]_file

(* ARCHITECTURE.md:134,154: the agent configures WG and BIRD, then the      *)
(* session is ACTIVE, "Running normally"; a failure is SETUP_FAILED.        *)
EnabledIsLoaded ==
    [][\A s \in Sessions :
          cp[s] = "QueuedForSetup" /\ cp'[s] = "Enabled" => loaded[Asn[s]] = s]_cp
=============================================================================
