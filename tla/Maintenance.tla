----------------------------- MODULE Maintenance -----------------------------
(***************************************************************************)
(* Maintenance mode: internal/maintenance/state.go.  Enter and Exit hold   *)
(* the mutex from beginning to end, so one of them runs at a time; the     *)
(* other tasks reload BIRD, which reads maintenance.conf with the rest, at *)
(* any moment in between.                                                  *)
(***************************************************************************)
EXTENDS Naturals

CONSTANTS Faults,         \* the kinds of fault that may happen, any number of times
          MaxRequests     \* bound on the calls of Enter and Exit

FaultKinds == {"file",      \* os.WriteFile fails, before or after truncating
               "bird",      \* Configure() fails and BIRD has not reloaded
               "reply",     \* it fails and BIRD has
               "refused",   \* it returns nil and BIRD has not: the configuration is
                            \* at fault elsewhere, but the reply opens with "0002-"
               "crash",     \* the agent is killed and started again
               "torn"}      \* the same while it writes the file

ASSUME MaintenanceAssumption ==
    /\ Faults \subseteq FaultKinds
    /\ MaxRequests \in Nat

VARIABLES
    enabled,    \* s.enabled, which IsEnabled() returns
    file,       \* MAINTENANCE_MODE in maintenance.conf, "blank" without one
    bird,       \* MAINTENANCE_MODE as BIRD runs it
    stage,      \* who holds the mutex, and where
    due,        \* the configuration task has yet to reload BIRD since the start
    missed,     \* history: a reload came to nothing unknown to the handlers
                \* (Configure() returned nil, or another task logged the
                \* error), and BIRD has carried out none since
    faults,     \* the kinds of fault that have happened
    requests

modeVars == <<enabled, file, bird, stage, due, missed, faults, requests>>

ModeTypeOK ==
    /\ enabled \in BOOLEAN
    /\ file \in {"true", "false", "blank"}
    /\ bird \in BOOLEAN
    /\ stage \in {"idle", "entering", "rollback", "exiting"}
    /\ due \in BOOLEAN /\ missed \in BOOLEAN
    /\ faults \subseteq Faults
    /\ requests \in 0..MaxRequests

ModeInit ==
    /\ file \in {"true", "false"}
    /\ bird = (file = "true")
    /\ enabled = (file = "true")
    /\ stage = "idle"
    /\ due = TRUE
    /\ missed = FALSE
    /\ faults = {}
    /\ requests = 0

Fault(kind) ==
    /\ kind \in Faults
    /\ faults' = faults \cup {kind}

NoFault == UNCHANGED faults

(* BIRD reads the file; without a definition of MAINTENANCE_MODE it refuses *)
(* the configuration and keeps the one it has.                              *)
Reload ==
    /\ bird' = IF file = "blank" THEN bird ELSE file = "true"
    /\ missed' = (file = "blank")

(* Configure() returns an error: BIRD could not be told, or the answer lost. *)
ReloadFails ==
    \/ Fault("bird") /\ UNCHANGED <<bird, missed>>
    \/ Fault("reply") /\ Reload

(* It returns nil on "0002-" before it looks for an error code.            *)
ReloadRefused ==
    /\ Fault("refused")
    /\ missed' = TRUE
    /\ UNCHANGED bird

Request(from, to) ==
    /\ requests < MaxRequests
    /\ requests' = requests + 1
    /\ stage = from
    /\ stage' = to

Moves(from, to) == stage = from /\ stage' = to /\ UNCHANGED requests

-----------------------------------------------------------------------------
(* Enter: write the file, reload BIRD, roll the file back if that fails.    *)
Enter ==
    /\ ~enabled
    /\ Request("idle", "entering")
    /\ file' = "true"
    /\ NoFault
    /\ UNCHANGED <<enabled, bird, due, missed>>

Entered ==
    /\ Moves("entering", "idle")
    /\ Reload
    /\ enabled' = TRUE
    /\ NoFault
    /\ UNCHANGED <<file, due>>

EnterRefused ==
    /\ Moves("entering", "idle")
    /\ ReloadRefused
    /\ enabled' = TRUE
    /\ UNCHANGED <<file, due>>

(* Mutation: a failed reload is a warning, as it is for Exit.              *)
EnterWarns ==
    /\ Moves("entering", "idle")
    /\ ReloadFails
    /\ enabled' = TRUE
    /\ UNCHANGED <<file, due>>

EnterFails ==
    /\ Moves("entering", "rollback")
    /\ ReloadFails
    /\ UNCHANGED <<enabled, file, due>>

Rollback ==
    /\ Moves("rollback", "idle")
    /\ file' = "false"
    /\ NoFault
    /\ UNCHANGED <<enabled, bird, due, missed>>

(* The error of the second write is dropped.                               *)
RollbackFails ==
    /\ Moves("rollback", "idle")
    /\ Fault("file")
    /\ file' \in {file, "blank"}
    /\ UNCHANGED <<enabled, bird, due, missed>>

-----------------------------------------------------------------------------
(* Exit: write the file, reload BIRD, and be done whether that worked or not. *)
Exit ==
    /\ enabled
    /\ Request("idle", "exiting")
    /\ file' = "false"
    /\ NoFault
    /\ UNCHANGED <<enabled, bird, due, missed>>

Exited ==
    /\ Moves("exiting", "idle")
    /\ Reload
    /\ enabled' = FALSE
    /\ NoFault
    /\ UNCHANGED <<file, due>>

(* The error is logged, if there is one.                                   *)
ExitedAnyway ==
    /\ Moves("exiting", "idle")
    /\ ReloadFails \/ ReloadRefused
    /\ enabled' = FALSE
    /\ UNCHANGED <<file, due>>

(* The first write of either fails: the handler answers with the error.    *)
WriteFails ==
    /\ Request("idle", "idle")
    /\ Fault("file")
    /\ file' \in {file, "blank"}
    /\ UNCHANGED <<enabled, bird, due, missed>>

-----------------------------------------------------------------------------
(* Mutation: the file is not read.                                         *)
StartBlank ==
    /\ enabled' = FALSE
    /\ stage' = "idle"
    /\ due' = TRUE
    /\ UNCHANGED <<bird, missed, requests>>

(* NewState reads the file.                                                *)
Start ==
    /\ enabled' = (file' = "true")
    /\ stage' = "idle"
    /\ due' = TRUE
    /\ UNCHANGED <<bird, missed, requests>>

Crash ==
    /\ Fault("crash")
    /\ file' = file
    /\ Start

Torn ==
    /\ stage \in {"entering", "rollback", "exiting"}
    /\ Fault("torn")
    /\ file' = "blank"
    /\ Start

(* Another task reloads BIRD; the configuration task does so after a start. *)
OtherReload ==
    /\ Reload
    /\ due' = FALSE
    /\ NoFault
    /\ UNCHANGED <<enabled, file, stage, requests>>

(* Its error is logged; the hash it remembers keeps it from trying again.  *)
OtherReloadFails ==
    /\ due
    /\ due' = FALSE
    /\ ReloadRefused \/ (Fault("bird") /\ missed' = TRUE /\ UNCHANGED bird)
    /\ UNCHANGED <<enabled, file, stage, requests>>

HandlerStep == Entered \/ Rollback \/ Exited

FaultStep ==
    \/ EnterRefused \/ EnterFails \/ RollbackFails \/ ExitedAnyway \/ WriteFails
    \/ Crash \/ Torn \/ OtherReloadFails

ModeNext == Enter \/ Exit \/ HandlerStep \/ FaultStep \/ OtherReload

ModeSpec == ModeInit /\ [][ModeNext]_modeVars

(* A handler finishes; after a start the configuration task reloads BIRD.  *)
ModeLiveSpec ==
    /\ ModeSpec
    /\ WF_modeVars(HandlerStep)
    /\ WF_modeVars(due /\ OtherReload)

-----------------------------------------------------------------------------
(* Properties *)

(* What GET /maintenance says is so: in maintenance mode BIRD runs with     *)
(* MAINTENANCE_MODE set, whatever failed, crashed or was reloaded on the    *)
(* way there, once the configuration task has reloaded BIRD after a start.  *)
(* Excepted is the reload that came to nothing without Enter() being told,  *)
(* until BIRD carries out another.                                          *)
ReportedIsActive == stage = "idle" /\ enabled /\ ~due /\ ~missed => bird

(* state.go:95, "Maintenance mode enabled - GRACEFUL_SHUTDOWN community     *)
(* active".  Refuted by one EnterRefused.                                   *)
EnabledIsActive == stage = "idle" /\ enabled /\ ~due => bird

(* If the agent may crash, between the file and the reload as anywhere else, *)
(* but nothing else fails, agent and BIRD end up in the same mode.          *)
FaultsEnd  == <>[][~FaultStep]_modeVars
ModesAgree == FaultsEnd => <>[](faults \subseteq {"crash"} => enabled = bird)

(* state.go:100 of Exit, "This removes the GRACEFUL_SHUTDOWN community from *)
(* exports, restoring normal routing": BIRD is not left in maintenance mode *)
(* with the agent, for whom Exit has nothing to do, out of it.              *)
MaintenanceIsLeft == stage = "idle" /\ ~enabled /\ ~due => ~bird
=============================================================================
