----------------------------- MODULE PeerRestart -----------------------------
(***************************************************************************)
(* The handler that restarts a BGP peer: internal/api/restart.go over the  *)
(* pooled connections of BirdReply.  It disables the peer, looks at the    *)
(* WireGuard interface without touching it, and enables the peer again.    *)
(* One peer is modelled; the other commands that use the pool are the      *)
(* clients' own.                                                           *)
(***************************************************************************)
EXTENDS BirdReply

ASSUME RestartAssumption == {"disable", "enable"} \subseteq Commands

VARIABLES
    handling,    \* client |-> the command of HandleRestart it is at, or "no"
    down,        \* BIRD has the peer disabled
    stranded     \* an enable has failed, and none was carried out since

restartVars == <<vars, handling, down, stranded>>

RestartTypeOK ==
    /\ TypeOK
    /\ handling \in [Clients -> {"no", "disable", "enable"}]
    /\ down \in BOOLEAN /\ stranded \in BOOLEAN

RestartInit ==
    /\ Init
    /\ handling = [c \in Clients |-> "no"]
    /\ down = FALSE
    /\ stranded = FALSE

Over(c) == pc[c] \in {"returned", "failed"}

OtherCommand(c) ==
    /\ handling[c] = "no"
    /\ \E command \in Commands \ {"disable", "enable"} : Call(c, command)
    /\ UNCHANGED <<handling, down, stranded>>

Handle(c, from, to) ==
    /\ handling[c] = from
    /\ handling' = [handling EXCEPT ![c] = to]
    /\ UNCHANGED <<down, stranded>>

(* Step 1, unless wg_only.                                                 *)
Disable(c) == Handle(c, "no", "disable") /\ Call(c, "disable")

(* Mutation: after a failed disable the handler returns.                   *)
EnableUnlessFailed(c) ==
    \/ pc[c] = "returned" /\ Handle(c, "disable", "enable") /\ Call(c, "enable")
    \/ pc[c] = "failed" /\ Handle(c, "disable", "no") /\ UNCHANGED vars

(* Step 3, whatever came of step 1.                                        *)
Enable(c) ==
    /\ Handle(c, "disable", "enable")
    /\ Over(c)
    /\ Call(c, "enable")

(* The answer, also where the caller has gone.                             *)
Answer(c) ==
    /\ Handle(c, "enable", "no")
    /\ Over(c)
    /\ UNCHANGED vars

CarriedOut(c) ==
    /\ Send(c)
    /\ down' = (cmd[c] = "disable" \/ (down /\ cmd[c] # "enable"))
    /\ stranded' = (stranded /\ cmd[c] # "enable")
    /\ UNCHANGED handling

Fails(c) ==
    /\ AcquireFails(c) \/ ExchangeFails(c)
    /\ stranded' = (stranded \/ (cmd[c] = "enable" /\ pc'[c] = "failed"))
    /\ UNCHANGED <<handling, down>>

RestartNext ==
    \/ \E c \in Clients :
          \/ OtherCommand(c) \/ Disable(c) \/ Enable(c) \/ Answer(c)
          \/ CarriedOut(c) \/ Fails(c)
          \/ (Acquire(c) \/ ReadLine(c)) /\ UNCHANGED <<handling, down, stranded>>
    \/ (\E k \in Conns : Drops(k)) /\ UNCHANGED <<handling, down, stranded>>

RestartSpec == RestartInit /\ [][RestartNext]_restartVars

(* However the commands of several handlers interleave, and whichever of    *)
(* the exchanges break off: a peer that is disabled is about to be enabled  *)
(* by some handler, or an enable could not be delivered.                    *)
PeerComesBack ==
    down => \/ stranded
            \/ \E c \in Clients : \/ handling[c] = "disable"
                                  \/ handling[c] = "enable" /\ ~Over(c)
=============================================================================
