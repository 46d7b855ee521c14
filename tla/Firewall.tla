------------------------------ MODULE Firewall ------------------------------
(***************************************************************************)
(* The UDP ports the agent opens, command by command:                      *)
(* internal/firewall/executor.go.  SessionSync has the same SyncPorts as   *)
(* one step on one set of ports.                                           *)
(*                                                                         *)
(* The agent's rules carry a comment and come in pairs, one in iptables    *)
(* and one in ip6tables.  What there is to add and to remove is read from  *)
(* iptables alone; every command may fail, the process may be killed       *)
(* between two of them, and the node may reboot and come back with the     *)
(* rules last saved.                                                       *)
(***************************************************************************)
EXTENDS Integers

CONSTANTS Ports,      \* ports of sessions
          NoPort,     \* no port
          MaxChanges, \* bound on what others change: sessions, rules
          MaxFaults   \* bound on what fails

ASSUME FirewallAssumption ==
    /\ NoPort \notin Ports
    /\ MaxChanges \in Nat
    /\ MaxFaults \in Nat

VARIABLES
    expected,   \* ports the Control Plane's sessions need
    v4,         \* ports with the agent's rule in iptables
    v6,         \* how many of the agent's rules a port has in ip6tables
    plain,      \* ports for which iptables has a rule of somebody else
    saved4,     \* /etc/iptables/rules.v4: v4 and plain
    saved6,     \* /etc/iptables/rules.v6
    pc,         \* where SyncPorts() is
    want,       \* expectedSet
    current,    \* currentSet
    port,       \* the port it is at
    done,       \* the ports it is through with
    changes,    \* changes by others so far
    faults,     \* faults so far
    hurt,       \* ports of which a fault may have left one rule of the two
    torn        \* "no", or "half" or "yes": the two files are not of one moment

rules == <<v4, v6, plain>>
files == <<saved4, saved6, torn>>
local == <<want, current, port, done>>
vars  == <<expected, rules, files, pc, local, changes, faults, hurt>>

TypeOK ==
    /\ expected \subseteq Ports /\ v4 \subseteq Ports /\ plain \subseteq Ports
    /\ v6 \in [Ports -> Nat] /\ saved6 \in [Ports -> Nat]
    /\ saved4 \in [v4 : SUBSET Ports, plain : SUBSET Ports]
    /\ pc \in {"idle", "list", "next", "check", "add4", "add6", "undo4",
               "del4", "del6", "save4", "save6"}
    /\ want \subseteq Ports /\ current \subseteq Ports /\ done \subseteq Ports
    /\ port \in Ports \cup {NoPort}
    /\ changes \in 0..MaxChanges /\ faults \in 0..MaxFaults
    /\ hurt \subseteq Ports
    /\ torn \in {"no", "half", "yes"}

NoRules == [p \in Ports |-> 0]

Init ==
    /\ expected = {} /\ v4 = {} /\ v6 = NoRules /\ plain = {}
    /\ saved4 = [v4 |-> {}, plain |-> {}] /\ saved6 = NoRules /\ torn = "no"
    /\ pc = "idle"
    /\ want = {} /\ current = {} /\ port = NoPort /\ done = {}
    /\ changes = 0 /\ faults = 0 /\ hurt = {}

Goto(from, to) == pc = from /\ pc' = to

Fails == faults < MaxFaults /\ faults' = faults + 1

-----------------------------------------------------------------------------
(* SyncPorts *)

SyncPorts ==
    /\ Goto("idle", "list")
    /\ want' = expected
    /\ done' = {}
    /\ UNCHANGED <<expected, rules, files, current, port, changes, faults, hurt>>

(* Only lines with the agent's comment count.                              *)
GetOpenPorts ==
    /\ Goto("list", "next")
    /\ current' = v4
    /\ UNCHANGED <<expected, rules, files, want, port, done, changes, faults, hurt>>

GetOpenPortsFails ==
    /\ Goto("list", "idle")
    /\ Fails
    /\ UNCHANGED <<expected, rules, files, local, changes, hurt>>

(* Mutation: ports that no session needs any more stay open.               *)
NoExtra == {}

Missing == want \ current
Extra   == current \ want

(* First what is missing and then what is too much, each in the order of a   *)
(* Go map.                                                                  *)
NextPort ==
    /\ \/ \E p \in Missing \ done :
             Goto("next", "check") /\ port' = p /\ done' = done \cup {p}
       \/ \E p \in Extra \ done :
             /\ Missing \subseteq done
             /\ Goto("next", "del4") /\ port' = p /\ done' = done \cup {p}
       \/ /\ Missing \cup Extra \subseteq done
          /\ Goto("next", "idle")
          /\ port' = NoPort /\ done' = {}
    /\ UNCHANGED <<expected, rules, files, want, current, changes, faults, hurt>>

-----------------------------------------------------------------------------
(* AllowPort *)

(* A command that may change the rules.                                    *)
Command(from, to) ==
    /\ Goto(from, to)
    /\ UNCHANGED <<expected, plain, files, local, changes>>

(* portExists asks for a rule without the comment, which the agent's are not. *)
PortExists ==
    /\ Command("check", IF port \in plain THEN "next" ELSE "add4")
    /\ UNCHANGED <<v4, v6, faults, hurt>>

(* A failed query is taken for no.                                         *)
PortExistsFails ==
    /\ Command("check", "add4")
    /\ Fails
    /\ UNCHANGED <<v4, v6, hurt>>

Add4 ==
    /\ Command("add4", "add6")
    /\ v4' = v4 \cup {port}
    /\ UNCHANGED <<v6, faults, hurt>>

Add4Fails ==
    /\ Command("add4", "next")
    /\ Fails
    /\ UNCHANGED <<v4, v6, hurt>>

Add6 ==
    /\ Command("add6", "save4")
    /\ v6' = [v6 EXCEPT ![port] = @ + 1]
    /\ UNCHANGED <<v4, faults, hurt>>

(* Mutation: the IPv4 rule stays when there is none for IPv6.              *)
Add6FailsOnly ==
    /\ Command("add6", "next")
    /\ Fails
    /\ UNCHANGED <<v4, v6, hurt>>

Add6Fails ==
    /\ Command("add6", "undo4")
    /\ Fails
    /\ UNCHANGED <<v4, v6, hurt>>

Undo4 ==
    /\ Command("undo4", "next")
    /\ v4' = v4 \ {port}
    /\ UNCHANGED <<v6, faults, hurt>>

(* The error is dropped.                                                   *)
Undo4Fails ==
    /\ Command("undo4", "next")
    /\ Fails
    /\ hurt' = hurt \cup {port}
    /\ UNCHANGED <<v4, v6>>

-----------------------------------------------------------------------------
(* RemovePort *)

Del4 ==
    /\ Command("del4", "del6")
    /\ v4' = v4 \ {port}
    /\ UNCHANGED <<v6, faults, hurt>>

(* -D takes one rule, if there is any.                                     *)
Del6 ==
    /\ Command("del6", "save4")
    /\ v6' = [v6 EXCEPT ![port] = IF @ = 0 THEN 0 ELSE @ - 1]
    /\ UNCHANGED <<v4, faults, hurt>>

(* The errors are ignored, and the removal goes on.                        *)
DelFails ==
    /\ Command("del4", "del6") \/ Command("del6", "save4")
    /\ Fails
    /\ hurt' = hurt \cup {port}
    /\ UNCHANGED <<v4, v6>>

-----------------------------------------------------------------------------
(* saveRules: two files, one after the other, and no error is looked at.     *)

Save4 ==
    /\ Goto("save4", "save6")
    /\ saved4' = [v4 |-> v4, plain |-> plain]
    /\ torn' = "half"
    /\ UNCHANGED <<expected, rules, saved6, local, changes, faults, hurt>>

Save6 ==
    /\ Goto("save6", "next")
    /\ saved6' = v6
    /\ torn' = IF torn = "half" THEN "no" ELSE "yes"
    /\ UNCHANGED <<expected, rules, saved4, local, changes, faults, hurt>>

(* The shell cannot open the file, or has emptied it already.              *)
SaveFails ==
    /\ \/ /\ Goto("save4", "save6")
          /\ saved4' \in {saved4, [v4 |-> {}, plain |-> {}]}
          /\ UNCHANGED saved6
       \/ /\ Goto("save6", "next")
          /\ saved6' \in {saved6, NoRules}
          /\ UNCHANGED saved4
    /\ Fails
    /\ torn' = "yes"
    /\ UNCHANGED <<expected, rules, local, changes, hurt>>

-----------------------------------------------------------------------------
(* Around the agent *)

(* Whatever has been killed starts afresh.                                 *)
Halt ==
    /\ pc' = "idle"
    /\ want' = {} /\ current' = {} /\ port' = NoPort /\ done' = {}

Killed ==
    /\ pc # "idle"
    /\ Halt
    /\ Fails
    /\ hurt' = IF pc \in {"add6", "undo4", "del6"} THEN hurt \cup {port} ELSE hurt
    /\ UNCHANGED <<expected, rules, files, changes>>

(* The kernel comes back with the rules of the files.                      *)
Reboot ==
    /\ Halt
    /\ Fails
    /\ v4' = saved4.v4 /\ plain' = saved4.plain /\ v6' = saved6
    /\ hurt' = IF torn = "no" THEN hurt ELSE Ports
    /\ UNCHANGED <<expected, files, changes>>

(* Another program flushes the chain INPUT of one family.                  *)
Flushed ==
    /\ \/ v4' = {} /\ plain' = {} /\ UNCHANGED v6
       \/ v6' = NoRules /\ UNCHANGED <<v4, plain>>
    /\ Fails
    /\ hurt' = Ports
    /\ UNCHANGED <<expected, files, pc, local, changes>>

Toggle(set, p) == (set \ {p}) \cup ({p} \ set)

(* A session comes or goes, or the operator's rule does.                   *)
Others ==
    /\ changes < MaxChanges
    /\ changes' = changes + 1
    /\ \E p \in Ports :
          \/ expected' = Toggle(expected, p) /\ UNCHANGED plain
          \/ plain' = Toggle(plain, p) /\ UNCHANGED expected
    /\ UNCHANGED <<v4, v6, files, pc, local, faults, hurt>>

-----------------------------------------------------------------------------
SyncStep ==
    \/ SyncPorts \/ GetOpenPorts \/ NextPort
    \/ PortExists \/ Add4 \/ Add6 \/ Undo4
    \/ Del4 \/ Del6 \/ Save4 \/ Save6

FaultStep ==
    \/ GetOpenPortsFails \/ PortExistsFails \/ Add4Fails \/ Add6Fails \/ Undo4Fails
    \/ DelFails \/ SaveFails
    \/ Killed \/ Reboot \/ Flushed

Next == SyncStep \/ FaultStep \/ Others

(* The ticker of the session sync comes round, and commands return.        *)
Spec == Init /\ [][Next]_vars /\ WF_vars(SyncStep)

-----------------------------------------------------------------------------
(* Properties *)

(* When sessions stop changing and things stop failing (both are bounded),  *)
(* the ports open to IPv4 come to be those the sessions need, whatever       *)
(* failed, was killed, rebooted or was flushed before; a port that the       *)
(* operator has opened is left to the operator.                             *)
RulesConverge ==
    <>[](/\ expected \subseteq v4 \cup plain
         /\ v4 \subseteq expected)

(* The two rules of a port come and go together: between commands of its    *)
(* own it has both or neither, and never two of a kind.  A failed command is *)
(* no excuse, only a failed undo or removal is, a death between the two      *)
(* commands, files of two moments, and another program's flush; after these  *)
(* nothing mends the pair.                                                  *)
FamiliesAgree ==
    \A p \in Ports \ hurt :
        \/ p = port /\ pc \in {"add6", "undo4", "del6"}
        \/ v6[p] = IF p \in v4 THEN 1 ELSE 0
=============================================================================
