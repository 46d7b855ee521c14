---------------------------- MODULE FirewallProofs ----------------------------
(***************************************************************************)
(* Proofs about Firewall: the two rules of a port come and go together for *)
(* any number of ports, changes and faults, except where a fault of the    *)
(* kinds that hurt has left one of them alone.                             *)
(***************************************************************************)
EXTENDS Firewall, TLAPS

USE FirewallAssumption

(* The port SyncPorts() is at was missing from the list, or too much, and   *)
(* its turn comes once.                                                     *)
AtPort ==
    /\ pc \in {"check", "add4", "add6", "undo4"} => port \in Missing
    /\ pc \in {"del4", "del6"} => port \in Extra
    /\ pc \notin {"idle", "list", "next"} => port \in Ports \cap done

(* Between the two commands a port has the one rule and not the other.     *)
HalfWay ==
    port \notin hurt =>
        /\ pc \in {"add6", "undo4"} => port \in v4 /\ v6[port] = 0
        /\ pc = "del6" => port \notin v4 /\ v6[port] = 1

(* What the list said of a port holds until the port's own turn is over.    *)
Pending(p) == p \notin done \/ (p = port /\ pc \in {"check", "add4", "del4"})

ListIsTrue ==
    pc \notin {"idle", "list"} =>
        \A p \in Ports \ hurt : Pending(p) => (p \in current <=> p \in v4)

(* Files of one moment hold pairs.                                         *)
FilesArePaired ==
    /\ torn = "no" =>
          \A p \in Ports \ hurt : saved6[p] = IF p \in saved4.v4 THEN 1 ELSE 0
    /\ torn = "half" /\ pc = "save6" =>
          \A p \in Ports \ hurt : p \in saved4.v4 <=> p \in v4

IInv == TypeOK /\ AtPort /\ HalfWay /\ ListIsTrue /\ FilesArePaired /\ FamiliesAgree

(* Every variable keeps to its domain, because commands are only ever run   *)
(* for a port that was missing or too much.                                 *)
THEOREM TypeCorrect == Spec => []TypeOK
<1>1. Init => TypeOK /\ AtPort
  BY DEF Init, TypeOK, AtPort, NoRules
<1>2. TypeOK /\ AtPort /\ [Next]_vars => TypeOK' /\ AtPort'
  <2> SUFFICES ASSUME TypeOK, AtPort, [Next]_vars PROVE TypeOK' /\ AtPort'
    OBVIOUS
  <2> USE DEF TypeOK, AtPort, Missing, Extra, Goto, Fails, Command, files, rules, local
  <2>1. CASE SyncPorts \/ GetOpenPorts \/ NextPort
    BY <2>1 DEF SyncPorts, GetOpenPorts, NextPort
  <2>2. CASE PortExists \/ Add4 \/ Undo4 \/ Del4 \/ Save4 \/ Save6
    BY <2>2 DEF PortExists, Add4, Undo4, Del4, Save4, Save6
  <2>3. CASE Add6 \/ Del6
    BY <2>3 DEF Add6, Del6
  <2>4. CASE GetOpenPortsFails \/ PortExistsFails \/ Add4Fails \/ Add6Fails \/ Undo4Fails \/ DelFails
    BY <2>4 DEF GetOpenPortsFails, PortExistsFails, Add4Fails, Add6Fails, Undo4Fails, DelFails
  <2>5. CASE SaveFails
    BY <2>5 DEF SaveFails, NoRules
  <2>6. CASE Killed \/ Reboot \/ Flushed
    BY <2>6 DEF Killed, Reboot, Flushed, Halt, NoRules
  <2>7. CASE Others
    BY <2>7 DEF Others, Toggle
  <2>8. CASE UNCHANGED vars
    BY <2>8 DEF vars
  <2> QED
    BY <2>1, <2>2, <2>3, <2>4, <2>5, <2>6, <2>7, <2>8 DEF Next, SyncStep, FaultStep
<1> QED
  BY <1>1, <1>2, PTL DEF Spec

LEMMA InitIInv == Init => IInv
<1> SUFFICES ASSUME Init PROVE IInv
  OBVIOUS
<1>1. TypeOK
  BY DEF Init, TypeOK, NoRules
<1> QED
  BY <1>1 DEF Init, IInv, AtPort, HalfWay, ListIsTrue, FilesArePaired, FamiliesAgree, NoRules

(* One command of SyncPorts() that nothing goes wrong in.                  *)
LEMMA SyncIInv == IInv /\ TypeOK' /\ SyncStep => IInv'
<1> SUFFICES ASSUME IInv, TypeOK', SyncStep PROVE IInv'
  OBVIOUS
<1> USE DEF IInv, Goto, Command, files, rules, local, Pending
<1>1. CASE SyncPorts \/ GetOpenPorts \/ NextPort
  <2>1. AtPort' /\ HalfWay'
    BY <1>1 DEF SyncPorts, GetOpenPorts, NextPort, AtPort, HalfWay, Missing, Extra, TypeOK
  <2>2. ListIsTrue'
    BY <1>1 DEF SyncPorts, GetOpenPorts, NextPort, ListIsTrue, Missing, Extra, TypeOK
  <2>3. FilesArePaired' /\ FamiliesAgree'
    BY <1>1 DEF SyncPorts, GetOpenPorts, NextPort, FilesArePaired, FamiliesAgree
  <2> QED
    BY <2>1, <2>2, <2>3
<1>2. CASE PortExists \/ Add4 \/ Undo4 \/ Del4
  <2>1. AtPort' /\ ListIsTrue'
    BY <1>2 DEF PortExists, Add4, Undo4, Del4, AtPort, ListIsTrue, Missing, Extra, TypeOK
  <2>2. port \in Ports /\ (pc \in {"check", "add4"} => port \notin current)
    BY <1>2 DEF PortExists, Add4, Undo4, Del4, AtPort, Missing
  <2>3. pc \in {"check", "add4"} /\ port \notin hurt => port \notin v4 /\ v6[port] = 0
    BY <2>2 DEF ListIsTrue, FamiliesAgree
  <2>4. pc = "del4" /\ port \notin hurt => v6[port] = 1
    BY <1>2, <2>2 DEF ListIsTrue, FamiliesAgree, AtPort, Extra
  <2>5. HalfWay' /\ FamiliesAgree'
    BY <1>2, <2>2, <2>3, <2>4 DEF PortExists, Add4, Undo4, Del4, HalfWay, FamiliesAgree, TypeOK
  <2>6. FilesArePaired'
    BY <1>2 DEF PortExists, Add4, Undo4, Del4, FilesArePaired
  <2> QED
    BY <2>1, <2>5, <2>6
<1>3. CASE Add6 \/ Del6
  <2>1. AtPort' /\ ListIsTrue'
    BY <1>3 DEF Add6, Del6, AtPort, ListIsTrue, Missing, Extra, TypeOK
  <2>2. HalfWay' /\ FamiliesAgree'
    BY <1>3 DEF Add6, Del6, HalfWay, FamiliesAgree, TypeOK
  <2>3. FilesArePaired'
    BY <1>3 DEF Add6, Del6, FilesArePaired
  <2> QED
    BY <2>1, <2>2, <2>3
<1>4. CASE Save4 \/ Save6
  <2>1. AtPort' /\ HalfWay' /\ ListIsTrue' /\ FamiliesAgree'
    BY <1>4 DEF Save4, Save6, AtPort, HalfWay, ListIsTrue, FamiliesAgree, Missing, Extra
  <2>2. FilesArePaired'
    BY <1>4 DEF Save4, Save6, FilesArePaired, FamiliesAgree, TypeOK
  <2> QED
    BY <2>1, <2>2
<1> QED
  BY <1>1, <1>2, <1>3, <1>4 DEF SyncStep

LEMMA FaultIInv == IInv /\ TypeOK' /\ FaultStep => IInv'
<1> SUFFICES ASSUME IInv, TypeOK', FaultStep PROVE IInv'
  OBVIOUS
<1> USE DEF IInv, Goto, Command, files, rules, local, Pending
<1>1. CASE GetOpenPortsFails \/ PortExistsFails \/ Add4Fails \/ Add6Fails
  BY <1>1 DEF GetOpenPortsFails, PortExistsFails, Add4Fails, Add6Fails, AtPort, HalfWay, ListIsTrue,
              FilesArePaired, FamiliesAgree, Missing, Extra, TypeOK
<1>2. CASE Undo4Fails \/ DelFails
  <2>1. AtPort' /\ HalfWay' /\ ListIsTrue'
    BY <1>2 DEF Undo4Fails, DelFails, AtPort, HalfWay, ListIsTrue, Missing, Extra, TypeOK
  <2>2. FilesArePaired' /\ FamiliesAgree'
    BY <1>2 DEF Undo4Fails, DelFails, FilesArePaired, FamiliesAgree
  <2> QED
    BY <2>1, <2>2
<1>3. CASE SaveFails
  BY <1>3 DEF SaveFails, AtPort, HalfWay, ListIsTrue, FilesArePaired, FamiliesAgree, Missing, Extra
<1>4. CASE Killed
  BY <1>4 DEF Killed, Halt, AtPort, HalfWay, ListIsTrue, FilesArePaired, FamiliesAgree
<1>5. CASE Reboot
  BY <1>5 DEF Reboot, Halt, AtPort, HalfWay, ListIsTrue, FilesArePaired, FamiliesAgree, TypeOK
<1>6. CASE Flushed
  BY <1>6 DEF Flushed, AtPort, HalfWay, ListIsTrue, FilesArePaired, FamiliesAgree, Missing, Extra, TypeOK
<1> QED
  BY <1>1, <1>2, <1>3, <1>4, <1>5, <1>6 DEF FaultStep

LEMMA OthersIInv == IInv /\ TypeOK' /\ (Others \/ UNCHANGED vars) => IInv'
BY DEF IInv, Others, vars, files, rules, local, AtPort, HalfWay, ListIsTrue, Pending, FilesArePaired,
       FamiliesAgree, Missing, Extra

(* A port has both of the agent's rules or neither, and never two of a      *)
(* kind, except while it is being changed and after a fault that hurts.     *)
THEOREM FamiliesKeepTogether == Spec => []FamiliesAgree
<1>1. IInv /\ TypeOK' /\ [Next]_vars => IInv'
  BY SyncIInv, FaultIInv, OthersIInv DEF Next
<1>2. Spec => []IInv
  BY <1>1, InitIInv, TypeCorrect, PTL DEF Spec
<1>3. IInv => FamiliesAgree
  BY DEF IInv
<1> QED
  BY <1>2, <1>3, PTL
=============================================================================
