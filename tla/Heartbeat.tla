------------------------------ MODULE Heartbeat ------------------------------
(***************************************************************************)
(* What the agent tells the Control Plane about itself:                    *)
(* internal/task/heartbeat.go.                                             *)
(*                                                                         *)
(* Every beat carries the agent's version.  A public address is carried    *)
(* only when it differs from the one last reported, and counts as reported *)
(* from the moment the beat is put together.  Addresses are looked up when *)
(* the agent starts and again when an hour has passed.                     *)
(***************************************************************************)
EXTENDS Naturals, FiniteSets

CONSTANTS Families,   \* IPv4 and IPv6
          Addrs,      \* public addresses
          Home,       \* the one the node starts with
          Unknown,    \* the empty string
          MaxMoves,   \* bound on the changes of address
          MaxLate     \* bound on the late beats under way

ASSUME HeartbeatAssumption ==
    /\ Home \in Addrs
    /\ Unknown \notin Addrs
    /\ MaxMoves \in Nat
    /\ MaxLate \in Nat

VARIABLES
    addr,        \* the node's public address of each family
    moves,       \* changes so far
    cached,      \* h.cachedIPv4, h.cachedIPv6
    reported,    \* h.reportedIPv4, h.reportedIPv6
    beat,        \* the heartbeats under way: at most one
    late,        \* those the agent has given up on, and that arrive all the same
    cpAddr,      \* the addresses the Control Plane has stored
    cpVersion,   \* the version it has stored
    missed       \* families of which an address was lost on its way, or stored
                 \* late, since the process started

heartbeatVars == <<addr, moves, cached, reported, beat, late, cpAddr, cpVersion, missed>>

Known  == [Families -> Addrs \cup {Unknown}]
NoAddr == [f \in Families |-> Unknown]
Beats(versions) == [version : versions, addr : Known]

HeartbeatTypeOK(versions) ==
    /\ addr \in [Families -> Addrs]
    /\ moves \in 0..MaxMoves
    /\ cached \in Known
    /\ reported \in Known
    /\ beat \subseteq Beats(versions)
    /\ late \subseteq Beats(versions)
    /\ cpAddr \in Known
    /\ cpVersion \in versions
    /\ missed \subseteq Families

HeartbeatInit(version) ==
    /\ addr = [f \in Families |-> Home]
    /\ moves = 0
    /\ cached = NoAddr
    /\ reported = NoAddr
    /\ beat = {}
    /\ late = {}
    /\ cpAddr = NoAddr
    /\ cpVersion = version
    /\ missed = {}

-----------------------------------------------------------------------------
(* refreshPublicIPs: the families in found are looked up with success, the  *)
(* others keep what was known.                                              *)
Refreshed(found, known) == [f \in Families |-> IF f \in found THEN addr[f] ELSE known[f]]

NewHeartbeat(found) ==
    /\ cached' = Refreshed(found, NoAddr)
    /\ reported' = NoAddr
    /\ missed' = {}
    /\ UNCHANGED <<addr, moves, beat, late, cpAddr, cpVersion>>

(* Mutation: an address is reported once, and its changes are not.        *)
FirstKnown(known, told) == {f \in Families : told[f] = Unknown /\ known[f] # Unknown}

(* The families whose address the next beat carries.                       *)
Changed(known, told) == {f \in Families : known[f] # told[f]}

(* getIPsForHeartbeat and the request: the lookups are repeated every hour   *)
(* (found = {} where it has not passed, and where they fail), and an address *)
(* is marked as reported before it is sent.                                 *)
SendHeartbeat(version, found) ==
    /\ beat = {}
    /\ cached' = Refreshed(found, cached)
    /\ reported' = cached'
    /\ beat' = {[version |-> version,
                 addr |-> [f \in Families |->
                              IF f \in Changed(cached', reported) THEN cached'[f] ELSE Unknown]]}
    /\ UNCHANGED <<addr, moves, late, cpAddr, cpVersion, missed>>

Carried(m) == {f \in Families : m.addr[f] # Unknown}

Store(m) ==
    /\ cpVersion' = m.version
    /\ cpAddr' = [f \in Families |-> IF f \in Carried(m) THEN m.addr[f] ELSE cpAddr[f]]

BeatArrives(m) ==
    /\ m \in beat
    /\ beat' = beat \ {m}
    /\ Store(m)
    /\ UNCHANGED <<addr, moves, cached, reported, late, missed>>

GivenUp(beats) ==
    /\ beats \subseteq beat
    /\ beat' = {}
    /\ late' = late \cup beats
    /\ Cardinality(late') <= MaxLate

(* The request fails, or times out and is stored all the same later on: the *)
(* error is logged.                                                         *)
BeatFails(m) ==
    /\ m \in beat
    /\ \E beats \in SUBSET {m} : GivenUp(beats)
    /\ missed' = missed \cup Carried(m)
    /\ UNCHANGED <<addr, moves, cached, reported, cpAddr, cpVersion>>

LateBeatArrives(m) ==
    /\ m \in late
    /\ late' = late \ {m}
    /\ Store(m)
    /\ missed' = missed \cup Carried(m)
    /\ UNCHANGED <<addr, moves, cached, reported, beat>>

(* The node gets another address.                                          *)
Moves(f, a) ==
    /\ moves < MaxMoves
    /\ addr[f] # a
    /\ addr' = [addr EXCEPT ![f] = a]
    /\ moves' = moves + 1
    /\ UNCHANGED <<cached, reported, beat, late, cpAddr, cpVersion, missed>>

(* The process ends with what it had in memory; a beat under way may still  *)
(* arrive.                                                                  *)
HeartbeatEnds ==
    /\ \E beats \in SUBSET beat : GivenUp(beats)
    /\ cached' = NoAddr
    /\ reported' = NoAddr
    /\ missed' = {}
    /\ UNCHANGED <<addr, moves, cpAddr, cpVersion>>
=============================================================================
