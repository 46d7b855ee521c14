---------------------------- MODULE CircuitBreaker ----------------------------
(***************************************************************************)
(* internal/circuitbreaker/breaker.go: goroutines call Execute(), which    *)
(* asks Allow(), runs the request without the mutex, and records its       *)
(* outcome in whatever state the breaker is by then.                       *)
(***************************************************************************)
EXTENDS Integers, FiniteSets

CONSTANTS Callers,
          FailureThreshold, SuccessThreshold, HalfOpenMaxRequests

(* New() puts defaults in the place of zeros.                              *)
ASSUME BreakerAssumption ==
    /\ IsFiniteSet(Callers)
    /\ FailureThreshold \in Nat \ {0}
    /\ SuccessThreshold \in Nat \ {0}
    /\ HalfOpenMaxRequests \in Nat \ {0}

VARIABLES
    state,          \* cb.state
    failureCount, successCount, halfOpenCount,
    expired,        \* OpenDuration has passed since cb.lastFailure
    request         \* what each caller has in flight

breakerVars == <<state, failureCount, successCount, halfOpenCount, expired, request>>

(* A request is told apart by how it was let through: while the breaker was *)
(* closed, as the one that ends the open state, or as one of those counted  *)
(* in the half-open state; and when the state has changed since, as "old".  *)
Requests == {"none", "normal", "first", "counted", "old"}

BreakerTypeOK ==
    /\ state \in {"closed", "open", "half-open"}
    /\ failureCount \in 0..FailureThreshold
    /\ successCount \in 0..SuccessThreshold - 1
    /\ halfOpenCount \in -SuccessThreshold..HalfOpenMaxRequests
    /\ expired \in BOOLEAN
    /\ request \in [Callers -> Requests]

BreakerInit ==
    /\ state = "closed"
    /\ failureCount = 0
    /\ successCount = 0
    /\ halfOpenCount = 0
    /\ expired = TRUE        \* the zero time
    /\ request = [c \in Callers |-> "none"]

(* Every change of state makes the requests in flight old ones.            *)
Age(r) == IF r = "none" THEN r ELSE "old"
Aged == [c \in Callers |-> Age(request[c])]

-----------------------------------------------------------------------------
(* Allow *)

AllowClosed(c) ==
    /\ request[c] = "none"
    /\ state = "closed"
    /\ request' = [request EXCEPT ![c] = "normal"]
    /\ UNCHANGED <<state, failureCount, successCount, halfOpenCount, expired>>

(* The request that finds the time over is let through without being counted. *)
AllowOpen(c) ==
    /\ request[c] = "none"
    /\ state = "open"
    /\ expired
    /\ state' = "half-open"
    /\ halfOpenCount' = 0
    /\ successCount' = 0
    /\ request' = [Aged EXCEPT ![c] = "first"]
    /\ UNCHANGED <<failureCount, expired>>

(* Mutation: one slot too many.                                            *)
HasSlotOrOneMore == halfOpenCount <= HalfOpenMaxRequests

HasSlot == halfOpenCount < HalfOpenMaxRequests

AllowHalfOpen(c) ==
    /\ request[c] = "none"
    /\ state = "half-open"
    /\ HasSlot
    /\ halfOpenCount' = halfOpenCount + 1
    /\ request' = [request EXCEPT ![c] = "counted"]
    /\ UNCHANGED <<state, failureCount, successCount, expired>>

-----------------------------------------------------------------------------
(* RecordSuccess *)

SucceedClosed ==
    /\ state = "closed"
    /\ failureCount' = 0
    /\ UNCHANGED <<state, successCount, halfOpenCount>>

(* Mutation: the slot is not given back.                                   *)
SucceedKeepingSlot ==
    /\ state = "half-open"
    /\ halfOpenCount' = halfOpenCount
    /\ IF successCount + 1 >= SuccessThreshold
         THEN state' = "closed" /\ failureCount' = 0 /\ successCount' = 0
         ELSE successCount' = successCount + 1 /\ UNCHANGED <<state, failureCount>>

SucceedHalfOpen ==
    /\ state = "half-open"
    /\ halfOpenCount' = halfOpenCount - 1
    /\ IF successCount + 1 >= SuccessThreshold
         THEN state' = "closed" /\ failureCount' = 0 /\ successCount' = 0
         ELSE successCount' = successCount + 1 /\ UNCHANGED <<state, failureCount>>

SucceedOpen ==
    /\ state = "open"
    /\ UNCHANGED <<state, failureCount, successCount, halfOpenCount>>

Ended(c) == [(IF state' = state THEN request ELSE Aged) EXCEPT ![c] = "none"]

RecordSuccess(c) ==
    /\ request[c] # "none"
    /\ SucceedClosed \/ SucceedHalfOpen \/ SucceedOpen
    /\ request' = Ended(c)
    /\ UNCHANGED expired

-----------------------------------------------------------------------------
(* RecordFailure *)

FailClosed ==
    /\ state = "closed"
    /\ failureCount' = failureCount + 1
    /\ state' = IF failureCount' >= FailureThreshold THEN "open" ELSE "closed"
    /\ UNCHANGED <<successCount, halfOpenCount>>

FailHalfOpen ==
    /\ state = "half-open"
    /\ state' = "open"
    /\ halfOpenCount' = 0
    /\ UNCHANGED <<failureCount, successCount>>

FailOpen ==
    /\ state = "open"
    /\ UNCHANGED <<state, failureCount, successCount, halfOpenCount>>

RecordFailure(c) ==
    /\ request[c] # "none"
    /\ FailClosed \/ FailHalfOpen \/ FailOpen
    /\ expired' = FALSE
    /\ request' = Ended(c)

-----------------------------------------------------------------------------
Reset ==
    /\ state' = "closed"
    /\ failureCount' = 0
    /\ successCount' = 0
    /\ halfOpenCount' = 0
    /\ request' = Aged
    /\ UNCHANGED expired

TimePasses ==
    /\ ~expired
    /\ expired' = TRUE
    /\ UNCHANGED <<state, failureCount, successCount, halfOpenCount, request>>

Allow(c) == AllowClosed(c) \/ AllowOpen(c) \/ AllowHalfOpen(c)

BreakerNext ==
    \/ \E c \in Callers : Allow(c) \/ RecordSuccess(c) \/ RecordFailure(c)
    \/ Reset
    \/ TimePasses

BreakerSpec == BreakerInit /\ [][BreakerNext]_breakerVars

(* Callers keep calling, requests end, the clock advances.                 *)
BreakerLiveSpec ==
    /\ BreakerSpec
    /\ \A c \in Callers :
          /\ WF_breakerVars(Allow(c))
          /\ WF_breakerVars(RecordSuccess(c) \/ RecordFailure(c))
    /\ WF_breakerVars(TimePasses)

-----------------------------------------------------------------------------
(* Properties *)

Probes  == {c \in Callers : request[c] \in {"first", "counted"}}

(* The breaker does not get stuck half-open, turning everybody away: when   *)
(* nothing is in flight, the next call goes through.  Requests let through  *)
(* in another state come back in this one and free slots that are not       *)
(* theirs, but no slot is ever lost.                                        *)
NeverStuckHalfOpen ==
    state = "half-open" /\ (\A c \in Callers : request[c] = "none") => HasSlot

(* While closed the breaker is short of FailureThreshold failures in a row, *)
(* those of requests from before the last reset or recovery included.       *)
ClosedBelowThreshold == state = "closed" => failureCount < FailureThreshold

(* What it does limit: requests let through in this half-open period are at *)
(* most those slots, the first, and one for each success counted in it.     *)
ProbesBounded ==
    state = "half-open" => Cardinality(Probes) <= HalfOpenMaxRequests + 1 + successCount

(* If requests no longer fail, the breaker closes.                         *)
Recovers ==
    (<>[][\A c \in Callers : ~RecordFailure(c)]_breakerVars) => []<>(state = "closed")

(* breaker.go:48: "the max concurrent requests allowed in half-open state". *)
ConcurrentProbes ==
    state = "half-open" => Cardinality(Probes) <= HalfOpenMaxRequests
=============================================================================
