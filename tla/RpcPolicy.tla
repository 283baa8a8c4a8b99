------------------------------ MODULE RpcPolicy ------------------------------
(***************************************************************************)
(* The retry and circuit breaker policy of an RPC client                   *)
(* (platform/rpc/policy.go). One Policy value is shared by all goroutines  *)
(* that call the same dependency; allow and record run under its mutex,    *)
(* so each is one step, and the call between them is not.                  *)
(*                                                                         *)
(* Time is kept as one bit: whether the open period has passed since       *)
(* openedAt was last set.                                                  *)
(***************************************************************************)
EXTENDS Naturals

CONSTANTS
  Callers,           \* the goroutines that share the policy
  MaxAttempts,       \* PolicyConfig.MaxAttempts
  BreakerFailures,   \* PolicyConfig.BreakerFailures
  CallsOutlive       \* whether a call may last longer than BreakerOpenPeriod

ASSUME PolicyAssumption ==
  /\ MaxAttempts \in Nat \ {0}
  /\ BreakerFailures \in Nat \ {0}
  /\ CallsOutlive \in BOOLEAN

VARIABLES
  consecutiveFailures,   \* saturates: it is only compared with BreakerFailures
  opened,                \* openedAt is not the zero time
  cooled,                \* BreakerOpenPeriod has passed since openedAt
  halfOpenInFlight,
  at,                    \* where each goroutine stands in Do
  attempt,               \* the attempt Do has reached
  limit,                 \* how many attempts this Do may make
  probing                \* the goroutine was let through by an open breaker

breakerVars == <<consecutiveFailures, opened, cooled, halfOpenInFlight>>
callerVars == <<at, attempt, limit, probing>>
vars == <<breakerVars, callerVars>>

(* The classes of Classify; no error at all is "unspecified". *)
FailureClass ==
  {"unspecified", "business", "canceled", "timeout", "unavailable", "internal"}

retryableClass(class) == class \in {"timeout", "unavailable"}

TypeOK ==
  /\ consecutiveFailures \in 0 .. BreakerFailures
  /\ opened \in BOOLEAN
  /\ cooled \in BOOLEAN
  /\ halfOpenInFlight \in BOOLEAN
  /\ at \in [Callers -> {"idle", "allow", "call", "backoff"}]
  /\ attempt \in [Callers -> 1 .. MaxAttempts]
  /\ limit \in [Callers -> {1, MaxAttempts}]
  /\ probing \in [Callers -> BOOLEAN]

Init ==
  /\ consecutiveFailures = 0
  /\ opened = FALSE
  /\ cooled = FALSE
  /\ halfOpenInFlight = FALSE
  /\ at = [c \in Callers |-> "idle"]
  /\ attempt = [c \in Callers |-> 1]
  /\ limit = [c \in Callers |-> 1]
  /\ probing = [c \in Callers |-> FALSE]

InFlight == {c \in Callers : at[c] = "call"}

-----------------------------------------------------------------------------
(* breaker.allow: does an attempt go through? *)

(* Slips of allow: no limit on probes, and no probe at all. *)
admitsEveryone == ~opened \/ cooled
admitsNoProbe == ~opened

admits == ~opened \/ (cooled /\ ~halfOpenInFlight)

(***************************************************************************)
(* breaker.record. A dependency failure ends a probe and, from the         *)
(* threshold on, opens the breaker anew; an answer, good or bad, closes    *)
(* it; a cancellation and an internal error leave everything as it is.     *)
(***************************************************************************)
record(class) ==
  \/ /\ retryableClass(class)
     /\ halfOpenInFlight' = FALSE
     /\ consecutiveFailures' =
          IF consecutiveFailures < BreakerFailures
          THEN consecutiveFailures + 1
          ELSE BreakerFailures
     /\ IF consecutiveFailures' = BreakerFailures
        THEN opened' = TRUE /\ cooled' = FALSE
        ELSE UNCHANGED <<opened, cooled>>
  \/ /\ class \in {"unspecified", "business"}
     /\ consecutiveFailures' = 0
     /\ opened' = FALSE
     /\ cooled' = FALSE
     /\ halfOpenInFlight' = FALSE
  \/ /\ class \in {"canceled", "internal"}
     /\ UNCHANGED breakerVars

-----------------------------------------------------------------------------
(* Policy.Do, step by step. *)

Begin(c, idempotent) ==
  /\ at[c] = "idle"
  /\ at' = [at EXCEPT ![c] = "allow"]
  /\ attempt' = [attempt EXCEPT ![c] = 1]
  /\ limit' = [limit EXCEPT ![c] = IF idempotent THEN MaxAttempts ELSE 1]
  /\ UNCHANGED <<breakerVars, probing>>

(* The context ends before an attempt or during the backoff. *)
ContextDone(c) ==
  /\ at[c] \in {"allow", "backoff"}
  /\ at' = [at EXCEPT ![c] = "idle"]
  /\ UNCHANGED <<breakerVars, attempt, limit, probing>>

Allow(c) ==
  /\ at[c] = "allow"
  /\ \/ /\ admits
        /\ at' = [at EXCEPT ![c] = "call"]
        /\ probing' = [probing EXCEPT ![c] = opened]
        /\ halfOpenInFlight' = (opened \/ halfOpenInFlight)
     \/ /\ ~admits
        /\ at' = [at EXCEPT ![c] = "idle"]
        /\ UNCHANGED <<probing, halfOpenInFlight>>
  /\ UNCHANGED <<consecutiveFailures, opened, cooled, attempt, limit>>

(* An off-by-one in the comparison that ends the loop. *)
againTooOften(c, class) == retryableClass(class) /\ attempt[c] <= limit[c]

again(c, class) == retryableClass(class) /\ attempt[c] < limit[c]

Return(c, class) ==
  /\ at[c] = "call"
  /\ record(class)
  /\ at' = [at EXCEPT ![c] = IF again(c, class) THEN "backoff" ELSE "idle"]
  /\ probing' = [probing EXCEPT ![c] = FALSE]
  /\ UNCHANGED <<attempt, limit>>

Retry(c) ==
  /\ at[c] = "backoff"
  /\ at' = [at EXCEPT ![c] = "allow"]
  /\ attempt' = [attempt EXCEPT ![c] = @ + 1]
  /\ UNCHANGED <<breakerVars, limit, probing>>

(***************************************************************************)
(* The open period ends. A call that was in flight when the breaker opened *)
(* has ended by then, unless calls may outlive the period: the deployed    *)
(* configuration gives a call 300 ms and the period 1000 ms, and nothing   *)
(* in PolicyConfig.Validate relates the two.                               *)
(***************************************************************************)
Elapse ==
  /\ opened /\ ~cooled
  /\ CallsOutlive \/ InFlight = {}
  /\ cooled' = TRUE
  /\ UNCHANGED <<consecutiveFailures, opened, halfOpenInFlight, callerVars>>

Next ==
  \/ Elapse
  \/ \E c \in Callers :
       \/ \E idempotent \in BOOLEAN : Begin(c, idempotent)
       \/ ContextDone(c)
       \/ Allow(c)
       \/ \E class \in FailureClass : Return(c, class)
       \/ Retry(c)

Spec == Init /\ [][Next]_vars

(***************************************************************************)
(* Time passes, tasks keep coming, a call ends at its deadline at the      *)
(* latest, and not every context is already over when Do looks at it.      *)
(***************************************************************************)
Fairness ==
  /\ WF_vars(Elapse)
  /\ \A c \in Callers :
       /\ WF_vars(\E idempotent \in BOOLEAN : Begin(c, idempotent))
       /\ SF_vars(Allow(c))
       /\ WF_vars(\E class \in FailureClass : Return(c, class))
       /\ WF_vars(Retry(c))

FairSpec == Spec /\ Fairness

-----------------------------------------------------------------------------
(* Properties. *)

(* While an open breaker has a probe out, no other call is in flight: the     *)
(* dependency that may just be recovering gets one request. Calls admitted    *)
(* before the breaker opened could break this by reporting late.              *)
OneProbe == \A c, d \in InFlight : probing[c] => d = c

(* An open breaker that has no probe out sends one or is closed, whatever     *)
(* becomes of earlier calls, retries and expired contexts.                    *)
ProbeGoesOut ==
  (opened /\ ~halfOpenInFlight) ~> (~opened \/ \E c \in InFlight : probing[c])

(* An open breaker always gets to try again: after the open period a probe is *)
(* let through, whatever became of the probe before it.                       *)
BreakerTriesAgain == opened ~> (~opened \/ \E c \in InFlight : probing[c])
=============================================================================
