--------------------------- MODULE RpcPolicyProofs ---------------------------
(***************************************************************************)
(* The retry loop and the breaker's probe for any number of goroutines and *)
(* any thresholds. Neither TypeOK nor OneProbe is inductive: that attempt  *)
(* stays within MaxAttempts rests on the comparison made before the        *)
(* backoff, and that a probe is alone rests on nothing being in flight at  *)
(* the moment an open breaker lets it through.                             *)
(***************************************************************************)
EXTENDS RpcPolicy, TLAPS

(* Who waits to try again may try again. *)
RetryAllowed == \A c \in Callers : at[c] = "backoff" => attempt[c] < limit[c]

(* Who is in flight once the open period is over. *)
ProbeInv ==
  /\ halfOpenInFlight => opened /\ cooled
  /\ ~CallsOutlive =>
       /\ (opened /\ cooled /\ ~halfOpenInFlight) => InFlight = {}
       /\ \A c \in InFlight :
            /\ probing[c] => opened /\ cooled /\ halfOpenInFlight
            /\ (opened /\ cooled) => probing[c] /\ InFlight = {c}

PolicyInv == TypeOK /\ RetryAllowed /\ ProbeInv

(* What record does to the breaker, by the three kinds of outcome. *)
LEMMA RecordEffect ==
  ASSUME TypeOK, NEW class \in FailureClass, record(class)
  PROVE  /\ consecutiveFailures' \in 0 .. BreakerFailures
         /\ \/ UNCHANGED breakerVars
            \/ /\ halfOpenInFlight' = FALSE
               /\ \/ opened' = FALSE /\ cooled' = FALSE
                  \/ opened' = TRUE /\ cooled' = FALSE
                  \/ UNCHANGED <<opened, cooled>>
<1>1. CASE retryableClass(class)
  <2>1. consecutiveFailures' \in 0 .. BreakerFailures
    BY <1>1, PolicyAssumption DEF record, retryableClass, TypeOK
  <2> QED
    BY <1>1, <2>1 DEF record, retryableClass
<1>2. CASE class \in {"unspecified", "business"}
  BY <1>2, PolicyAssumption DEF record, retryableClass
<1>3. CASE class \in {"canceled", "internal"}
  BY <1>3 DEF record, retryableClass, TypeOK, breakerVars
<1> QED
  BY <1>1, <1>2, <1>3 DEF FailureClass, retryableClass

(* A new Policy has a closed breaker and no caller. *)
LEMMA PolicyInit == Init => PolicyInv
<1> SUFFICES ASSUME Init PROVE PolicyInv
  OBVIOUS
<1>1. 1 \in 1 .. MaxAttempts /\ 0 \in 0 .. BreakerFailures
  BY PolicyAssumption
<1>2. TypeOK
  BY <1>1 DEF Init, TypeOK
<1> QED
  BY <1>2 DEF Init, PolicyInv, RetryAllowed, ProbeInv, InFlight

(* Every step of Do, allow and record keeps the types. *)
LEMMA TypeStep == TypeOK /\ RetryAllowed /\ [Next]_vars => TypeOK'
<1> SUFFICES ASSUME TypeOK, RetryAllowed, [Next]_vars PROVE TypeOK'
  OBVIOUS
<1> USE DEF TypeOK, breakerVars, callerVars
<1>1. CASE Elapse
  BY <1>1 DEF Elapse
<1>2. ASSUME NEW c \in Callers, NEW idempotent \in BOOLEAN, Begin(c, idempotent)
      PROVE  TypeOK'
  BY <1>2, PolicyAssumption DEF Begin
<1>3. ASSUME NEW c \in Callers, ContextDone(c) PROVE TypeOK'
  BY <1>3 DEF ContextDone
<1>4. ASSUME NEW c \in Callers, Allow(c) PROVE TypeOK'
  BY <1>4 DEF Allow
<1>5. ASSUME NEW c \in Callers, NEW class \in FailureClass, Return(c, class) PROVE TypeOK'
  <2>1. /\ consecutiveFailures' \in 0 .. BreakerFailures
        /\ opened' \in BOOLEAN /\ cooled' \in BOOLEAN /\ halfOpenInFlight' \in BOOLEAN
    BY <1>5, RecordEffect DEF Return
  <2> QED
    BY <1>5, <2>1 DEF Return
<1>6. ASSUME NEW c \in Callers, Retry(c) PROVE TypeOK'
  <2>1. attempt[c] + 1 \in 1 .. MaxAttempts
    BY <1>6, PolicyAssumption DEF Retry, RetryAllowed
  <2> QED
    BY <1>6, <2>1 DEF Retry
<1>7. CASE UNCHANGED vars
  BY <1>7 DEF vars
<1> QED
  BY <1>1, <1>2, <1>3, <1>4, <1>5, <1>6, <1>7 DEF Next

(* Do only sleeps before an attempt that it may still make. *)
LEMMA RetryAllowedStep ==
  ASSUME PolicyInv, Next
  PROVE  RetryAllowed'
<1> USE DEF PolicyInv, TypeOK, RetryAllowed, breakerVars, callerVars
<1>1. CASE Elapse
  BY <1>1 DEF Elapse
<1>2. ASSUME NEW c \in Callers, NEW idempotent \in BOOLEAN, Begin(c, idempotent)
      PROVE  RetryAllowed'
  BY <1>2 DEF Begin
<1>3. ASSUME NEW c \in Callers, ContextDone(c) \/ Allow(c) \/ Retry(c) PROVE RetryAllowed'
  BY <1>3 DEF ContextDone, Allow, Retry
<1>4. ASSUME NEW c \in Callers, NEW class \in FailureClass, Return(c, class)
      PROVE  RetryAllowed'
  BY <1>4 DEF Return, again
<1> QED
  BY <1>1, <1>2, <1>3, <1>4 DEF Next

(* A probe in flight is marked in the breaker and stays alone. *)
LEMMA ProbeStep ==
  ASSUME PolicyInv, Next
  PROVE  ProbeInv'
<1> USE DEF PolicyInv, TypeOK, ProbeInv, InFlight, breakerVars, callerVars
<1>1. CASE Elapse
  BY <1>1 DEF Elapse
<1>2. ASSUME NEW c \in Callers, NEW idempotent \in BOOLEAN, Begin(c, idempotent)
      PROVE  ProbeInv'
  BY <1>2 DEF Begin
<1>3. ASSUME NEW c \in Callers, ContextDone(c) PROVE ProbeInv'
  BY <1>3 DEF ContextDone
<1>4. ASSUME NEW c \in Callers, Allow(c) PROVE ProbeInv'
  <2>1. CASE ~admits
    BY <1>4, <2>1 DEF Allow
  <2>2. CASE ~opened
    BY <1>4, <2>2 DEF Allow, admits
  <2>3. CASE opened /\ cooled /\ ~halfOpenInFlight
    BY <1>4, <2>3, ZenonT(40) DEF Allow, admits
  <2> QED
    BY <2>1, <2>2, <2>3 DEF admits
<1>5. ASSUME NEW c \in Callers, NEW class \in FailureClass, Return(c, class) PROVE ProbeInv'
  <2>1. InFlight' = InFlight \ {c}
    BY <1>5 DEF Return
  <2> QED
    BY <1>5, <2>1, RecordEffect DEF Return
<1>6. ASSUME NEW c \in Callers, Retry(c) PROVE ProbeInv'
  BY <1>6 DEF Retry
<1> QED
  BY <1>1, <1>2, <1>3, <1>4, <1>5, <1>6 DEF Next

(* Every step keeps the invariant. *)
LEMMA PolicyStep == PolicyInv /\ [Next]_vars => PolicyInv'
<1>1. ASSUME PolicyInv, Next PROVE PolicyInv'
  BY <1>1, TypeStep, RetryAllowedStep, ProbeStep DEF PolicyInv
<1>2. ASSUME PolicyInv, UNCHANGED vars PROVE PolicyInv'
  BY <1>2 DEF PolicyInv, TypeOK, RetryAllowed, ProbeInv, InFlight, vars, breakerVars, callerVars
<1> QED
  BY <1>1, <1>2

(* The inductive invariant of Policy.Do and its breaker holds throughout.     *)
THEOREM PolicyInvariant == Spec => []PolicyInv
BY PolicyInit, PolicyStep, PTL DEF Spec

(* Policy.Do keeps its types: in particular no call makes more attempts than  *)
(* MaxAttempts, however failures, cancellations and open breakers interleave. *)
THEOREM PolicyTypeCorrect == Spec => []TypeOK
<1>1. PolicyInv => TypeOK
  BY DEF PolicyInv
<1> QED
  BY <1>1, PolicyInvariant, PTL

(* If calls end within the open period, a probe of breaker.allow is the only  *)
(* call in flight, for any number of goroutines sharing the policy.           *)
THEOREM ProbeIsAlone == Spec => [](~CallsOutlive => OneProbe)
<1>1. ASSUME PolicyInv PROVE ~CallsOutlive => OneProbe
  BY <1>1 DEF PolicyInv, ProbeInv, OneProbe
<1> QED
  BY <1>1, PolicyInvariant, PTL
=============================================================================
