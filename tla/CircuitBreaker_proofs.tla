------------------------- MODULE CircuitBreaker_proofs -------------------------
(***************************************************************************)
(* Theorems about CircuitBreaker, for any thresholds, timeout and number   *)
(* of overlapping requests.                                                *)
(***************************************************************************)
EXTENDS CircuitBreaker, TLAPS

\* The three facts are inductive together: types bound the counters, and the
\* two others say which fields a state of the circuit goes with.
BreakerInv == TypeOK /\ ClosedIsHealthy /\ OpenCanRecover

(***************************************************************************)
(* The operations of the breaker keep its fields consistent, whatever the  *)
(* request that calls them is doing.                                       *)
(***************************************************************************)
BreakerTypeOK == /\ state \in CircuitState
                 /\ failures \in 0..FailureThreshold
                 /\ successes \in 0..SuccessThreshold
                 /\ elapsed \in {NotOpened} \cup 0..RecoveryTimeout

BreakerFields == BreakerTypeOK /\ ClosedIsHealthy /\ OpenCanRecover

LEMMA AllowedKeeps ==
  ASSUME BreakerFields, Allowed PROVE BreakerFields'
  BY BreakerAssumption
     DEF BreakerFields, BreakerTypeOK, ClosedIsHealthy, OpenCanRecover, Allowed, breaker,
         CircuitState

LEMMA RecordSuccessKeeps ==
  ASSUME BreakerFields, RecordSuccess PROVE BreakerFields'
<1> USE BreakerAssumption DEF BreakerFields, BreakerTypeOK, RecordSuccess
<1>1. BreakerTypeOK'
  BY DEF UpTo, CircuitState
<1>2. ClosedIsHealthy' /\ OpenCanRecover'
  BY DEF ClosedIsHealthy, OpenCanRecover
<1> QED BY <1>1, <1>2

LEMMA RecordFailureKeeps ==
  ASSUME BreakerFields, RecordFailure PROVE BreakerFields'
<1> USE BreakerAssumption DEF BreakerFields, BreakerTypeOK, RecordFailure
<1>1. BreakerTypeOK'
  BY DEF UpTo, CircuitState
<1>2. ClosedIsHealthy' /\ OpenCanRecover'
  BY DEF ClosedIsHealthy, OpenCanRecover, UpTo, NotOpened, CircuitState
<1> QED BY <1>1, <1>2

LEMMA BreakerInit == Init => BreakerInv
  BY BreakerAssumption
     DEF Init, Fresh, BreakerInv, TypeOK, ClosedIsHealthy, OpenCanRecover, CircuitState

LEMMA BreakerStep == BreakerInv /\ [Next]_vars => BreakerInv'
<1> SUFFICES ASSUME BreakerInv, [Next]_vars PROVE BreakerInv'
  OBVIOUS
<1> USE BreakerAssumption
<1>0. BreakerFields
  BY DEF BreakerInv, TypeOK, BreakerFields, BreakerTypeOK
\* A request's step moves its own pc and applies one operation, or none.
<1>1. ASSUME NEW r \in Requests, Turn(r) PROVE BreakerInv'
  <2>1. /\ pc' \in [Requests -> {"idle", "admitted", "calling"}]
        /\ UNCHANGED <<cache, provider, admin>>
    BY <1>1 DEF Turn, Admit, Reject, AnswerFromCache, Call, Answer, Fail, Leave, Goto,
                BreakerInv, TypeOK
  <2>2. \/ Allowed \/ RecordSuccess \/ RecordFailure \/ UNCHANGED breaker
    BY <1>1 DEF Turn, Admit, Reject, AnswerFromCache, Call, Answer, Fail, Leave, Rejected
  <2>3. UNCHANGED breaker => BreakerFields'
    BY <1>0 DEF breaker, BreakerFields, BreakerTypeOK, ClosedIsHealthy, OpenCanRecover
  <2>4. BreakerFields'
    BY <1>0, <2>2, <2>3, AllowedKeeps, RecordSuccessKeeps, RecordFailureKeeps
  <2> QED BY <2>1, <2>4 DEF BreakerInv, TypeOK, BreakerFields, BreakerTypeOK
<1>2. CASE Tick
  BY <1>2 DEF Tick, BreakerInv, TypeOK, ClosedIsHealthy, OpenCanRecover, NotOpened
<1>3. CASE Settle
  BY <1>3 DEF Settle, breaker, BreakerInv, TypeOK, ClosedIsHealthy, OpenCanRecover
<1>4. CASE Administer
  <2>1. admin' \in 0..Admin /\ UNCHANGED <<cache, provider, pc>>
    BY <1>4 DEF Administer, BreakerInv, TypeOK
  <2>2. BreakerFields'
    BY <1>0, <1>4 DEF Administer, ForceState, CircuitState, NotOpened, BreakerFields,
                      BreakerTypeOK, ClosedIsHealthy, OpenCanRecover
  <2> QED BY <2>1, <2>2 DEF BreakerInv, TypeOK, BreakerFields, BreakerTypeOK
<1>5. CASE UNCHANGED vars
  BY <1>5 DEF vars, breaker, BreakerInv, TypeOK, ClosedIsHealthy, OpenCanRecover
<1> QED BY <1>1, <1>2, <1>3, <1>4, <1>5 DEF Next

(***************************************************************************)
(* A closed circuit is always below its failure threshold, for any         *)
(* interleaving of requests, late outcomes and admin calls.                *)
(***************************************************************************)
THEOREM ClosedStaysHealthy == Spec => []ClosedIsHealthy
<1>1. BreakerInv => ClosedIsHealthy
  BY DEF BreakerInv
<1> QED BY <1>1, BreakerInit, BreakerStep, PTL DEF Spec

(***************************************************************************)
(* No open circuit is stuck: it always knows when it opened.               *)
(***************************************************************************)
THEOREM OpenAlwaysRecovers == Spec => []OpenCanRecover
<1>1. BreakerInv => OpenCanRecover
  BY DEF BreakerInv
<1> QED BY <1>1, BreakerInit, BreakerStep, PTL DEF Spec
=============================================================================
