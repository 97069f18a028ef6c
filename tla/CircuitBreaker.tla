---------------------------- MODULE CircuitBreaker ----------------------------
(***************************************************************************)
(* The circuit breaker of one provider and the agent runners that ask it.  *)
(* Each operation of the breaker is atomic (the registry's write lock), a  *)
(* runner's request is not: it asks, may be served from the cache or be    *)
(* blocked, calls the provider, and records the outcome against whatever   *)
(* state the breaker is in by then.                                        *)
(*                                                                         *)
(* Time is counted in ticks since the circuit opened.  The two counters    *)
(* that are compared with a threshold stop at it; the totals that only     *)
(* status() shows are left out.                                            *)
(***************************************************************************)
EXTENDS Integers

CONSTANTS
  Requests,          \* the requests that may be in flight at once
  FailureThreshold,  \* CircuitConfig::failure_threshold
  SuccessThreshold,  \* CircuitConfig::success_threshold
  RecoveryTimeout,   \* CircuitConfig::recovery_timeout, in ticks
  Admin              \* bound: how often force_state, reset or register is called

ASSUME BreakerAssumption ==
  /\ FailureThreshold \in Nat \ {0}
  /\ SuccessThreshold \in Nat \ {0}
  /\ RecoveryTimeout \in Nat
  /\ Admin \in Nat

VARIABLES
  state,      \* CircuitState
  failures,   \* consecutive_failures, at most FailureThreshold
  successes,  \* consecutive_successes, at most SuccessThreshold
  elapsed,    \* ticks since opened_at, at most RecoveryTimeout, or NotOpened
  cache,      \* whether the runners have a response cache, fixed from the start
  provider,   \* what the provider does: "flaky" until it settles, "up" or "down"
  pc,         \* pc[r]: "idle", "admitted" (allow_request said yes) or "calling"
  admin       \* how many admin calls were made

breaker == <<state, failures, successes, elapsed>>
vars    == <<breaker, cache, provider, pc, admin>>

NotOpened    == -1
CircuitState == {"closed", "open", "halfopen"}

TypeOK ==
  /\ state \in CircuitState
  /\ failures \in 0..FailureThreshold
  /\ successes \in 0..SuccessThreshold
  /\ elapsed \in {NotOpened} \cup 0..RecoveryTimeout
  /\ cache \in BOOLEAN
  /\ provider \in {"flaky", "up", "down"}
  /\ pc \in [Requests -> {"idle", "admitted", "calling"}]
  /\ admin \in 0..Admin

UpTo(bound, n) == IF n < bound THEN n ELSE bound

-----------------------------------------------------------------------------
(* The breaker *)

\* CircuitBreaker::new, and what reset() and register() put in its place.
Fresh == state = "closed" /\ failures = 0 /\ successes = 0 /\ elapsed = NotOpened

\* Open without opened_at never recovers.
TimeoutElapsed == elapsed # NotOpened /\ elapsed >= RecoveryTimeout

\* Slip: every probe restarts the count of successes.
Allowed_RestartsCount ==
  \/ state = "closed" /\ UNCHANGED breaker
  \/ /\ state = "halfopen" \/ TimeoutElapsed
     /\ state # "closed"
     /\ state' = "halfopen" /\ successes' = 0
     /\ UNCHANGED <<failures, elapsed>>

\* allow_request() returns true.
Allowed ==
  \/ state # "open" /\ UNCHANGED breaker
  \/ /\ state = "open" /\ TimeoutElapsed
     /\ state' = "halfopen" /\ successes' = 0
     /\ UNCHANGED <<failures, elapsed>>

\* allow_request() returns false.
Rejected == state = "open" /\ ~TimeoutElapsed /\ UNCHANGED breaker

RecordSuccess ==
  LET enough == successes + 1 >= SuccessThreshold
  IN  /\ failures' = 0
      /\ successes' = UpTo(SuccessThreshold, successes + 1)
      /\ state' = CASE state = "halfopen" /\ enough -> "closed"
                    [] state = "open"               -> "halfopen"
                    [] OTHER                        -> state
      /\ elapsed' = IF state = "halfopen" /\ enough THEN NotOpened ELSE elapsed

\* Slips: a failed probe opens the circuit without restarting its clock; a
\* circuit opens one failure late; a failed probe leaves the circuit half-open.
RecordFailure_KeepsClock ==
  LET opens == state = "halfopen" \/ (state = "closed" /\ failures + 1 >= FailureThreshold)
  IN  /\ failures' = UpTo(FailureThreshold, failures + 1)
      /\ successes' = 0
      /\ state' = IF opens THEN "open" ELSE state
      /\ elapsed' = IF opens /\ state = "closed" THEN 0 ELSE elapsed

RecordFailure_OpensLate ==
  /\ failures' = UpTo(FailureThreshold, failures + 1)
  /\ successes' = 0
  /\ IF state = "halfopen" \/ (state = "closed" /\ failures >= FailureThreshold)
     THEN state' = "open" /\ elapsed' = 0
     ELSE UNCHANGED <<state, elapsed>>

RecordFailure_ClosesProbe ==
  LET opens == state = "closed" /\ failures + 1 >= FailureThreshold
  IN  /\ failures' = UpTo(FailureThreshold, failures + 1)
      /\ successes' = 0
      /\ state' = CASE opens -> "open" [] state = "halfopen" -> "closed" [] OTHER -> state
      /\ elapsed' = IF opens THEN 0 ELSE elapsed

RecordFailure ==
  LET opens == state = "halfopen" \/ (state = "closed" /\ failures + 1 >= FailureThreshold)
  IN  /\ failures' = UpTo(FailureThreshold, failures + 1)
      /\ successes' = 0
      /\ state' = IF opens THEN "open" ELSE state
      /\ elapsed' = IF opens THEN 0 ELSE elapsed

\* force_state keeps the counters, but for the failures when it closes.
ForceState(s) ==
  /\ state' = s
  /\ elapsed' = CASE s = "open" -> 0 [] s = "closed" -> NotOpened [] OTHER -> elapsed
  /\ failures' = IF s = "closed" THEN 0 ELSE failures
  /\ UNCHANGED successes

-----------------------------------------------------------------------------
Init == /\ Fresh
        /\ cache \in BOOLEAN
        /\ provider = "flaky"
        /\ pc = [r \in Requests |-> "idle"]
        /\ admin = 0

Goto(r, from, to) == pc[r] = from /\ pc' = [pc EXCEPT ![r] = to]

(* One turn of AgentRunner::run *)

Admit(r)  == Goto(r, "idle", "admitted") /\ Allowed /\ UNCHANGED <<cache, provider, admin>>
Reject(r) == pc[r] = "idle" /\ Rejected /\ UNCHANGED <<cache, provider, pc, admin>>

\* A cached answer counts as a success although nothing was called.
AnswerFromCache(r) ==
  /\ cache
  /\ Goto(r, "admitted", "idle")
  /\ RecordSuccess
  /\ UNCHANGED <<cache, provider, admin>>

Call(r) == Goto(r, "admitted", "calling") /\ UNCHANGED <<breaker, cache, provider, admin>>

Answer(r) ==
  /\ provider # "down"
  /\ Goto(r, "calling", "idle")
  /\ RecordSuccess
  /\ UNCHANGED <<cache, provider, admin>>

Fail(r) ==
  /\ provider # "up"
  /\ Goto(r, "calling", "idle")
  /\ RecordFailure
  /\ UNCHANGED <<cache, provider, admin>>

\* Input guardrails block the turn, or the caller drops the future: nothing is
\* recorded.
Leave(r) ==
  /\ \/ Goto(r, "admitted", "idle")
     \/ Goto(r, "calling", "idle")
  /\ UNCHANGED <<breaker, cache, provider, admin>>

Turn(r) == \/ Admit(r) \/ Reject(r) \/ AnswerFromCache(r) \/ Call(r)
           \/ Answer(r) \/ Fail(r) \/ Leave(r)

(* The environment *)

Tick == /\ elapsed \in 0..RecoveryTimeout - 1
        /\ elapsed' = elapsed + 1
        /\ UNCHANGED <<state, failures, successes, cache, provider, pc, admin>>

Settle == /\ provider = "flaky"
          /\ provider' \in {"up", "down"}
          /\ UNCHANGED <<breaker, cache, pc, admin>>

\* force_state; reset() and register() are the second disjunct.
Administer ==
  /\ admin < Admin
  /\ admin' = admin + 1
  /\ \/ \E s \in CircuitState : ForceState(s)
     \/ state' = "closed" /\ failures' = 0 /\ successes' = 0 /\ elapsed' = NotOpened
  /\ UNCHANGED <<cache, provider, pc>>

Next == \/ \E r \in Requests : Turn(r)
        \/ Tick \/ Settle \/ Administer

\* Time passes; runners keep asking; and not every request that is admitted
\* again and again is blocked, served from the cache or dropped for ever.
Fairness ==
  /\ WF_vars(Tick)
  /\ \A r \in Requests : /\ WF_vars(Admit(r))
                         /\ SF_vars(Call(r))
                         /\ SF_vars(Answer(r) \/ Fail(r))

Spec     == Init /\ [][Next]_vars
FairSpec == Spec /\ Fairness

-----------------------------------------------------------------------------
(* Properties *)

(***************************************************************************)
(* A closed circuit has seen fewer than failure_threshold failures since   *)
(* the last success, whatever admin calls and late outcomes came between:  *)
(* consecutive_failures and state are updated together on every path.      *)
(***************************************************************************)
ClosedIsHealthy == state = "closed" => failures < FailureThreshold

(***************************************************************************)
(* An open circuit knows when it opened.  allow_request() rejects for ever *)
(* when opened_at is None.                                                 *)
(***************************************************************************)
OpenCanRecover == state = "open" => elapsed # NotOpened

(***************************************************************************)
(* Once the provider answers every call, the circuit closes and stays so.  *)
(***************************************************************************)
Recovers == [](provider = "up" => <>[](state = "closed"))

(***************************************************************************)
(* Once the provider fails every call, the circuit stops being closed for  *)
(* good: each probe opens it again.  Only without a cache, for a cached    *)
(* answer counts as a success and may close the circuit of a dead provider.*)
(***************************************************************************)
CutsOff == [](provider = "down" /\ ~cache => <>[](state # "closed"))
=============================================================================
