--------------------------- MODULE ProxyOrchestrator ---------------------------
(***************************************************************************)
(* The MCP proxy orchestrator: routing rules pick a group, a strategy      *)
(* picks a proxy of the group, and each proxy has a circuit breaker.       *)
(*                                                                         *)
(* execute() takes the lock of the proxies once to route, again to find    *)
(* the id of the proxy it was given, and again to record the outcome under *)
(* that id; in between a proxy may be removed, added or reset, and other   *)
(* calls record theirs.                                                    *)
(*                                                                         *)
(* Left out: total_calls and last_call, so that LeastLoaded, which compares*)
(* the totals, may pick any candidate; agent roles, which narrow a rule as *)
(* its tool pattern does.  PatternBased picks as Fixed does.               *)
(***************************************************************************)
EXTENDS Integers, Sequences, FiniteSets

CONSTANTS
  Callers,      \* the calls that may be in flight at once
  Ids,          \* proxy ids
  Proxies,      \* McpProxy instances
  Setup,        \* the proxies that are added before traffic starts: [id, proxy]
  Group,        \* Group[id]: the group an id is added to
  Tools,        \* the tools that are called
  RuleBook,     \* RuleBook[name]: [tools, target, priority], the routing rules
  Threshold,    \* CircuitBreakerConfig::failure_threshold
  Cooldown,     \* CircuitBreakerConfig::cooldown_secs, in ticks
  Admin,        \* bound: how many administrative calls are made
  NoId          \* the id of a proxy that is no longer registered

ASSUME ProxyAssumption ==
  /\ Threshold \in Nat \ {0} /\ Cooldown \in Nat
  /\ Admin \in Nat
  /\ NoId \notin Ids
  /\ Setup \in Seq([id : Ids, proxy : Proxies])

VARIABLES
  proxies,   \* the registered proxies, a sequence of Entry
  rules,     \* the names of the rules, in the order they were added
  strategy,  \* "Fixed" (or PatternBased), "RoundRobin" or "LeastLoaded"
  counter,   \* round_robin_counter, modulo Period
  health,    \* health[p]: "flaky" until it settles, "up" or "down"
  pc,        \* pc[c]: "idle", "routed" or "calling"
  using,     \* using[c]: the proxy the call was routed to
  as,        \* as[c]: the id its outcome will be recorded under
  admin      \* how many administrative calls were made

calls  == <<pc, using, as>>
config == <<rules, strategy>>
vars   == <<proxies, config, counter, health, calls, admin>>

NoDeadline == -1
Strategies == {"Fixed", "RoundRobin", "LeastLoaded"}

\* A multiple of every number of candidates, so that the counter modulo it
\* picks what the counter picks (the u64 itself wraps after 2^64 calls).
Period == IF Cardinality(Ids) <= 2 THEN 2 ELSE 12

\* ManagedProxy.  wait counts down to circuit_open_until, failures stops at
\* Threshold.
Entry == [id : Ids, proxy : Proxies, enabled : BOOLEAN,
          failures : 0..Threshold, open : BOOLEAN,
          wait : {NoDeadline} \cup 0..Cooldown]

TypeOK ==
  /\ proxies \in Seq(Entry)
  /\ rules \in Seq(DOMAIN RuleBook)
  /\ strategy \in Strategies
  /\ counter \in 0..Period - 1
  /\ health \in [Proxies -> {"flaky", "up", "down"}]
  /\ pc \in [Callers -> {"idle", "routed", "calling"}]
  /\ \A c \in Callers : pc[c] # "idle" => using[c] \in Proxies
  /\ \A c \in Callers : pc[c] = "calling" => as[c] \in Ids \cup {NoId}
  /\ admin \in 0..Admin

UpTo(bound, n) == IF n < bound THEN n ELSE bound

-----------------------------------------------------------------------------
(* The circuits *)

Closed(e) == [e EXCEPT !.failures = 0, !.open = FALSE, !.wait = NoDeadline]

EffectivelyOpen(e) == e.open /\ e.wait # 0

\* Slip: the count is reset and the circuit forgotten.
Success_KeepsOpen(e) == [e EXCEPT !.failures = 0]

Success(e) == Closed(e)

Counted(e) == [e EXCEPT !.failures = UpTo(Threshold, @ + 1)]
Opened(e)  == [e EXCEPT !.open = TRUE, !.wait = Cooldown]

\* Slip: the circuit opens one failure late.
Failure_OpensLate(e) ==
  IF ~e.open /\ e.failures >= Threshold THEN Opened(Counted(e)) ELSE Counted(e)

\* Only a circuit that is not open yet opens: the failure of a call that was let
\* through after the cooldown changes the count alone.
Failure(e) ==
  IF ~e.open /\ e.failures + 1 >= Threshold THEN Opened(Counted(e)) ELSE Counted(e)

Registered(id) == \E i \in DOMAIN proxies : proxies[i].id = id
At(id)         == CHOOSE i \in DOMAIN proxies : proxies[i].id = id

\* A proxy may be registered under several ids; its outcomes go to the first.
Places(p) == {i \in DOMAIN proxies : proxies[i].proxy = p}
First(p)  == CHOOSE i \in Places(p) : \A j \in Places(p) : i <= j

-----------------------------------------------------------------------------
(* Routing *)

\* The rule of highest priority that matches, the first of them on a tie (the
\* sort is stable); without rules the group is literally "*".
Matching(tool) == {i \in DOMAIN rules : tool \in RuleBook[rules[i]].tools}
Priority(i)    == RuleBook[rules[i]].priority

TargetGroup(tool) ==
  IF rules = <<>> THEN {"*"}
  ELSE {RuleBook[rules[i]].target :
          i \in {m \in Matching(tool) : \A n \in Matching(tool) :
                   \/ Priority(n) < Priority(m)
                   \/ Priority(n) = Priority(m) /\ m <= n}}

InGroup(tool) == {i \in DOMAIN proxies :
                    proxies[i].enabled /\ Group[proxies[i].id] \in TargetGroup(tool)}

Candidates(tool) == {i \in InGroup(tool) : ~EffectivelyOpen(proxies[i])}

\* PatternBased and Fixed take the first candidate, RoundRobin the one that the
\* counter points to, LeastLoaded any.
Rank(i, S) == Cardinality({j \in S : j < i})

Pick(S) == {i \in S : CASE strategy = "Fixed"       -> Rank(i, S) = 0
                        [] strategy = "RoundRobin"  -> Rank(i, S) = counter % Cardinality(S)
                        [] strategy = "LeastLoaded" -> TRUE}

-----------------------------------------------------------------------------
Fresh(id, p) == [id |-> id, proxy |-> p, enabled |-> TRUE, failures |-> 0,
                 open |-> FALSE, wait |-> NoDeadline]

\* Traffic starts once the first proxies of Setup and one rule, or none, were
\* added.
Init ==
  /\ \E n \in 0..Len(Setup) :
       proxies = [i \in 1..n |-> Fresh(Setup[i].id, Setup[i].proxy)]
  /\ rules \in {<<>>} \cup {<<r>> : r \in DOMAIN RuleBook}
  /\ strategy \in Strategies
  /\ counter = 0
  /\ health = [p \in Proxies |-> "flaky"]
  /\ pc = [c \in Callers |-> "idle"]
  /\ using = [c \in Callers |-> NoId]
  /\ as = [c \in Callers |-> NoId]
  /\ admin = 0

(* One call of execute() *)

RouteTo(c, i) ==
  /\ pc' = [pc EXCEPT ![c] = "routed"]
  /\ using' = [using EXCEPT ![c] = proxies[i].proxy]
  /\ UNCHANGED <<proxies, config, health, as, admin>>

\* A proxy whose cooldown is over is a candidate like any other, for any number
\* of calls: half_open_max_calls is never read.
Route(c, tool) ==
  /\ pc[c] = "idle"
  /\ Candidates(tool) # {}
  /\ \E i \in Pick(Candidates(tool)) : RouteTo(c, i)
  /\ counter' = IF strategy = "RoundRobin" THEN (counter + 1) % Period ELSE counter

\* There is no candidate, but a cooldown ends before route() looks again: the
\* first such proxy is taken whatever the strategy.
RouteLate(c, tool) ==
  /\ pc[c] = "idle"
  /\ Candidates(tool) = {}
  /\ \E i \in InGroup(tool) :
       /\ proxies[i].open /\ proxies[i].wait = 1
       /\ proxies' = [proxies EXCEPT ![i] = [@ EXCEPT !.wait = 0]]
       /\ using' = [using EXCEPT ![c] = proxies[i].proxy]
  /\ pc' = [pc EXCEPT ![c] = "routed"]
  /\ UNCHANGED <<config, counter, health, as, admin>>

\* Nothing to route to, or no rule matches: an error, and nothing changes.
Refuse(c, tool) == pc[c] = "idle" /\ Candidates(tool) = {} /\ UNCHANGED vars

\* The id is looked up under a new lock; the proxy may be gone.
Identify(c) ==
  /\ pc[c] = "routed"
  /\ pc' = [pc EXCEPT ![c] = "calling"]
  /\ as' = [as EXCEPT ![c] = IF Places(using[c]) = {} THEN NoId
                              ELSE proxies[First(using[c])].id]
  /\ UNCHANGED <<proxies, config, counter, health, using, admin>>

\* The outcome goes to whatever is registered under the id by now.
Record(c, success) ==
  /\ pc[c] = "calling"
  /\ pc' = [pc EXCEPT ![c] = "idle"]
  /\ using' = [using EXCEPT ![c] = NoId]
  /\ as' = [as EXCEPT ![c] = NoId]
  /\ proxies' = IF Registered(as[c])
                THEN [proxies EXCEPT ![At(as[c])] = IF success THEN Success(@) ELSE Failure(@)]
                ELSE proxies
  /\ UNCHANGED <<config, counter, health, admin>>

Answer(c) == pc[c] = "calling" /\ health[using[c]] # "down" /\ Record(c, TRUE)
Fail(c)   == pc[c] = "calling" /\ health[using[c]] # "up" /\ Record(c, FALSE)

\* The caller drops the future while the proxy works: nothing is recorded.
Leave(c) ==
  /\ pc[c] = "calling"
  /\ pc' = [pc EXCEPT ![c] = "idle"]
  /\ using' = [using EXCEPT ![c] = NoId]
  /\ as' = [as EXCEPT ![c] = NoId]
  /\ UNCHANGED <<proxies, config, counter, health, admin>>

(* Administration *)

SetProxies(new) == proxies' = new /\ UNCHANGED config

AddProxy(id, p) ==
  /\ ~Registered(id)
  /\ SetProxies(Append(proxies, Fresh(id, p)))

RemoveProxy(id) ==
  /\ Registered(id)
  /\ SetProxies(SubSeq(proxies, 1, At(id) - 1) \o SubSeq(proxies, At(id) + 1, Len(proxies)))

EnableProxy(id, on) ==
  /\ Registered(id)
  /\ SetProxies([proxies EXCEPT ![At(id)] = [@ EXCEPT !.enabled = on]])

\* Slip: the deadline is cleared and the flag is not.
ResetCircuit_StaysOpen(id) ==
  /\ Registered(id)
  /\ SetProxies([proxies EXCEPT ![At(id)] = [Closed(@) EXCEPT !.open = proxies[At(id)].open]])

ResetCircuit(id) ==
  /\ Registered(id)
  /\ SetProxies([proxies EXCEPT ![At(id)] = Closed(@)])

AddRule(name) == rules' = Append(rules, name) /\ UNCHANGED <<proxies, strategy>>

RemoveRule(name) ==
  /\ rules' = SelectSeq(rules, LAMBDA r : r # name)
  /\ UNCHANGED <<proxies, strategy>>

SetStrategy(s) == strategy' = s /\ UNCHANGED <<proxies, rules>>

Administer ==
  /\ admin < Admin
  /\ admin' = admin + 1
  /\ \/ \E id \in Ids, p \in Proxies : AddProxy(id, p)
     \/ \E id \in Ids : \/ RemoveProxy(id) \/ ResetCircuit(id)
                        \/ \E on \in BOOLEAN : EnableProxy(id, on)
     \/ \E name \in DOMAIN RuleBook : AddRule(name) \/ RemoveRule(name)
     \/ \E s \in Strategies : SetStrategy(s)
  /\ UNCHANGED <<counter, health, calls>>

(* The environment *)

\* The wall clock moves every deadline one tick nearer.
Tick ==
  /\ \E i \in DOMAIN proxies : proxies[i].wait > 0
  /\ proxies' = [i \in DOMAIN proxies |->
       [proxies[i] EXCEPT !.wait = IF @ > 0 THEN @ - 1 ELSE @]]
  /\ UNCHANGED <<config, counter, health, calls, admin>>

Settle(p) ==
  /\ health[p] = "flaky"
  /\ \E h \in {"up", "down"} : health' = [health EXCEPT ![p] = h]
  /\ UNCHANGED <<proxies, config, counter, calls, admin>>

Serve(c) == \E tool \in Tools : Route(c, tool) \/ RouteLate(c, tool)

Call(c) == Serve(c) \/ (\E tool \in Tools : Refuse(c, tool))
           \/ Identify(c) \/ Answer(c) \/ Fail(c) \/ Leave(c)

Next == (\E c \in Callers : Call(c)) \/ Administer \/ Tick \/ (\E p \in Proxies : Settle(p))

\* Time passes, calls keep coming, and not every call to a proxy is dropped.
Fairness ==
  /\ WF_vars(Tick)
  /\ \A c \in Callers : /\ WF_vars(Serve(c))
                        /\ WF_vars(Identify(c))
                        /\ \A p \in Proxies :
                             SF_vars(using[c] = p /\ (Answer(c) \/ Fail(c)))

Spec     == Init /\ [][Next]_vars
FairSpec == Spec /\ Fairness

-----------------------------------------------------------------------------
(* Properties *)

(***************************************************************************)
(* Whatever administrators, late outcomes and other calls did in between,  *)
(* a closed circuit is below its threshold: record_failure() opens only a  *)
(* circuit that is not open, so a count left behind would have to pass the *)
(* threshold exactly once.                                                 *)
(***************************************************************************)
ClosedBelowThreshold == \A i \in DOMAIN proxies :
  ~proxies[i].open => proxies[i].failures < Threshold

(***************************************************************************)
(* A proxy is never cut off for ever: an open circuit has a deadline, and  *)
(* is_circuit_effectively_open() holds for ever when there is none.        *)
(***************************************************************************)
OpenHasDeadline == \A i \in DOMAIN proxies :
  proxies[i].open <=> proxies[i].wait # NoDeadline

(***************************************************************************)
(* Under round robin a proxy that works again is found again: its circuit  *)
(* closes and stays closed, although calls go to failing proxies too.  The *)
(* circuit is that of the first id the proxy is registered under, the only *)
(* one that its outcomes reach.                                            *)
(***************************************************************************)
Reachable(id) ==
  /\ strategy = "RoundRobin"
  /\ Registered(id) /\ proxies[At(id)].enabled /\ health[proxies[At(id)].proxy] = "up"
  /\ At(id) = First(proxies[At(id)].proxy)
  /\ \A tool \in Tools : Group[id] \in TargetGroup(tool)

RoundRobinFinds == \A id \in Ids :
  <>[]Reachable(id) => <>[](Registered(id) /\ ~proxies[At(id)].open)
=============================================================================
