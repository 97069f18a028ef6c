------------------------ MODULE ProxyOrchestrator_proofs ------------------------
(***************************************************************************)
(* Theorems about ProxyOrchestrator, for any proxies, rules, thresholds,   *)
(* number of calls in flight and of administrative calls.                  *)
(***************************************************************************)
EXTENDS ProxyOrchestrator, SequenceTheorems, TLAPS

\* An entry whose circuit fields belong together.
Sound(e) == /\ ~e.open => e.failures < Threshold
            /\ e.open <=> e.wait # NoDeadline

SoundEntry == {e \in Entry : Sound(e)}

\* The inductive invariant: it needs nothing of the calls in flight, whatever
\* proxy and id they hold.
CircuitsSound == proxies \in Seq(SoundEntry)

-----------------------------------------------------------------------------
(* What the operations do to one entry *)

\* An update whose fields belong together gives a sound entry.
LEMMA UpdateFields ==
  ASSUME NEW e \in Entry, NEW f \in 0..Threshold, NEW o \in BOOLEAN,
         NEW w \in {NoDeadline} \cup 0..Cooldown,
         ~o => f < Threshold, o <=> w # NoDeadline
  PROVE  [e EXCEPT !.failures = f, !.open = o, !.wait = w] \in SoundEntry
<1>1. [e EXCEPT !.failures = f, !.open = o, !.wait = w] \in Entry
  BY DEF Entry
<1> QED BY <1>1 DEF SoundEntry, Sound, Entry

LEMMA ClosedSound == ASSUME NEW e \in Entry PROVE Closed(e) \in SoundEntry
<1>1. /\ 0 \in 0..Threshold /\ 0 < Threshold
      /\ NoDeadline \in {NoDeadline} \cup 0..Cooldown /\ FALSE \in BOOLEAN
  BY ProxyAssumption
<1> HIDE DEF NoDeadline
<1> QED BY <1>1, UpdateFields DEF Closed

LEMMA FreshSound ==
  ASSUME NEW id \in Ids, NEW p \in Proxies PROVE Fresh(id, p) \in SoundEntry
  BY ProxyAssumption DEF Fresh, SoundEntry, Sound, Entry, NoDeadline

(***************************************************************************)
(* record_failure() keeps count, flag and deadline together: the deadline  *)
(* is set with the flag, and an open circuit keeps the one it has.         *)
(***************************************************************************)
LEMMA FailureSound == ASSUME NEW e \in SoundEntry PROVE Failure(e) \in SoundEntry
<1>1. /\ e \in Entry /\ Sound(e) /\ e.open \in BOOLEAN /\ e.failures \in 0..Threshold
  BY DEF SoundEntry, Entry
<1>2. Counted(e) \in Entry
  <2>1. UpTo(Threshold, e.failures + 1) \in 0..Threshold
    BY <1>1, ProxyAssumption DEF UpTo
  <2> QED BY <1>1, <2>1 DEF Counted, Entry
<1>3. /\ Counted(e).open = e.open /\ Counted(e).wait = e.wait
      /\ Counted(e).failures = UpTo(Threshold, e.failures + 1)
  BY <1>1 DEF Counted, Entry
<1>4. CASE ~e.open /\ e.failures + 1 >= Threshold
  <2>1. ASSUME NEW d \in Entry, NEW w \in 0..Cooldown
        PROVE  [d EXCEPT !.open = TRUE, !.wait = w] \in Entry
    BY DEF Entry
  <2>2. Cooldown \in 0..Cooldown /\ Cooldown # NoDeadline
    BY ProxyAssumption DEF NoDeadline
  <2>3. Opened(Counted(e)) \in Entry
    BY <1>2, <2>1, <2>2 DEF Opened
  <2>4. Opened(Counted(e)).open = TRUE /\ Opened(Counted(e)).wait = Cooldown
    BY <1>2 DEF Opened, Entry
  <2> QED BY <1>4, <2>2, <2>3, <2>4 DEF Failure, SoundEntry, Sound
<1>5. CASE ~(~e.open /\ e.failures + 1 >= Threshold)
  <2>1. ~e.open => UpTo(Threshold, e.failures + 1) < Threshold
    BY <1>1, <1>5, ProxyAssumption DEF UpTo
  <2> QED BY <1>1, <1>2, <1>3, <1>5, <2>1 DEF Failure, SoundEntry, Sound
<1> QED BY <1>4, <1>5

\* A cooldown that ends while route() looks leaves the circuit open.
LEMMA LateProbeSound ==
  ASSUME NEW e \in SoundEntry, e.open
  PROVE  [e EXCEPT !.wait = 0] \in SoundEntry
<1>1. ASSUME NEW w \in 0..Cooldown, w # NoDeadline
      PROVE  [e EXCEPT !.wait = w] \in SoundEntry
  BY <1>1 DEF SoundEntry, Sound, Entry
<1>2. 0 \in 0..Cooldown /\ 0 # NoDeadline
  BY ProxyAssumption DEF NoDeadline
<1> QED BY <1>1, <1>2

LEMMA EnableSound ==
  ASSUME NEW e \in SoundEntry, NEW on \in BOOLEAN
  PROVE  [e EXCEPT !.enabled = on] \in SoundEntry
  BY DEF SoundEntry, Sound, Entry

LEMMA TickSound ==
  ASSUME NEW e \in SoundEntry
  PROVE  [e EXCEPT !.wait = IF @ > 0 THEN @ - 1 ELSE @] \in SoundEntry
<1> DEFINE w == IF e.wait > 0 THEN e.wait - 1 ELSE e.wait
<1>1. w \in {NoDeadline} \cup 0..Cooldown /\ (w # NoDeadline <=> e.wait # NoDeadline)
  BY ProxyAssumption DEF SoundEntry, Entry, NoDeadline
<1> QED BY <1>1 DEF SoundEntry, Sound, Entry

-----------------------------------------------------------------------------
(* What they do to the sequence *)

LEMMA AtIsIndex == ASSUME NEW id, Registered(id) PROVE At(id) \in DOMAIN proxies
  BY DEF Registered, At

LEMMA UpdateSound ==
  ASSUME CircuitsSound, NEW i \in DOMAIN proxies, NEW e \in SoundEntry,
         proxies' = [proxies EXCEPT ![i] = e]
  PROVE  CircuitsSound'
  BY DEF CircuitsSound

LEMMA EntrySound == ASSUME CircuitsSound, NEW i \in DOMAIN proxies
                    PROVE proxies[i] \in SoundEntry
  BY DEF CircuitsSound

LEMMA CircuitsInit == Init => CircuitsSound
<1> SUFFICES ASSUME Init PROVE CircuitsSound
  OBVIOUS
<1>1. PICK n \in 0..Len(Setup) :
        proxies = [i \in 1..n |-> Fresh(Setup[i].id, Setup[i].proxy)]
  BY DEF Init
<1>2. ASSUME NEW i \in 1..n PROVE Fresh(Setup[i].id, Setup[i].proxy) \in SoundEntry
  <2>1. i \in 1..Len(Setup)
    BY <1>1, ProxyAssumption
  <2>2. Setup[i] \in [id : Ids, proxy : Proxies]
    BY <2>1, ProxyAssumption, ElementOfSeq
  <2> QED BY <2>2, FreshSound
<1>3. n \in Nat
  BY <1>1, ProxyAssumption
<1> QED BY <1>1, <1>2, <1>3 DEF CircuitsSound

LEMMA CallStep ==
  ASSUME CircuitsSound, NEW c \in Callers, Call(c) PROVE CircuitsSound'
<1>1. ASSUME NEW tool \in Tools, Route(c, tool) PROVE CircuitsSound'
  <2>1. Pick(Candidates(tool)) \subseteq DOMAIN proxies
    BY DEF Pick, Candidates, InGroup
  <2>2. PICK i \in Pick(Candidates(tool)) : RouteTo(c, i)
    BY <1>1 DEF Route
  <2> QED BY <2>2 DEF RouteTo, CircuitsSound
<1>2. ASSUME NEW tool \in Tools, RouteLate(c, tool) PROVE CircuitsSound'
  <2>1. PICK i \in InGroup(tool) : /\ proxies[i].open
                                   /\ proxies' = [proxies EXCEPT ![i] =
                                                    [@ EXCEPT !.wait = 0]]
    BY <1>2 DEF RouteLate
  <2>2. i \in DOMAIN proxies
    BY DEF InGroup
  <2> QED BY <2>1, <2>2, EntrySound, LateProbeSound, UpdateSound
<1>3. ASSUME NEW success \in BOOLEAN, Record(c, success) PROVE CircuitsSound'
  <2>1. CASE Registered(as[c])
    <3> DEFINE e == proxies[At(as[c])]
    <3>1. At(as[c]) \in DOMAIN proxies /\ e \in SoundEntry
      BY <2>1, AtIsIndex, EntrySound
    <3>2. (IF success THEN Success(e) ELSE Failure(e)) \in SoundEntry
      BY <3>1, ClosedSound, FailureSound DEF Success, SoundEntry
    <3> QED BY <1>3, <2>1, <3>1, <3>2, UpdateSound DEF Record
  <2>2. CASE ~Registered(as[c])
    BY <1>3, <2>2 DEF Record, CircuitsSound
  <2> QED BY <2>1, <2>2
<1>4. ASSUME UNCHANGED proxies PROVE CircuitsSound'
  BY <1>4 DEF CircuitsSound
<1> QED BY <1>1, <1>2, <1>3, <1>4
        DEF Call, Serve, Refuse, Identify, Answer, Fail, Leave, vars

LEMMA AdministerStep ==
  ASSUME CircuitsSound, Administer PROVE CircuitsSound'
<1>1. ASSUME NEW id \in Ids, NEW p \in Proxies, AddProxy(id, p) PROVE CircuitsSound'
  BY <1>1, FreshSound DEF AddProxy, SetProxies, CircuitsSound
<1>2. ASSUME NEW id \in Ids, RemoveProxy(id) PROVE CircuitsSound'
  <2>1. At(id) \in 1..Len(proxies)
    BY <1>2, AtIsIndex DEF RemoveProxy, CircuitsSound
  <2>2. SubSeq(proxies, 1, At(id) - 1) \in Seq(SoundEntry)
    BY <2>1, SubSeqProperties DEF CircuitsSound
  <2>3. SubSeq(proxies, At(id) + 1, Len(proxies)) \in Seq(SoundEntry)
    BY <2>1, SubSeqProperties DEF CircuitsSound
  <2> QED BY <1>2, <2>2, <2>3, ConcatProperties DEF RemoveProxy, SetProxies, CircuitsSound
<1>3. ASSUME NEW id \in Ids, ResetCircuit(id) PROVE CircuitsSound'
  <2>1. At(id) \in DOMAIN proxies /\ proxies[At(id)] \in Entry
    BY <1>3, AtIsIndex, EntrySound DEF ResetCircuit, SoundEntry
  <2> QED BY <1>3, <2>1, ClosedSound, UpdateSound DEF ResetCircuit, SetProxies
<1>4. ASSUME NEW id \in Ids, NEW on \in BOOLEAN, EnableProxy(id, on) PROVE CircuitsSound'
  <2>1. At(id) \in DOMAIN proxies /\ proxies[At(id)] \in SoundEntry
    BY <1>4, AtIsIndex, EntrySound DEF EnableProxy
  <2> QED BY <1>4, <2>1, EnableSound, UpdateSound DEF EnableProxy, SetProxies
<1>5. ASSUME UNCHANGED proxies PROVE CircuitsSound'
  BY <1>5 DEF CircuitsSound
<1> QED BY <1>1, <1>2, <1>3, <1>4, <1>5
        DEF Administer, AddRule, RemoveRule, SetStrategy

LEMMA CircuitsStep == CircuitsSound /\ [Next]_vars => CircuitsSound'
<1> SUFFICES ASSUME CircuitsSound, [Next]_vars PROVE CircuitsSound'
  OBVIOUS
<1>1. ASSUME NEW c \in Callers, Call(c) PROVE CircuitsSound'
  BY <1>1, CallStep
<1>2. CASE Administer
  BY <1>2, AdministerStep
<1>3. CASE Tick
  <2>1. ASSUME NEW i \in DOMAIN proxies
        PROVE  [proxies[i] EXCEPT !.wait = IF @ > 0 THEN @ - 1 ELSE @] \in SoundEntry
    BY EntrySound, TickSound
  <2> QED BY <1>3, <2>1 DEF Tick, CircuitsSound
<1>4. ASSUME UNCHANGED proxies PROVE CircuitsSound'
  BY <1>4 DEF CircuitsSound
<1> QED BY <1>1, <1>2, <1>3, <1>4 DEF Next, Settle, vars

-----------------------------------------------------------------------------
(***************************************************************************)
(* A circuit that is not open is below its threshold, however calls, late  *)
(* outcomes and administration interleave.                                 *)
(***************************************************************************)
THEOREM BelowThreshold == Spec => []ClosedBelowThreshold
<1>1. CircuitsSound => ClosedBelowThreshold
  BY EntrySound DEF ClosedBelowThreshold, SoundEntry, Sound
<1> QED BY <1>1, CircuitsInit, CircuitsStep, PTL DEF Spec

(***************************************************************************)
(* An open circuit has a deadline and a closed one has none, so that no    *)
(* interleaving cuts a proxy off for ever.                                 *)
(***************************************************************************)
THEOREM DeadlineIfOpen == Spec => []OpenHasDeadline
<1>1. CircuitsSound => OpenHasDeadline
  BY EntrySound DEF OpenHasDeadline, SoundEntry, Sound
<1> QED BY <1>1, CircuitsInit, CircuitsStep, PTL DEF Spec
=============================================================================
