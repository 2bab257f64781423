---------------------------- MODULE BeliefProofs ----------------------------
(***************************************************************************)
(* What the operator resolved is what decisions rest on, for every table   *)
(* of fixtures, every observation and every answer of a model.             *)
(***************************************************************************)
EXTENDS RuntimeProofs

\* The last orientation was made of an observation, and agrees with the
\* operator's resolutions.
Grounded(s) ==
  s.orientation # None =>
    /\ s.obs # None
    /\ \A k \in Keys : s.resolved[k] # None =>
         /\ s.orientation.facts[k] # None
         /\ s.orientation.facts[k].value = s.resolved[k]

LEMMA SameMind ==
  ASSUME NEW s, NEW t, Grounded(s), t.orientation = s.orientation,
         t.resolved = s.resolved, s.obs # None => t.obs # None
  PROVE  Grounded(t)
BY DEF Grounded

LEMMA EscalateGrounded ==
  ASSUME NEW s \in Session, Grounded(s), NEW reason, Escalate(s, reason)
  PROVE  Grounded(session')
BY SameMind DEF Escalate, Save, Session

LEMMA PauseGrounded ==
  ASSUME NEW s \in Session, Grounded(s), NEW request, Pause(s, request)
  PROVE  Grounded(session')
BY SameMind DEF Pause, Save, Session

LEMMA PerformGrounded ==
  ASSUME NEW s \in Session, Grounded(s), NEW action \in Candidate, Perform(s, action)
  PROVE  Grounded(session')
<1> DEFINE failed == action.name = "force_discrepancy" /\ action.effects # <<>>
           complete == s.complete \/ action.name = "mark_complete"
           budget == Charge(s.budget, action.cost)
           taken == IF action.irreversible THEN s.taken + 1 ELSE s.taken
           token == IF action.irreversible THEN None ELSE s.token
           obs == IF failed THEN Feedback(action.effects) ELSE s.obs
           phase == IF ~failed /\ complete THEN "complete" ELSE "observe"
<1>1. session' = [s EXCEPT !.budget = budget, !.loops = s.loops + 1, !.taken = taken,
                           !.token = token, !.complete = complete, !.obs = obs,
                           !.phase = phase]
  BY DEF Perform, Save, Session
<1>2. s.obs # None => obs # None
  BY FeedbackType, WorldModelAssumption DEF Candidate
<1> HIDE DEF failed, complete, budget, taken, token, obs, phase
<1>3. /\ session'.orientation = s.orientation /\ session'.resolved = s.resolved
      /\ session'.obs = obs
  BY <1>1 DEF Session
<1> QED BY <1>2, <1>3, SameMind

LEMMA ExecuteGrounded ==
  ASSUME NEW s \in Session, Grounded(s), NEW action \in Candidate, NEW token,
         Execute(s, action, token)
  PROVE  Grounded(session')
<1>1. \/ Perform(s, action)
      \/ \E reason \in Reasons : Escalate(s, reason)
  BY DEF Execute, Reasons
<1> QED BY <1>1, PerformGrounded, EscalateGrounded

LEMMA SettleGrounded ==
  ASSUME NEW s \in Session, Grounded(s), NEW decision, Sound(decision),
         Settle(s, decision)
  PROVE  Grounded(session')
<1>1. \/ Escalate(s, decision.escalate)
      \/ Pause(s, s.pending)
      \/ decision.escalate = None /\ Execute(s, decision.action, decision.token)
  BY Zenon DEF Settle
<1> QED BY <1>1, EscalateGrounded, PauseGrounded, ExecuteGrounded DEF Sound

\* A call that raises leaves the session as it was, not as Orient left the copy.
LEMMA DecideGrounded ==
  ASSUME NEW s \in Session, Grounded(s), Grounded(session), Mode # "stub", Decide(s)
  PROVE  Grounded(session')
<1>1. CASE Escalate(s, "missing_orientation")
  BY <1>1, EscalateGrounded
<1>2. CASE Mode = "manual" /\ DecideManually(s)
  <2>1. CASE \E request \in Requests : Pause(s, request)
    BY <2>1, PauseGrounded
  <2>2. CASE UNCHANGED vars
    BY <2>2 DEF vars
  <2>3. ASSUME NEW chosen,
               NEW decision \in
                 DecideWithRisk(s.orientation, ManualCandidates, s.token, chosen),
               Settle(UseChoice(s), decision)
        PROVE  Grounded(session')
    <3>1. Sound(decision)
      BY <2>3, ManualCandidatesType, DecideWithRiskSound DEF Session
    <3>2. UseChoice(s) \in Session /\ Grounded(UseChoice(s))
      BY SameMind DEF UseChoice, Session
    <3> QED BY <2>3, <3>1, <3>2, SettleGrounded
  <2>4. \/ Pause(s, "decide") \/ Pause(s, "approve")
        \/ UNCHANGED vars
        \/ \E chosen \in Named(ManualCandidates, s.decideId) :
             \E decision \in
               DecideWithRisk(s.orientation, ManualCandidates, s.token, chosen) :
               Settle(UseChoice(s), decision)
    BY <1>2, Zenon DEF DecideManually
  <2> QED BY <2>1, <2>2, <2>3, <2>4 DEF Requests
<1>3. CASE \E decision \in LiveDecide(s.orientation, FixtureOf(s)) : Settle(s, decision)
  <2>1. PICK decision \in LiveDecide(s.orientation, FixtureOf(s)) : Settle(s, decision)
    BY <1>3
  <2>2. FixtureOf(s).candidates \in Seq(Candidate)
    BY FixtureOfType DEF Fixture
  <2>3. Sound(decision)
    BY <2>1, <2>2, LiveDecideSound
  <2> QED BY <2>1, <2>3, SettleGrounded
<1>4. \/ Escalate(s, "missing_orientation")
      \/ Mode = "manual" /\ DecideManually(s)
      \/ \E decision \in LiveDecide(s.orientation, FixtureOf(s)) : Settle(s, decision)
  BY Zenon DEF Decide
<1> QED BY <1>1, <1>2, <1>3, <1>4

---------------------------------------------------------------------------
\* A model's answer keeps the facts of the baseline, and these the resolutions.
LEMMA OrientedGrounded ==
  ASSUME NEW s \in Session, s.obs # None, Mode # "stub", NEW result \in Orientations(s)
  PROVE  Oriented(s, result) \in Session /\ Grounded(Oriented(s, result))
<1> DEFINE baseline == Orient(s.obs, s.facts, s.contradictions, s.resolved)
<1>1. baseline \in Orientation /\ result \in Orientation
  BY OrientType, OrientationsType DEF Session
<1>2. \A k \in Keys : s.resolved[k] # None =>
        baseline.facts[k] # None /\ baseline.facts[k].value = s.resolved[k]
  BY OrientKeepsResolutions DEF Session
<1>3. result.facts = baseline.facts
  <2>1. CASE result = baseline
    BY <2>1
  <2>2. CASE result \in LiveOrientations(baseline)
    <3> HIDE DEF baseline
    <3>1. PICK answer : result = Answered(baseline, answer)
      BY <2>2 DEF LiveOrientations
    <3> QED BY <1>1, <3>1 DEF Answered, Orientation
  <2>3. Orientations(s) = {baseline} \/ Orientations(s) = LiveOrientations(baseline)
    BY RuntimeAssumption DEF Orientations
  <2> QED BY <2>1, <2>2, <2>3
<1> HIDE DEF baseline
<1>4. /\ Oriented(s, result).orientation.facts = baseline.facts
      /\ Oriented(s, result).obs = s.obs
      /\ Oriented(s, result).resolved = s.resolved
  BY <1>3 DEF Oriented, Session
<1> QED BY <1>1, <1>2, <1>4, OrientedType DEF Grounded

LEMMA RunStepGrounded ==
  ASSUME TypeOK, Grounded(session), Mode # "stub", RunStep
  PROVE  Grounded(session')
<1>1. session \in Session
  BY DEF TypeOK
<1>2. CASE Terminate \/ AwaitObservation
  BY <1>1, <1>2, SameMind DEF Terminate, AwaitObservation, Save, Session
<1>3. CASE EscalateObservation \/ DecideStep
  BY <1>1, <1>3, EscalateGrounded, DecideGrounded DEF EscalateObservation, DecideStep
<1>4. CASE Halted
  BY <1>4 DEF Halted, vars
<1>5. CASE \E result \in Orientations(session) :
             /\ session.obs # None
             /\ \/ \E request \in Requests : Pause(Oriented(session, result), request)
                \/ \E reason \in Reasons : Escalate(Oriented(session, result), reason)
                \/ Decide(Oriented(session, result))
                \/ \E rule \in MatchedRules(result) :
                     Execute(Oriented(session, result), IgcAction(rule), None)
  <2>1. PICK result \in Orientations(session) :
          /\ session.obs # None
          /\ \/ \E request \in Requests : Pause(Oriented(session, result), request)
             \/ \E reason \in Reasons : Escalate(Oriented(session, result), reason)
             \/ Decide(Oriented(session, result))
             \/ \E rule \in MatchedRules(result) :
                  Execute(Oriented(session, result), IgcAction(rule), None)
    BY <1>5
  <2>2. Oriented(session, result) \in Session /\ Grounded(Oriented(session, result))
    BY <1>1, <2>1, OrientedGrounded
  <2> QED BY <2>1, <2>2, PauseGrounded, EscalateGrounded, DecideGrounded,
             ExecuteGrounded, IgcActionType
<1>6. CASE PauseForReview \/ EscalateOrientation
  BY <1>5, <1>6
  DEF PauseForReview, EscalateOrientation, Stepping, Running, Requests, Reasons
<1>7. CASE IgcFastPath
  BY <1>5, <1>7, Zenon DEF IgcFastPath, Stepping, Running
<1>8. CASE PauseForCheckpoint \/ OrientThenDecide
  BY <1>5, <1>8 DEF PauseForCheckpoint, OrientThenDecide, Stepping, Running, Requests
<1> QED BY <1>2, <1>3, <1>4, <1>6, <1>7, <1>8 DEF RunStep

\* A resolution made without an observation has no orientation to contradict.
LEMMA ResolveGrounded ==
  ASSUME TypeOK, Grounded(session), NEW k \in Keys, NEW value \in Texts,
         ResolveContradiction(k, value)
  PROVE  Grounded(session')
<1> DEFINE resolved == [session.resolved EXCEPT ![k] = value]
           facts == ResolvedFacts(session.facts, resolved)
           contradictions == ResolvedContradictions(session.contradictions, resolved)
           settled == [session EXCEPT
                         !.resolved = resolved, !.pending = None, !.phase = "decide",
                         !.facts = facts, !.contradictions = contradictions]
           result == Orient(session.obs, settled.facts, settled.contradictions, resolved)
<1>1. session \in Session
  BY DEF TypeOK
<1>2. resolved \in Resolutions
  BY <1>1 DEF Session, Resolutions
<1>3. facts \in Facts
  BY <1>1, <1>2, ResolvedFactsType DEF Session
<1>4. contradictions \in SUBSET Contradiction
  BY <1>1 DEF Session, ResolvedContradictions
<1>5. session' = (IF session.obs = None THEN settled ELSE Oriented(settled, result))
  BY Zenon DEF ResolveContradiction, Save
<1> HIDE DEF resolved, facts, contradictions
<1>6. /\ settled \in Session /\ settled.obs = session.obs /\ settled.resolved = resolved
      /\ settled.orientation = session.orientation
      /\ settled.facts = facts /\ settled.contradictions = contradictions
  BY <1>1, <1>2, <1>3, <1>4 DEF Session, Phases
<1>7. CASE session.obs = None
  BY <1>5, <1>6, <1>7 DEF Grounded
<1>8. CASE session.obs # None
  <2>1. \A j \in Keys : resolved[j] # None =>
          result.facts[j] # None /\ result.facts[j].value = resolved[j]
    BY <1>1, <1>2, <1>3, <1>4, <1>6, <1>8, OrientKeepsResolutions DEF Session
  <2> HIDE DEF settled, result
  <2>2. /\ Oriented(settled, result).orientation.facts = result.facts
        /\ Oriented(settled, result).obs = session.obs
        /\ Oriented(settled, result).resolved = resolved
    BY <1>6 DEF Oriented, Session
  <2> QED BY <1>5, <1>8, <2>1, <2>2 DEF Grounded
<1> QED BY <1>7, <1>8

LEMMA OperatorGrounded ==
  ASSUME TypeOK, Grounded(session), Operator
  PROVE  Grounded(session')
<1>1. session \in Session
  BY DEF TypeOK
<1>2. \A obs \in Observation : obs # None
  BY WorldModelAssumption
<1>3. CASE \E scenario \in Scenarios \cup {None} : LoadObservation(scenario)
  <2>1. PICK scenario \in Scenarios \cup {None} : LoadObservation(scenario)
    BY <1>3
  <2> DEFINE name == ScenarioName(scenario)
  <2>2. name \in Scenarios
    BY <1>1, RuntimeAssumption DEF ScenarioName, Session
  <2>3. Fixtures[name].obs # None
    BY <1>2, <2>2, RuntimeAssumption DEF Fixture
  <2>4. /\ session'.obs = Fixtures[name].obs /\ session'.resolved = session.resolved
        /\ session'.orientation = session.orientation
    BY <1>1, <2>1 DEF LoadObservation, Save, Session
  <2> QED BY <2>3, <2>4 DEF Grounded
<1>4. CASE \/ \E result \in Sensed : LoadFromMcp(result)
           \/ \E obs \in Injected : InjectObservation(obs)
  <2>1. PICK obs \in Observation :
          /\ \/ session' = [session EXCEPT !.obs = obs, !.phase = "observe"]
             \/ session' = [session EXCEPT !.obs = obs]
    <3>1. CASE \E result \in Sensed : LoadFromMcp(result)
      BY <3>1, McpObservationType DEF LoadFromMcp, Save
    <3>2. CASE \E obs \in Injected : InjectObservation(obs)
      BY <3>2, RuntimeAssumption DEF InjectObservation, Save
    <3> QED BY <1>4, <3>1, <3>2
  <2>2. obs # None
    BY <1>2
  <2>3. /\ session'.obs = obs /\ session'.resolved = session.resolved
        /\ session'.orientation = session.orientation
    BY <1>1, <2>1 DEF Session
  <2> QED BY <2>2, <2>3 DEF Grounded
<1>5. CASE \E k \in Keys, value \in Texts : ResolveContradiction(k, value)
  BY <1>5, ResolveGrounded
<1>6. CASE \/ \E id \in CandidateIds : SubmitDecide(id)
           \/ \E hash \in Hashes : Approve(hash)
           \/ AcknowledgeCheckpoint
  BY <1>1, <1>6, SameMind DEF SubmitDecide, Approve, AcknowledgeCheckpoint, Save, Session
<1> QED BY <1>3, <1>4, <1>5, <1>6 DEF Operator

\* In manual and live mode the orientation a decision rests on carries the
\* operator's value for every fact the operator has resolved. (A stub fixture
\* may say anything.)
THEOREM HumanFactsAlwaysPrevail ==
  ASSUME Mode # "stub"
  PROVE  Spec => []HumanFactsPrevail
<1>1. Init => Grounded(session)
  BY DEF Init, NewSession, Grounded
<1>2. TypeOK /\ Grounded(session) /\ [Next]_vars => Grounded(session)'
  <2> SUFFICES ASSUME TypeOK, Grounded(session), [Next]_vars PROVE Grounded(session')
    BY DEF Grounded
  <2>1. CASE UNCHANGED vars
    BY <2>1 DEF vars
  <2> QED BY <2>1, RunStepGrounded, OperatorGrounded DEF Next
<1>3. Grounded(session) => HumanFactsPrevail
  BY DEF Grounded, HumanFactsPrevail
<1> QED BY <1>1, <1>2, <1>3, TypeCorrect, PTL DEF Spec

---------------------------------------------------------------------------
(* Protected beliefs.                                                      *)

\* Beliefs held above 0.8 are kept, agreed with, or replaced by what the
\* operator resolved.
Respects(facts, new, resolved) ==
  \A k \in Keys : facts[k] # None /\ SeverityOf(facts[k]) = "high" =>
    /\ new[k] # None
    /\ \/ ~Conflict(facts[k].value, new[k].value)
       \/ new[k].value = resolved[k]

LEMMA SameFacts ==
  ASSUME NEW facts \in Facts, NEW resolved
  PROVE  Respects(facts, facts, resolved)
BY DEF Respects, Conflict

LEMMA ResolvedFactsRespect ==
  ASSUME NEW facts \in Facts, NEW resolved \in Resolutions
  PROVE  Respects(facts, ResolvedFacts(facts, resolved), resolved)
<1>1. ASSUME NEW k \in Keys, facts[k] # None
      PROVE  LET new == ResolvedFacts(facts, resolved)[k]
             IN  new # None /\ (new = facts[k] \/ new.value = resolved[k])
  <2>1. ResolvedFacts(facts, resolved) \in Facts
    BY ResolvedFactsType
  <2>2. CASE resolved[k] = None
    BY <1>1, <2>2 DEF ResolvedFacts
  <2>3. CASE resolved[k] # None
    <3>1. /\ ResolvedFacts(facts, resolved)[k] = [value |-> resolved[k], conf |-> 95]
          /\ ResolvedFacts(facts, resolved)[k] \in Fact
      BY <2>3 DEF ResolvedFacts, Resolutions, Texts, Fact, Percent
    <3> QED BY <3>1, WorldModelAssumption
  <2> QED BY <2>2, <2>3
<1> QED BY <1>1 DEF Respects, Conflict

\* A signal that contradicts a protected belief makes a high contradiction, and
\* then nothing is merged.
LEMMA OrientRespects ==
  ASSUME NEW obs \in Observation, NEW facts \in Facts,
         NEW old \in SUBSET Contradiction, NEW resolved \in Resolutions
  PROVE  Respects(facts, Orient(obs, facts, old, resolved).facts, resolved)
<1> DEFINE known  == ResolvedFacts(facts, resolved)
           active == ActiveContradictions(
                       obs, known, ResolvedContradictions(old, resolved))
           new == Orient(obs, facts, old, resolved).facts
<1>1. known \in Facts /\ Respects(facts, known, resolved)
  BY ResolvedFactsType, ResolvedFactsRespect
<1>2. CASE \E c \in active : c.severity = "high"
  <2>1. new = known
    BY <1>2 DEF Orient
  <2> QED BY <1>1, <2>1
<1>3. CASE ~ \E c \in active : c.severity = "high"
  <2>1. new = MergeSignals(obs, known)
    BY <1>3 DEF Orient
  <2>2. ASSUME NEW k \in Keys, facts[k] # None, SeverityOf(facts[k]) = "high",
               resolved[k] = None
        PROVE  new[k] # None /\ ~Conflict(facts[k].value, new[k].value)
    <3>1. known[k] = facts[k]
      BY <2>2 DEF ResolvedFacts
    <3>2. CASE ~ \E s \in Signals(obs) : s.key = k
      <4>1. new[k] = facts[k]
        BY <2>1, <3>1, <3>2 DEF MergeSignals
      <4> QED BY <2>2, <4>1 DEF Conflict
    <3>3. CASE \E s \in Signals(obs) : s.key = k
      <4> DEFINE last == obs.signals[LastSignal(obs, k)]
      <4>1. last \in Signals(obs) /\ last.key = k
        BY <3>3, LastSignalType DEF Signals
      <4>2. new[k] = [value |-> last.value, conf |-> last.conf]
        BY <2>1, <3>3 DEF MergeSignals
      <4>3. last \in Signal
        BY <4>1, SignalsType
      <4> HIDE DEF last
      <4>4. new[k] # None /\ new[k].value = last.value
        <5>1. [value |-> last.value, conf |-> last.conf] \in Fact
          BY <4>3 DEF Signal, Fact
        <5> QED BY <4>2, <5>1, WorldModelAssumption
      <4>5. ASSUME Conflict(facts[k].value, last.value)
            PROVE  FALSE
        <5>1. [key |-> k, severity |-> "high"] \in DetectContradictions(obs, known)
          BY <2>2, <3>1, <4>1, <4>5 DEF DetectContradictions
        <5>2. [key |-> k, severity |-> "high"] \in active
          BY <5>1 DEF ActiveContradictions
        <5> HIDE DEF active
        <5>3. [key |-> k, severity |-> "high"].severity = "high"
          OBVIOUS
        <5> QED BY <1>3, <5>2, <5>3
      <4> QED BY <4>4, <4>5
    <3> QED BY <3>2, <3>3
  <2>3. ASSUME NEW k \in Keys, resolved[k] # None
        PROVE  new[k] # None /\ new[k].value = resolved[k]
    BY <2>3, OrientKeepsResolutions
  <2>4. Respects(facts, new, resolved)
    <3> HIDE DEF new
    <3> QED BY <2>2, <2>3 DEF Respects
  <2> QED BY <2>4
<1> QED BY <1>2, <1>3

\* Decide and Act leave facts and resolutions alone.
SameBeliefs(s) == session'.facts = s.facts /\ session'.resolved = s.resolved

LEMMA ExecuteBelieves ==
  ASSUME NEW s \in Session, NEW action, NEW token, Execute(s, action, token)
  PROVE  SameBeliefs(s)
<1>1. Perform(s, action) \/ \E reason : Escalate(s, reason)
  BY Zenon DEF Execute
<1> QED BY <1>1 DEF Perform, Escalate, Save, Session, SameBeliefs

LEMMA HoldBelieves ==
  ASSUME NEW s \in Session,
         (\E reason : Escalate(s, reason)) \/ (\E request : Pause(s, request))
  PROVE  SameBeliefs(s)
BY DEF Escalate, Pause, Save, Session, SameBeliefs

LEMMA SettleBelieves ==
  ASSUME NEW s \in Session, NEW decision, Settle(s, decision)
  PROVE  SameBeliefs(s)
<1>1. \/ Escalate(s, decision.escalate)
      \/ Pause(s, s.pending)
      \/ Execute(s, decision.action, decision.token)
  BY Zenon DEF Settle
<1> QED BY <1>1, HoldBelieves, ExecuteBelieves

LEMMA DecideBelieves ==
  ASSUME NEW s \in Session, Decide(s)
  PROVE  SameBeliefs(s) \/ UNCHANGED vars
<1>1. UseChoice(s) \in Session /\ UseChoice(s).facts = s.facts
      /\ UseChoice(s).resolved = s.resolved
  BY DEF UseChoice, Session
<1>2. ASSUME NEW decision, Settle(UseChoice(s), decision)
      PROVE  SameBeliefs(s)
  <2>1. SameBeliefs(UseChoice(s))
    BY <1>1, <1>2, SettleBelieves
  <2> QED BY <1>1, <2>1 DEF SameBeliefs
<1>3. ASSUME NEW decision, Settle(s, decision)
      PROVE  SameBeliefs(s)
  BY <1>3, SettleBelieves
<1>4. \/ \E reason : Escalate(s, reason)
      \/ \E request : Pause(s, request)
      \/ UNCHANGED vars
      \/ \E decision : Settle(UseChoice(s), decision)
      \/ \E decision : Settle(s, decision)
  BY Zenon DEF Decide, DecideManually
<1> QED BY <1>2, <1>3, <1>4, HoldBelieves

LEMMA OrientationsRespect ==
  ASSUME NEW s \in Session, s.obs # None, Mode # "stub", NEW result \in Orientations(s)
  PROVE  Respects(s.facts, result.facts, s.resolved)
<1> DEFINE baseline == Orient(s.obs, s.facts, s.contradictions, s.resolved)
<1>1. baseline \in Orientation
  BY OrientType DEF Session
<1>2. Respects(s.facts, baseline.facts, s.resolved)
  BY OrientRespects DEF Session
<1> HIDE DEF baseline
<1>3. CASE result \in LiveOrientations(baseline)
  <2>1. PICK answer : result = Answered(baseline, answer)
    BY <1>3 DEF LiveOrientations
  <2>2. result.facts = baseline.facts
    BY <1>1, <2>1 DEF Answered, Orientation
  <2> QED BY <1>2, <2>2
<1>4. result = baseline \/ result \in LiveOrientations(baseline)
  BY RuntimeAssumption DEF Orientations, baseline
<1> QED BY <1>2, <1>3, <1>4

\* What one call does to the facts.
SessionRespects == Respects(session.facts, session'.facts, session'.resolved)

LEMMA BeliefsRespect ==
  ASSUME NEW s \in Session, s.resolved = session.resolved,
         Respects(session.facts, s.facts, s.resolved), SameBeliefs(s)
  PROVE  SessionRespects
BY DEF SameBeliefs, SessionRespects

LEMMA UnchangedRespects ==
  ASSUME session \in Session, session'.facts = session.facts
  PROVE  SessionRespects
BY SameFacts DEF Session, SessionRespects

LEMMA RunStepRespects ==
  ASSUME TypeOK, Mode # "stub", RunStep
  PROVE  SessionRespects
<1>1. session \in Session
  BY DEF TypeOK
<1>2. CASE Terminate \/ AwaitObservation
  BY <1>1, <1>2, UnchangedRespects DEF Terminate, AwaitObservation, Save, Session
<1>3. CASE EscalateObservation \/ DecideStep
  BY <1>1, <1>3, HoldBelieves, DecideBelieves, UnchangedRespects
  DEF EscalateObservation, DecideStep, SameBeliefs, vars
<1>4. CASE Halted
  BY <1>1, <1>4, UnchangedRespects DEF Halted, vars
<1>5. CASE \/ PauseForReview \/ EscalateOrientation \/ IgcFastPath
           \/ PauseForCheckpoint \/ OrientThenDecide
  <2>1. PICK result \in Orientations(session) :
          \/ \E reason : Escalate(Oriented(session, result), reason)
          \/ \E request : Pause(Oriented(session, result), request)
          \/ \E action, token : Execute(Oriented(session, result), action, token)
          \/ Decide(Oriented(session, result))
    BY <1>5, Zenon DEF PauseForReview, EscalateOrientation, IgcFastPath,
       PauseForCheckpoint, OrientThenDecide
  <2>2. session.obs # None
    BY <1>5, Zenon DEF PauseForReview, EscalateOrientation, IgcFastPath,
       PauseForCheckpoint, OrientThenDecide, Stepping, Running
  <2> DEFINE s == Oriented(session, result)
  <2>3. s \in Session
    BY <1>1, <2>2, OrientationsType, OrientedType
  <2>4. s.facts = result.facts /\ s.resolved = session.resolved
    BY <1>1 DEF Oriented, Session
  <2>5. Respects(session.facts, s.facts, s.resolved)
    BY <1>1, <2>2, <2>4, OrientationsRespect
  <2> HIDE DEF s
  <2>6. SameBeliefs(s) \/ UNCHANGED vars
    BY <2>1, <2>3, HoldBelieves, ExecuteBelieves, DecideBelieves DEF s
  <2> QED BY <1>1, <2>3, <2>4, <2>5, <2>6, BeliefsRespect, UnchangedRespects DEF vars
<1> QED BY <1>2, <1>3, <1>4, <1>5 DEF RunStep

LEMMA ResolveRespects ==
  ASSUME TypeOK, NEW k \in Keys, NEW value \in Texts, ResolveContradiction(k, value)
  PROVE  SessionRespects
<1> DEFINE resolved == [session.resolved EXCEPT ![k] = value]
           facts == ResolvedFacts(session.facts, resolved)
           contradictions == ResolvedContradictions(session.contradictions, resolved)
           settled == [session EXCEPT
                         !.resolved = resolved, !.pending = None, !.phase = "decide",
                         !.facts = facts, !.contradictions = contradictions]
           result == Orient(session.obs, settled.facts, settled.contradictions, resolved)
<1>1. session \in Session
  BY DEF TypeOK
<1>2. resolved \in Resolutions
  BY <1>1 DEF Session, Resolutions
<1>3. facts \in Facts /\ Respects(session.facts, facts, resolved)
  BY <1>1, <1>2, ResolvedFactsType, ResolvedFactsRespect DEF Session
<1>4. contradictions \in SUBSET Contradiction
  BY <1>1 DEF Session, ResolvedContradictions
<1>5. \A j \in Keys : resolved[j] = None => facts[j] = session.facts[j]
  BY DEF ResolvedFacts
<1>6. session' = (IF session.obs = None THEN settled ELSE Oriented(settled, result))
  BY Zenon DEF ResolveContradiction, Save
<1> HIDE DEF resolved, facts, contradictions
<1>7. /\ settled.facts = facts /\ settled.resolved = resolved
      /\ settled.contradictions = contradictions
  BY <1>1 DEF Session
<1>8. CASE session.obs = None
  BY <1>3, <1>6, <1>7, <1>8 DEF SessionRespects
<1>9. CASE session.obs # None
  <2>1. session.obs \in Observation
    BY <1>1, <1>9 DEF Session
  <2>2. Respects(facts, result.facts, resolved)
    BY <1>2, <1>3, <1>4, <1>7, <2>1, OrientRespects
  <2>3. \A j \in Keys : resolved[j] # None =>
          result.facts[j] # None /\ result.facts[j].value = resolved[j]
    BY <1>2, <1>3, <1>4, <1>7, <2>1, OrientKeepsResolutions
  <2> HIDE DEF result
  <2>4. Respects(session.facts, result.facts, resolved)
    BY <1>5, <2>2, <2>3 DEF Respects
  <2> HIDE DEF settled
  <2>5. Oriented(settled, result).facts = result.facts
        /\ Oriented(settled, result).resolved = resolved
    BY <1>1, <1>7 DEF Oriented, Session, settled
  <2> QED BY <1>6, <1>9, <2>4, <2>5 DEF SessionRespects
<1> QED BY <1>8, <1>9

\* In manual and live mode a belief held above 0.8 gives way only to a value
\* within its tolerance, to the operator, or to a fixture being loaded.
THEOREM ProtectedBeliefsStand ==
  ASSUME Mode # "stub"
  PROVE  Spec => NoSilentOverwrite
<1> DEFINE Loads == \E scenario \in Scenarios \cup {None} : LoadObservation(scenario)
           Step == ~Loads =>
             \A k \in Keys :
               LET old == session.facts[k]
                   new == session'.facts[k]
               IN  old # None /\ SeverityOf(old) = "high" =>
                     /\ new # None
                     /\ \/ ~Conflict(old.value, new.value)
                        \/ new.value = session'.resolved[k]
<1>1. TypeOK /\ [Next]_vars => [Step]_vars
  <2> SUFFICES ASSUME TypeOK, Next, ~Loads PROVE SessionRespects
    BY DEF SessionRespects, Respects
  <2>1. CASE RunStep
    BY <2>1, RunStepRespects
  <2>2. CASE \E k \in Keys, value \in Texts : ResolveContradiction(k, value)
    BY <2>2, ResolveRespects
  <2>3. CASE \/ \E result \in Sensed : LoadFromMcp(result)
             \/ \E obs \in Injected : InjectObservation(obs)
             \/ \E id \in CandidateIds : SubmitDecide(id)
             \/ \E hash \in Hashes : Approve(hash)
             \/ AcknowledgeCheckpoint
    <3>1. session'.facts = session.facts /\ session \in Session
      BY <2>3 DEF TypeOK, LoadFromMcp, InjectObservation, SubmitDecide, Approve,
         AcknowledgeCheckpoint, Save, Session
    <3> QED BY <3>1, UnchangedRespects
  <2> QED BY <2>1, <2>2, <2>3 DEF Next, Operator
<1> QED BY <1>1, TypeCorrect, PTL DEF Spec, NoSilentOverwrite
=============================================================================
