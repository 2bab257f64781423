---------------------------- MODULE RuntimeProofs ----------------------------
(***************************************************************************)
(* Theorems about one session, for every mode, fixture table, token set    *)
(* and budget.  A first part follows one call through Orient, Decide and   *)
(* Act and shows what it can leave in the store (type, ledger); the        *)
(* theorems then read the invariants off those outcomes.                   *)
(***************************************************************************)
EXTENDS Runtime, WorldModelProofs, RiskGateProofs, FiniteSetTheorems, SequenceTheorems

---------------------------------------------------------------------------
(* What a call can do to the ledger.                                       *)

\* No approval was issued or consumed and the session holds the token it held.
Kept ==
  /\ session'.taken = session.taken
  /\ session'.token = session.token
  /\ UNCHANGED ledger

\* The row of the token was consumed for one irreversible action.
Spends(token) ==
  /\ session'.taken = session.taken + 1
  /\ session'.token = None
  /\ \E row \in live : row[2] = token /\ Consume(row)

\* An in-memory copy of the session that Orient or Decide have worked on.
Copy(s) ==
  /\ s \in Session
  /\ s.taken = session.taken
  /\ s.token = session.token

---------------------------------------------------------------------------
LEMMA FeedbackType ==
  ASSUME NEW effects \in Seq(Keys)
  PROVE  Feedback(effects) \in Observation
<1> DEFINE n == Len(effects)
           signal(i) == [key |-> effects[i], value |-> Unexpected, conf |-> 100]
           signals == [i \in DOMAIN effects |-> signal(i)]
<1>1. n \in Nat /\ DOMAIN effects = 1..n /\ \A i \in 1..n : effects[i] \in Keys
  OBVIOUS
<1>2. \A i \in 1..n : signal(i) \in Signal
  BY <1>1, RuntimeAssumption DEF Signal, Percent
<1> HIDE DEF n, signal
<1>3. signals \in [1..n -> Signal]
  BY <1>1, <1>2
<1>4. signals \in Seq(Signal)
  BY <1>1, <1>3, SeqDef
<1>5. \A pattern \in Names :
        [signals |-> signals, failed |-> 0, conf |-> 90, pattern |-> pattern]
          \in Observation
  <2> HIDE DEF signals
  <2> QED BY <1>4 DEF Observation, Percent
<1>6. [signals |-> signals, failed |-> 0, conf |-> 90,
       pattern |-> "act_discrepancy_feedback"] \in Observation
  <2> HIDE DEF signals
  <2> QED BY <1>5, CodeNames, Zenon
<1> QED BY <1>6, Zenon DEF Feedback, signals, signal

LEMMA ChargeType ==
  ASSUME NEW budget \in Int, NEW cost \in Nat
  PROVE  Charge(budget, cost) \in Int
BY DEF Charge

LEMMA EscalateOutcome ==
  ASSUME TypeOK, NEW s, Copy(s), NEW reason \in Reasons, Escalate(s, reason)
  PROVE  TypeOK' /\ Kept
<1>1. [s EXCEPT !.phase = "escalated", !.escalation = reason] \in Session
  BY DEF Copy, Session, Phases
<1>2. /\ session' = [s EXCEPT !.phase = "escalated", !.escalation = reason]
      /\ UNCHANGED ledger
  BY Zenon DEF Escalate, Save
<1> QED BY <1>1, <1>2 DEF TypeOK, ledger, Kept, Copy, Session

LEMMA PauseOutcome ==
  ASSUME TypeOK, NEW s, Copy(s), NEW request \in Requests, Pause(s, request)
  PROVE  TypeOK' /\ Kept
<1>1. [s EXCEPT !.phase = "paused", !.pending = request] \in Session
  BY DEF Copy, Session, Phases
<1>2. /\ session' = [s EXCEPT !.phase = "paused", !.pending = request]
      /\ UNCHANGED ledger
  BY Zenon DEF Pause, Save
<1> QED BY <1>1, <1>2 DEF TypeOK, ledger, Kept, Copy, Session

LEMMA PerformOutcome ==
  ASSUME NEW s, Copy(s), NEW action \in Candidate, Perform(s, action)
  PROVE  /\ session' \in Session
         /\ session'.taken = IF action.irreversible THEN session.taken + 1
                             ELSE session.taken
         /\ session'.token = IF action.irreversible THEN None ELSE session.token
<1> DEFINE failed == action.name = "force_discrepancy" /\ action.effects # <<>>
           complete == s.complete \/ action.name = "mark_complete"
           budget == Charge(s.budget, action.cost)
           taken == IF action.irreversible THEN s.taken + 1 ELSE s.taken
           token == IF action.irreversible THEN None ELSE s.token
           obs == IF failed THEN Feedback(action.effects) ELSE s.obs
           phase == IF ~failed /\ complete THEN "complete" ELSE "observe"
<1>1. s \in Session /\ s.taken = session.taken /\ s.token = session.token
  BY DEF Copy
<1>2. budget \in Int
  BY <1>1, ChargeType DEF Session, Candidate
<1>3. obs \in Observation \cup {None}
  BY <1>1, FeedbackType DEF Session, Candidate
<1>4. /\ taken \in Nat /\ token \in Tokens \cup {None}
      /\ complete \in BOOLEAN /\ phase \in Phases
  BY <1>1 DEF Session, Phases
<1>5. session' = [s EXCEPT !.budget = budget, !.loops = s.loops + 1, !.taken = taken,
                           !.token = token, !.complete = complete, !.obs = obs,
                           !.phase = phase]
  BY <1>1 DEF Perform, Save, Session
<1> HIDE DEF failed, complete, budget, taken, token, obs, phase
<1>6. /\ session' \in Session
      /\ session'.taken = taken /\ session'.token = token
  <2>1. s.loops + 1 \in Nat
    BY <1>1 DEF Session
  <2> DEFINE loops == s.loops + 1
  <2>2. loops \in Nat
    BY <2>1
  <2> HIDE DEF loops
  <2>3. session' = [s EXCEPT !.budget = budget, !.loops = loops, !.taken = taken,
                             !.token = token, !.complete = complete, !.obs = obs,
                             !.phase = phase]
    BY <1>5 DEF loops
  <2>4. session' \in Session
    BY <1>1, <1>2, <1>3, <1>4, <2>2, <2>3, ZenonT(60) DEF Session
  <2>5. session'.taken = taken
    BY <1>1, <2>3 DEF Session
  <2>6. session'.token = token
    BY <1>1, <2>3 DEF Session
  <2> QED BY <2>4, <2>5, <2>6
<1> QED BY <1>1, <1>6 DEF taken, token

\* Act consumes a row only for the token it was handed, and that token was
\* issued: a fixture's token never is.
LEMMA ExecuteOutcome ==
  ASSUME TypeOK, NEW s, Copy(s), NEW action \in Candidate,
         NEW token \in Tokens \cup {FixtureToken, None}, Execute(s, action, token)
  PROVE  /\ TypeOK'
         /\ Kept \/ (token \in Tokens /\ Spends(token))
<1> DEFINE row == <<action.hash, token>>
<1>1. CASE ~action.irreversible /\ Perform(s, action) /\ UNCHANGED ledger
  BY <1>1, PerformOutcome DEF TypeOK, ledger, Kept
<1>2. ASSUME NEW reason \in Reasons, Escalate(s, reason)
      PROVE  TypeOK' /\ Kept
  BY <1>2, EscalateOutcome
<1>3. CASE action.irreversible /\ IsLive(row) /\ Perform(s, action) /\ Consume(row)
  <2>1. row \in live /\ row[2] = token
    BY <1>3 DEF IsLive
  <2>2. /\ session' \in Session
        /\ session'.taken = session.taken + 1 /\ session'.token = None
    BY <1>3, PerformOutcome
  <2>3. /\ live' = live \ {row} /\ spent' = spent \cup {row}
    BY <1>3 DEF Consume
  <2>4. row \in Rows
    BY <2>1 DEF TypeOK
  <2>5. token \in Tokens
    BY <2>4 DEF Rows
  <2>6. TypeOK'
    BY <2>2, <2>3, <2>4 DEF TypeOK
  <2>7. Spends(token)
    BY <1>3, <2>1, <2>2 DEF Spends
  <2> QED BY <2>5, <2>6, <2>7
<1>4. \/ ~action.irreversible /\ Perform(s, action) /\ UNCHANGED ledger
      \/ Escalate(s, "approval_required")
      \/ Escalate(s, "invalid_or_consumed_approval_token")
      \/ action.irreversible /\ IsLive(row) /\ Perform(s, action) /\ Consume(row)
  BY Zenon DEF Execute
<1> QED BY <1>1, <1>2, <1>3, <1>4 DEF Reasons

---------------------------------------------------------------------------
(* Decide.                                                                 *)

LEMMA SettleOutcome ==
  ASSUME TypeOK, NEW s, Copy(s), NEW decision, Sound(decision), Settle(s, decision)
  PROVE  /\ TypeOK'
         /\ Kept \/ (decision.token \in Tokens /\ Spends(decision.token))
<1>1. /\ decision.escalate \in Reasons \cup {None}
      /\ decision.token \in Tokens \cup {FixtureToken, None}
      /\ decision.escalate = None => decision.action \in Candidate
  BY DEF Sound, Decision
<1>2. CASE decision.escalate # None /\ Escalate(s, decision.escalate)
  BY <1>1, <1>2, EscalateOutcome
<1>3. CASE s.pending # None /\ Pause(s, s.pending)
  <2>1. s.pending \in Requests
    BY <1>3 DEF Copy, Session
  <2> QED BY <1>3, <2>1, PauseOutcome
<1>4. CASE decision.escalate = None /\ Execute(s, decision.action, decision.token)
  BY <1>1, <1>4, ExecuteOutcome
<1> QED BY <1>2, <1>3, <1>4, Zenon DEF Settle

LEMMA UseChoiceCopy ==
  ASSUME NEW s, Copy(s)
  PROVE  Copy(UseChoice(s))
BY DEF Copy, UseChoice, Session

LEMMA DecideManuallyOutcome ==
  ASSUME TypeOK, NEW s, Copy(s), DecideManually(s)
  PROVE  /\ TypeOK'
         /\ Kept \/ (session.token \in Tokens /\ Spends(session.token))
<1>1. ASSUME NEW request \in Requests, Pause(s, request)
      PROVE  TypeOK' /\ Kept
  BY <1>1, PauseOutcome
<1>2. CASE UNCHANGED vars
  BY <1>2 DEF vars, TypeOK, Kept, ledger, Session
<1>3. ASSUME NEW chosen,
             NEW decision \in
               DecideWithRisk(s.orientation, ManualCandidates, s.token, chosen),
             Settle(UseChoice(s), decision)
      PROVE  /\ TypeOK'
             /\ Kept \/ (session.token \in Tokens /\ Spends(session.token))
  <2>1. s.token \in Tokens \cup {None} /\ s.token = session.token
    BY DEF Copy, Session
  <2>2. Sound(decision) /\ decision.token \in {s.token, None}
    BY <1>3, <2>1, ManualCandidatesType, DecideWithRiskSound
  <2>3. /\ TypeOK'
        /\ Kept \/ (decision.token \in Tokens /\ Spends(decision.token))
    BY <1>3, <2>2, UseChoiceCopy, SettleOutcome
  <2>4. None \notin Tokens
    BY RiskGateAssumption
  <2> QED BY <2>1, <2>2, <2>3, <2>4
<1>4. \/ Pause(s, "decide") \/ Pause(s, "approve")
      \/ UNCHANGED vars
      \/ \E chosen \in Named(ManualCandidates, s.decideId) :
           \E decision \in
             DecideWithRisk(s.orientation, ManualCandidates, s.token, chosen) :
             Settle(UseChoice(s), decision)
  BY Zenon DEF DecideManually
<1> QED BY <1>1, <1>2, <1>3, <1>4 DEF Requests

LEMMA FixtureOfType ==
  ASSUME NEW s \in Session
  PROVE  FixtureOf(s) \in Fixture
BY RuntimeAssumption DEF FixtureOf, Session

\* Only manual mode spends, and only the session's own token.
LEMMA DecideOutcome ==
  ASSUME TypeOK, NEW s, Copy(s), Decide(s)
  PROVE  /\ TypeOK'
         /\ Kept \/ (/\ Mode = "manual"
                     /\ session.token \in Tokens /\ Spends(session.token))
<1> DEFINE fixture == FixtureOf(s)
<1>1. /\ fixture \in Fixture /\ fixture.candidates \in Seq(Candidate)
      /\ fixture.token \in {FixtureToken, None}
  BY FixtureOfType DEF Copy, Fixture
<1>2. FixtureToken \notin Tokens /\ None \notin Tokens
  BY RiskGateAssumption
<1>3. CASE Escalate(s, "missing_orientation")
  BY <1>3, EscalateOutcome DEF Reasons
<1>4. CASE Mode = "manual" /\ DecideManually(s)
  BY <1>4, DecideManuallyOutcome
<1>5. ASSUME NEW decision, Sound(decision), decision.token \notin Tokens,
             Settle(s, decision)
      PROVE  TypeOK' /\ Kept
  BY <1>5, SettleOutcome
<1> HIDE DEF fixture
<1>6. CASE \E decision \in StubDecide(s.orientation, fixture) : Settle(s, decision)
  <2>1. PICK decision \in StubDecide(s.orientation, fixture) : Settle(s, decision)
    BY <1>6
  <2>2. Sound(decision) /\ decision.token \in {FixtureToken, None}
    BY <1>1, <2>1, StubDecideSound
  <2> QED BY <1>2, <1>5, <2>1, <2>2
<1>7. CASE \E decision \in LiveDecide(s.orientation, fixture) : Settle(s, decision)
  <2>1. PICK decision \in LiveDecide(s.orientation, fixture) : Settle(s, decision)
    BY <1>7
  <2>2. Sound(decision) /\ decision.token = None
    BY <1>1, <2>1, LiveDecideSound
  <2> QED BY <1>2, <1>5, <2>1, <2>2
<1>8. \/ Escalate(s, "missing_orientation")
      \/ Mode = "manual" /\ DecideManually(s)
      \/ \E decision \in StubDecide(s.orientation, fixture) : Settle(s, decision)
      \/ \E decision \in LiveDecide(s.orientation, fixture) : Settle(s, decision)
  BY Zenon DEF Decide, fixture
<1> QED BY <1>3, <1>4, <1>6, <1>7, <1>8

---------------------------------------------------------------------------
(* Orient.                                                                 *)

LEMMA StubOrientType ==
  ASSUME NEW s \in Session, s.obs # None
  PROVE  StubOrient(s) \in Orientation
<1> DEFINE fixture == FixtureOf(s)
           detected == DetectContradictions(s.obs, s.facts)
           forced == IF detected = {} THEN fixture.contradictions ELSE detected
           merged == Orient(s.obs, s.facts, s.contradictions, s.resolved)
           kept == [facts |-> s.facts, contradictions |-> forced, review |-> forced # {},
                    conf |-> IF fixture.conf = None THEN 400 ELSE fixture.conf]
           replaced ==
             [merged EXCEPT
                !.facts = Overlay(@, fixture.facts),
                !.contradictions = IF fixture.facts = NoFacts THEN @ ELSE {},
                !.conf = IF fixture.conf = None THEN @ ELSE fixture.conf]
<1>1. /\ s.obs \in Observation /\ s.facts \in Facts
      /\ s.contradictions \in SUBSET Contradiction /\ s.resolved \in Resolutions
  BY DEF Session
<1>2. /\ fixture.contradictions \in SUBSET Contradiction
      /\ fixture.conf \in Nat \cup {None} /\ fixture.facts \in Facts
  <2>1. fixture \in Fixture
    BY FixtureOfType
  <2> HIDE DEF fixture
  <2>2. fixture.contradictions \in SUBSET Contradiction /\ fixture.facts \in Facts
    BY <2>1 DEF Fixture
  <2>3. fixture.conf \in 0..1000 \cup {None}
    BY <2>1, Zenon DEF Fixture
  <2> QED BY <2>2, <2>3
<1>3. detected \in SUBSET Contradiction
  BY <1>1, DetectType
<1>4. merged \in Orientation
  BY <1>1, OrientType
<1> HIDE DEF fixture, detected, merged
<1>5. kept \in Orientation
  BY <1>1, <1>2, <1>3 DEF Orientation
<1>6. Overlay(merged.facts, fixture.facts) \in Facts
  BY <1>2, <1>4, OverlayType DEF Orientation
<1>7. replaced \in Orientation
  BY <1>2, <1>4, <1>6 DEF Orientation
<1> HIDE DEF forced, kept, replaced
<1>8. StubOrient(s) \in {kept, replaced}
  BY Zenon DEF StubOrient, kept, replaced, forced, fixture, detected, merged
<1> QED BY <1>5, <1>7, <1>8

LEMMA LiveOrientationsType ==
  ASSUME NEW baseline \in Orientation
  PROVE  LiveOrientations(baseline) \subseteq Orientation
<1> DEFINE answers == [conf : LiveConfidences \cup {baseline.conf}, review : BOOLEAN]
<1>1. ASSUME NEW answer \in answers
      PROVE  Answered(baseline, answer) \in Orientation
  <2>1. answer.conf \in Nat /\ answer.review \in BOOLEAN
    BY RuntimeAssumption DEF Orientation
  <2> QED BY <2>1 DEF Answered, Orientation
<1> QED BY <1>1 DEF LiveOrientations

LEMMA OrientationsType ==
  ASSUME NEW s \in Session, s.obs # None
  PROVE  Orientations(s) \subseteq Orientation
<1> DEFINE baseline == Orient(s.obs, s.facts, s.contradictions, s.resolved)
<1>1. baseline \in Orientation
  BY OrientType DEF Session
<1>2. StubOrient(s) \in Orientation
  BY StubOrientType
<1>3. LiveOrientations(baseline) \subseteq Orientation
  BY <1>1, LiveOrientationsType
<1>4. \/ Orientations(s) = {baseline}
      \/ Orientations(s) = {StubOrient(s)}
      \/ Orientations(s) = LiveOrientations(baseline)
  BY RuntimeAssumption DEF Orientations
<1> QED BY <1>1, <1>2, <1>3, <1>4

LEMMA OrientedType ==
  ASSUME NEW s \in Session, NEW result \in Orientation
  PROVE  /\ Oriented(s, result) \in Session
         /\ Oriented(s, result).taken = s.taken
         /\ Oriented(s, result).token = s.token
<1> DEFINE snapshot == [conf |-> result.conf, budget |-> s.budget, facts |-> result.facts]
<1>1. snapshot \in Snapshot
  BY DEF Orientation, Session, Snapshot
<1>2. result.facts \in Facts /\ result.contradictions \in SUBSET Contradiction
  BY DEF Orientation
<1> HIDE DEF snapshot
<1>3. /\ [s EXCEPT !.facts = result.facts, !.contradictions = result.contradictions,
                   !.orientation = snapshot] \in Session
      /\ [s EXCEPT !.facts = result.facts, !.contradictions = result.contradictions,
                   !.orientation = snapshot].taken = s.taken
      /\ [s EXCEPT !.facts = result.facts, !.contradictions = result.contradictions,
                   !.orientation = snapshot].token = s.token
  BY <1>1, <1>2 DEF Session
<1> QED BY <1>3, Zenon DEF Oriented, snapshot

LEMMA OrientedCopy ==
  ASSUME TypeOK, session.obs # None, NEW result \in Orientations(session)
  PROVE  Copy(Oriented(session, result))
<1>1. session \in Session
  BY DEF TypeOK
<1>2. result \in Orientation
  BY <1>1, OrientationsType
<1> QED BY <1>1, <1>2, OrientedType DEF Copy

---------------------------------------------------------------------------
(* One call of the manager.                                                *)

LEMMA IgcActionType ==
  ASSUME NEW result, NEW rule \in MatchedRules(result)
  PROVE  IgcAction(rule) \in Candidate
<1>1. PICK i \in DOMAIN IgcRules : rule = IgcRules[i]
  BY DEF MatchedRules, IgcMatches
<1>2. rule.action \in Names
  <2>1. rule \in IgcRule
    BY <1>1, IgcAssumption
  <2> QED BY <2>1, Zenon DEF IgcRule
<1>3. \A id, name \in Names : Reversible(id, name, 1, 1) \in Candidate
  BY ReversibleType
<1>4. Reversible("igc", rule.action, 1, 1) \in Candidate
  BY <1>2, <1>3, CodeNames, Zenon
<1> QED BY <1>4, Zenon DEF IgcAction

LEMMA SessionCopy ==
  ASSUME TypeOK
  PROVE  Copy(session)
BY DEF TypeOK, Copy

LEMMA RunStepOutcome ==
  ASSUME TypeOK, RunStep
  PROVE  /\ TypeOK'
         /\ Kept \/ (/\ Mode = "manual"
                     /\ session.token \in Tokens /\ Spends(session.token))
<1>1. CASE Terminate
  BY <1>1 DEF Terminate, Save, TypeOK, Kept, ledger, Session, Phases
<1>2. CASE AwaitObservation
  BY <1>2 DEF AwaitObservation, Save, TypeOK, Kept, ledger, Session, Phases
<1>3. CASE EscalateObservation
  BY <1>3, SessionCopy, EscalateOutcome DEF EscalateObservation, Reasons
<1>4. CASE PauseForReview
  <2>1. PICK result \in Orientations(session) :
          Pause(Oriented(session, result), "orient")
    BY <1>4 DEF PauseForReview
  <2>2. Copy(Oriented(session, result))
    BY <1>4, OrientedCopy DEF PauseForReview, Stepping, Running
  <2> QED BY <2>1, <2>2, PauseOutcome DEF Requests
<1>5. CASE EscalateOrientation
  <2>1. PICK result \in Orientations(session) :
          Escalate(Oriented(session, result), "insufficient_orientation_confidence")
    BY <1>5 DEF EscalateOrientation
  <2>2. Copy(Oriented(session, result))
    BY <1>5, OrientedCopy DEF EscalateOrientation, Stepping, Running
  <2> QED BY <2>1, <2>2, EscalateOutcome DEF Reasons
<1>6. CASE IgcFastPath
  <2>1. PICK result \in Orientations(session) : \E rule \in MatchedRules(result) :
          Execute(Oriented(session, result), IgcAction(rule), None)
    BY <1>6, Zenon DEF IgcFastPath
  <2>2. PICK rule \in MatchedRules(result) :
          Execute(Oriented(session, result), IgcAction(rule), None)
    BY <2>1
  <2>3. Copy(Oriented(session, result))
    BY <1>6, OrientedCopy DEF IgcFastPath, Stepping, Running
  <2>4. None \notin Tokens
    BY RiskGateAssumption
  <2>5. IgcAction(rule) \in Candidate
    BY <2>2, IgcActionType
  <2> QED BY <2>2, <2>3, <2>4, <2>5, ExecuteOutcome
<1>7. CASE PauseForCheckpoint
  <2>1. PICK result \in Orientations(session) :
          Pause(Oriented(session, result), "velocity_checkpoint")
    BY <1>7 DEF PauseForCheckpoint
  <2>2. Copy(Oriented(session, result))
    BY <1>7, OrientedCopy DEF PauseForCheckpoint, Stepping, Running
  <2> QED BY <2>1, <2>2, PauseOutcome DEF Requests
<1>8. CASE OrientThenDecide
  <2>1. PICK result \in Orientations(session) : Decide(Oriented(session, result))
    BY <1>8 DEF OrientThenDecide
  <2>2. Copy(Oriented(session, result))
    BY <1>8, OrientedCopy DEF OrientThenDecide, Stepping, Running
  <2> QED BY <2>1, <2>2, DecideOutcome
<1>9. CASE DecideStep
  BY <1>9, SessionCopy, DecideOutcome DEF DecideStep
<1>10. CASE Halted
  BY <1>10 DEF Halted, vars, TypeOK, Kept, ledger, Session
<1> QED BY <1>1, <1>2, <1>3, <1>4, <1>5, <1>6, <1>7, <1>8, <1>9, <1>10 DEF RunStep

---------------------------------------------------------------------------
(* One request of the operator.                                            *)

\* A fresh token was issued, and the session holds it.
Grants ==
  \E hash \in Hashes, token \in Tokens :
    /\ Fresh(token) /\ Issue(hash, token)
    /\ session'.token = token /\ session'.taken = session.taken

LEMMA LoadObservationOutcome ==
  ASSUME TypeOK, NEW scenario \in Scenarios \cup {None}, LoadObservation(scenario)
  PROVE  TypeOK' /\ Kept
<1> DEFINE name == ScenarioName(scenario)
           facts == Overlay(session.facts, Fixtures[name].initial)
           obs == Fixtures[name].obs
<1>1. session \in Session /\ session.facts \in Facts
  BY DEF TypeOK, Session
<1>2. name \in Scenarios
  BY <1>1, RuntimeAssumption DEF ScenarioName, Session
<1>3. Fixtures[name].initial \in Facts /\ obs \in Observation
  BY <1>2, RuntimeAssumption DEF Fixture
<1>4. facts \in Facts
  BY <1>1, <1>3, OverlayType
<1>5. session' = [session EXCEPT !.scenario = name, !.obs = obs, !.phase = "observe",
                                 !.facts = facts]
      /\ UNCHANGED ledger
  BY DEF LoadObservation, Save
<1> HIDE DEF name, facts, obs
<1> QED BY <1>1, <1>2, <1>3, <1>4, <1>5 DEF TypeOK, Kept, ledger, Session, Phases

LEMMA McpObservationType ==
  ASSUME NEW result \in Sensed
  PROVE  McpObservation(result) \in Observation
<1>1. result \in McpResult
  BY RuntimeAssumption
<1> DEFINE failed == IF result.failed = None THEN 0 ELSE result.failed
           conf == IF result.conf = None THEN 100 ELSE result.conf
           pattern == IF result.pattern = None THEN "mcp" ELSE result.pattern
<1>2. result.signals \in Seq(Signal) /\ failed \in Nat
  BY <1>1 DEF McpResult
<1>3. conf \in Percent
  <2>1. result.conf \in Percent \cup {None}
    BY <1>1, Zenon DEF McpResult
  <2>2. 100 \in Percent
    BY DEF Percent
  <2> QED BY <2>1, <2>2
<1>4. pattern \in Names
  BY <1>1, CodeNames, Zenon DEF McpResult
<1> HIDE DEF failed, conf, pattern
<1>5. [signals |-> result.signals, failed |-> failed, conf |-> conf,
       pattern |-> pattern] \in Observation
  BY <1>2, <1>3, <1>4 DEF Observation
<1> QED BY <1>5, Zenon DEF McpObservation, failed, conf, pattern

LEMMA ResolveOutcome ==
  ASSUME TypeOK, NEW k \in Keys, NEW value \in Texts, ResolveContradiction(k, value)
  PROVE  TypeOK' /\ Kept
<1> DEFINE resolved == [session.resolved EXCEPT ![k] = value]
           facts == ResolvedFacts(session.facts, resolved)
           contradictions == ResolvedContradictions(session.contradictions, resolved)
           settled == [session EXCEPT
                         !.resolved = resolved, !.pending = None, !.phase = "decide",
                         !.facts = facts, !.contradictions = contradictions]
           result == Orient(session.obs, settled.facts, settled.contradictions, resolved)
<1>1. session \in Session
  BY DEF TypeOK
<1>2. resolved \in Resolutions
  BY <1>1 DEF Session, Resolutions
<1>3. facts \in Facts
  BY <1>1, <1>2, ResolvedFactsType DEF Session
<1>4. contradictions \in SUBSET Contradiction
  BY <1>1 DEF Session, ResolvedContradictions
<1> HIDE DEF resolved, facts, contradictions
<1>5. Copy(settled) /\ settled.facts = facts /\ settled.contradictions = contradictions
  BY <1>1, <1>2, <1>3, <1>4 DEF Copy, Session, Phases
<1>6. session.obs # None => result \in Orientation
  BY <1>1, <1>2, <1>3, <1>4, <1>5, OrientType DEF Session
<1>7. session' = (IF session.obs = None THEN settled ELSE Oriented(settled, result))
      /\ UNCHANGED ledger
  BY Zenon DEF ResolveContradiction, Save, resolved, facts, contradictions
<1> HIDE DEF settled, result
<1>8. session' \in Session /\ session'.taken = session.taken
      /\ session'.token = session.token
  BY <1>5, <1>6, <1>7, OrientedType DEF Copy
<1> QED BY <1>7, <1>8 DEF TypeOK, Kept, ledger

LEMMA ApproveOutcome ==
  ASSUME TypeOK, NEW hash \in Hashes, Approve(hash)
  PROVE  TypeOK' /\ Grants
<1>1. PICK token \in Tokens :
        /\ Fresh(token) /\ Issue(hash, token)
        /\ session' = [session EXCEPT !.token = token, !.pending = None]
  BY DEF Approve, Save
<1>2. session' \in Session /\ session'.token = token /\ session'.taken = session.taken
  BY <1>1 DEF TypeOK, Session
<1>3. <<hash, token>> \in Rows
  BY DEF Rows
<1> QED BY <1>1, <1>2, <1>3 DEF TypeOK, Grants, Issue

LEMMA OperatorOutcome ==
  ASSUME TypeOK, Operator
  PROVE  TypeOK' /\ (Kept \/ Grants)
<1>1. CASE \E scenario \in Scenarios \cup {None} : LoadObservation(scenario)
  BY <1>1, LoadObservationOutcome
<1>2. CASE \E result \in Sensed : LoadFromMcp(result)
  <2>1. PICK result \in Sensed : LoadFromMcp(result)
    BY <1>2
  <2> DEFINE obs == McpObservation(result)
  <2>2. obs \in Observation
    BY McpObservationType
  <2>3. /\ session' = [session EXCEPT !.obs = obs, !.phase = "observe"]
        /\ UNCHANGED ledger
    BY <2>1 DEF LoadFromMcp, Save
  <2> HIDE DEF obs
  <2> QED BY <2>2, <2>3 DEF TypeOK, Kept, ledger, Session, Phases
<1>3. CASE \E obs \in Injected : InjectObservation(obs)
  <2>1. PICK obs \in Injected : InjectObservation(obs)
    BY <1>3
  <2>2. obs \in Observation
    BY RuntimeAssumption
  <2> QED BY <2>1, <2>2 DEF InjectObservation, Save, TypeOK, Kept, ledger, Session
<1>4. CASE \E k \in Keys, value \in Texts : ResolveContradiction(k, value)
  BY <1>4, ResolveOutcome
<1>5. CASE \E id \in CandidateIds : SubmitDecide(id)
  BY <1>5 DEF SubmitDecide, Save, TypeOK, Kept, ledger, Session, Phases
<1>6. CASE \E hash \in Hashes : Approve(hash)
  BY <1>6, ApproveOutcome
<1>7. CASE AcknowledgeCheckpoint
  BY <1>7 DEF AcknowledgeCheckpoint, Save, TypeOK, Kept, ledger, Session, Phases
<1> QED BY <1>1, <1>2, <1>3, <1>4, <1>5, <1>6, <1>7 DEF Operator

LEMMA NextOutcome ==
  ASSUME TypeOK, [Next]_vars
  PROVE  /\ TypeOK'
         /\ \/ Kept
            \/ Grants
            \/ Mode = "manual" /\ session.token \in Tokens /\ Spends(session.token)
<1>1. CASE UNCHANGED vars
  BY <1>1 DEF vars, TypeOK, Kept, ledger
<1> QED BY <1>1, RunStepOutcome, OperatorOutcome DEF Next

---------------------------------------------------------------------------
(* Theorems.                                                               *)

LEMMA NewSessionType ==
  ASSUME NEW budget \in Budgets, NEW scenario \in Scenarios \cup {None}
  PROVE  NewSession(budget, scenario) \in Session
<1>1. /\ NoFacts \in Facts
      /\ [k \in Keys |-> None] \in Resolutions
      /\ budget \in Int
  BY RuntimeAssumption DEF NoFacts, Facts, Resolutions
<1> DEFINE resolved == [k \in Keys |-> None]
<1> HIDE DEF resolved
<1>2. resolved \in Resolutions
  BY <1>1 DEF resolved
<1>3. [phase |-> "observe", scenario |-> scenario, facts |-> NoFacts,
       contradictions |-> {}, resolved |-> resolved, taken |-> 0,
       budget |-> budget, loops |-> 0, complete |-> FALSE, obs |-> None,
       orientation |-> None, pending |-> None, escalation |-> None,
       decideId |-> None, token |-> None] \in Session
  BY <1>1, <1>2 DEF Session, Phases
<1> QED BY <1>3, Zenon DEF NewSession, resolved

\* Whatever a mode's cognition answers and operators request, every call
\* leaves a well-formed session and ledger in the store.
THEOREM TypeCorrect == Spec => []TypeOK
<1>1. Init => TypeOK
  BY NewSessionType DEF Init, TypeOK
<1>2. TypeOK /\ [Next]_vars => TypeOK'
  BY NextOutcome
<1> QED BY <1>1, <1>2, PTL DEF Spec

---------------------------------------------------------------------------
(* The ledger.  That an irreversible action counts once needs the consumed *)
(* row to be new in spent, so live and spent have to stay apart, so a      *)
(* token must never be issued again: the parts are inductive together.     *)

\* A token stands in one row only, as long as none is generated twice.
TokensBound == \A a, b \in live \cup spent : a[2] = b[2] => a = b

LedgerInv ==
  /\ TypeOK
  /\ IsFiniteSet(spent)
  /\ ApprovalsAccounted
  /\ TokensBound

LEMMA KeptKeeps ==
  ASSUME LedgerInv, TypeOK', Kept
  PROVE  LedgerInv'
<1>1. /\ live' = live /\ spent' = spent
      /\ session'.taken = session.taken /\ session'.token = session.token
  BY DEF Kept, ledger
<1> QED BY <1>1 DEF LedgerInv, ApprovalsAccounted, TokensBound

LEMMA GrantsKeeps ==
  ASSUME LedgerInv, TypeOK', Grants
  PROVE  LedgerInv'
<1>1. PICK hash \in Hashes, token \in Tokens :
        /\ \A row \in live \cup spent : row[2] # token
        /\ live' = live \cup {<<hash, token>>}
        /\ spent' = spent
        /\ session'.token = token /\ session'.taken = session.taken
  BY DEF Grants, Fresh, Issue
<1>2. /\ session.taken = Cardinality(spent) /\ live \cap spent = {}
      /\ \A a, b \in live \cup spent : a[2] = b[2] => a = b
      /\ IsFiniteSet(spent)
  BY DEF LedgerInv, ApprovalsAccounted, TokensBound
<1>3. <<hash, token>>[2] = token
  OBVIOUS
<1>4. live' \cap spent' = {}
  BY <1>1, <1>2, <1>3
<1>5. \A row \in spent' : row[2] # session'.token
  BY <1>1
<1>6. \A a, b \in live' \cup spent' : a[2] = b[2] => a = b
  BY <1>1, <1>2, <1>3
<1> QED BY <1>1, <1>2, <1>4, <1>5, <1>6 DEF LedgerInv, ApprovalsAccounted, TokensBound

LEMMA SpendsKeeps ==
  ASSUME LedgerInv, TypeOK', Spends(session.token)
  PROVE  LedgerInv'
<1>1. PICK row \in live :
        /\ live' = live \ {row} /\ spent' = spent \cup {row}
        /\ session'.taken = session.taken + 1 /\ session'.token = None
  BY DEF Spends, Consume
<1>2. /\ session.taken = Cardinality(spent) /\ live \cap spent = {}
      /\ \A a, b \in live \cup spent : a[2] = b[2] => a = b
      /\ IsFiniteSet(spent)
  BY DEF LedgerInv, ApprovalsAccounted, TokensBound
<1>3. row \notin spent
  BY <1>1, <1>2
<1>4. IsFiniteSet(spent') /\ session'.taken = Cardinality(spent')
  BY <1>1, <1>2, <1>3, FS_AddElement
<1>5. live' \cap spent' = {}
  BY <1>1, <1>2
<1>6. \A other \in spent' : other[2] # session'.token
  <2>1. \A other \in spent' : other[2] \in Tokens
    BY DEF TypeOK, Rows
  <2>2. None \notin Tokens
    BY RiskGateAssumption
  <2> QED BY <1>1, <2>1, <2>2
<1>7. \A a, b \in live' \cup spent' : a[2] = b[2] => a = b
  BY <1>1, <1>2
<1> QED BY <1>4, <1>5, <1>6, <1>7 DEF LedgerInv, ApprovalsAccounted, TokensBound

LEMMA LedgerInvariant == Spec => []LedgerInv
<1>1. Init => LedgerInv
  <2> SUFFICES ASSUME Init PROVE LedgerInv
    OBVIOUS
  <2>1. TypeOK
    BY NewSessionType DEF Init, TypeOK
  <2>2. session.taken = 0 /\ live = {} /\ spent = {}
    BY DEF Init, NewSession
  <2> QED BY <2>1, <2>2, FS_EmptySet DEF LedgerInv, ApprovalsAccounted, TokensBound
<1>2. LedgerInv /\ [Next]_vars => LedgerInv'
  <2> SUFFICES ASSUME LedgerInv, [Next]_vars PROVE LedgerInv'
    OBVIOUS
  <2>1. /\ TypeOK'
        /\ Kept \/ Grants \/ Spends(session.token)
    BY NextOutcome DEF LedgerInv
  <2> QED BY <2>1, KeptKeeps, GrantsKeeps, SpendsKeeps
<1> QED BY <1>1, <1>2, PTL DEF Spec

\* However calls are retried, repeated or refused, every irreversible action
\* taken has consumed an approval of its own.
THEOREM EveryApprovalAccounted == Spec => []ApprovalsAccounted
<1>1. LedgerInv => ApprovalsAccounted
  BY DEF LedgerInv
<1> QED BY <1>1, LedgerInvariant, PTL

\* The session runtime implements the abstract ledger of approvals.
THEOREM RuntimeImplementsLedger == Spec => ImplementsLedger
<1>1. Init => Ledger!Init
  BY DEF Init, NewSession, Ledger!Init
<1>2. TypeOK /\ [Next]_vars => [Ledger!Next]_<<live, spent, session.taken>>
  <2> SUFFICES ASSUME TypeOK, [Next]_vars
               PROVE  [Ledger!Next]_<<live, spent, session.taken>>
    OBVIOUS
  <2>1. CASE Kept
    BY <2>1 DEF Kept, ledger
  <2>2. CASE Grants
    BY <2>2 DEF Grants, Fresh, Issue, Ledger!Next, Ledger!Issue
  <2>3. CASE Spends(session.token)
    BY <2>3 DEF Spends, Consume, Ledger!Next, Ledger!Consume
  <2> QED BY <2>1, <2>2, <2>3, NextOutcome
<1> QED BY <1>1, <1>2, TypeCorrect, PTL DEF Spec, ImplementsLedger, Ledger!Spec

---------------------------------------------------------------------------
\* No stub fixture and no language model ever causes an irreversible action:
\* outside manual mode the ledger of spent approvals stays empty.
THEOREM OnlyManualModeSpends == Spec => []OnlyManualSpends
<1>1. Init => OnlyManualSpends
  BY DEF Init, NewSession, OnlyManualSpends
<1>2. TypeOK /\ OnlyManualSpends /\ [Next]_vars => OnlyManualSpends'
  BY NextOutcome DEF OnlyManualSpends, Kept, Grants, Issue, ledger
<1> QED BY <1>1, <1>2, TypeCorrect, PTL DEF Spec

---------------------------------------------------------------------------
(* Completion.                                                             *)

\* A request executes nothing and neither sets nor clears completion.
LEMMA OperatorExecutesNothing ==
  ASSUME TypeOK, Operator
  PROVE  session'.loops = session.loops /\ session'.complete = session.complete
<1>1. session \in Session
  BY DEF TypeOK
<1>2. CASE \E k \in Keys, value \in Texts : ResolveContradiction(k, value)
  BY <1>1, <1>2 DEF ResolveContradiction, Save, Oriented, Session
<1>3. CASE \/ \E scenario \in Scenarios \cup {None} : LoadObservation(scenario)
           \/ \E result \in Sensed : LoadFromMcp(result)
           \/ \E obs \in Injected : InjectObservation(obs)
  BY <1>1, <1>3 DEF LoadObservation, LoadFromMcp, InjectObservation, Save, Session
<1>4. CASE \/ \E id \in CandidateIds : SubmitDecide(id)
           \/ \E hash \in Hashes : Approve(hash)
           \/ AcknowledgeCheckpoint
  BY <1>1, <1>4 DEF SubmitDecide, Approve, AcknowledgeCheckpoint, Save, Session
<1> QED BY <1>2, <1>3, <1>4 DEF Operator

\* Once complete, a session executes and spends nothing more, whichever
\* requests still arrive.
THEOREM CompletionIsFinal == Spec => CompleteIsFinal
<1> DEFINE Step == session.complete =>
                     /\ session'.complete /\ ~Acted
                     /\ session'.taken = session.taken /\ spent' = spent
<1>1. TypeOK /\ [Next]_vars => [Step]_vars
  <2> SUFFICES ASSUME TypeOK, Next, session.complete PROVE Step
    OBVIOUS
  <2>1. CASE Operator
    <3>1. (Kept \/ Grants) /\ ~Acted /\ session'.complete
      BY <2>1, OperatorOutcome, OperatorExecutesNothing DEF Acted
    <3> QED BY <3>1 DEF Kept, Grants, Issue, ledger
  <2>2. CASE RunStep
    <3>1. Terminate
      BY <2>2 DEF RunStep, AwaitObservation, EscalateObservation, PauseForReview,
         EscalateOrientation, IgcFastPath, PauseForCheckpoint, OrientThenDecide,
         DecideStep, Halted, Stepping, Running
    <3>2. session' = [session EXCEPT !.phase = "complete"] /\ spent' = spent
      BY <3>1 DEF Terminate, Save, ledger
    <3> QED BY <3>2 DEF TypeOK, Session, Acted
  <2> QED BY <2>1, <2>2 DEF Next
<1> QED BY <1>1, TypeCorrect, PTL DEF Spec, CompleteIsFinal
=============================================================================
