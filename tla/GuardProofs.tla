----------------------------- MODULE GuardProofs -----------------------------
(***************************************************************************)
(* What stands between a session and an action, for every mode, fixture    *)
(* table and sequence of requests: the budget, the velocity checkpoint,    *)
(* and the choice of the operator.                                         *)
(***************************************************************************)
EXTENDS BeliefProofs

\* A copy on which nothing of the operator's has been used yet.
Mirror(s) ==
  /\ s \in Session
  /\ s.loops = session.loops /\ s.taken = session.taken /\ s.token = session.token
  /\ s.decideId = session.decideId /\ s.pending = session.pending

LEMMA SessionMirror ==
  ASSUME TypeOK
  PROVE  Mirror(session)
BY DEF TypeOK, Mirror

LEMMA OrientedMirror ==
  ASSUME TypeOK, session.obs # None, NEW result \in Orientations(session)
  PROVE  /\ Mirror(Oriented(session, result))
         /\ Oriented(session, result).orientation.budget = session.budget
<1>1. session \in Session
  BY DEF TypeOK
<1>2. Oriented(session, result) \in Session
  BY <1>1, OrientationsType, OrientedType
<1>3. /\ Oriented(session, result).loops = session.loops
      /\ Oriented(session, result).taken = session.taken
      /\ Oriented(session, result).token = session.token
      /\ Oriented(session, result).decideId = session.decideId
      /\ Oriented(session, result).pending = session.pending
      /\ Oriented(session, result).orientation.budget = session.budget
  BY <1>1 DEF Oriented, Session
<1> QED BY <1>2, <1>3 DEF Mirror

---------------------------------------------------------------------------
(* One call: what has to be true for it to act.                            *)

\* A call that escalates or pauses executes nothing and answers no choice.
LEMMA HoldingActsNot ==
  ASSUME NEW s \in Session,
         \/ \E reason : Escalate(s, reason)
         \/ \E request : Pause(s, request)
  PROVE  session'.loops = s.loops /\ session'.taken = s.taken
BY DEF Escalate, Pause, Save, Session

LEMMA PerformKeeps ==
  ASSUME NEW s \in Session, NEW action, Perform(s, action)
  PROVE  session'.decideId = s.decideId /\ session'.pending = s.pending
BY DEF Perform, Save, Session

LEMMA SettleActs ==
  ASSUME NEW s \in Session, s.loops = session.loops, NEW decision,
         Settle(s, decision), Acted
  PROVE  /\ decision.escalate = None
         /\ Execute(s, decision.action, decision.token)
         /\ Perform(s, decision.action)
<1>1. \/ Escalate(s, decision.escalate)
      \/ Pause(s, s.pending)
      \/ decision.escalate = None /\ Execute(s, decision.action, decision.token)
  BY Zenon DEF Settle
<1>2. /\ decision.escalate = None
      /\ Execute(s, decision.action, decision.token)
  BY <1>1, HoldingActsNot DEF Acted
<1>3. Perform(s, decision.action) \/ \E reason : Escalate(s, reason)
  BY <1>2, Zenon DEF Execute
<1> QED BY <1>2, <1>3, HoldingActsNot DEF Acted

LEMMA NobodyIsNamedNone ==
  ASSUME NEW candidates \in Seq(Candidate)
  PROVE  Named(candidates, None) = {}
<1>1. ASSUME NEW i \in DOMAIN candidates
      PROVE  candidates[i].id \in Names
  <2>1. candidates[i] \in Candidate
    OBVIOUS
  <2> QED BY <2>1, Zenon DEF Candidate
<1> QED BY <1>1, WorldModelAssumption DEF Named

LEMMA RefusalIsNoAction ==
  ASSUME NEW reason \in Reasons
  PROVE  Refuse(reason).escalate # None
BY RiskGateAssumption DEF Refuse

\* Whoever decides, nothing is decided on an exhausted budget.
LEMMA DecisionsHaveBudget ==
  ASSUME NEW orientation \in Snapshot, NEW candidates, NEW token, NEW chosen,
         NEW decision \in DecideWithRisk(orientation, candidates, token, chosen),
         decision.escalate = None
  PROVE  orientation.budget > 0
<1>1. orientation.budget \in Int
  BY DEF Snapshot
<1>2. ASSUME orientation.budget <= 0
      PROVE  FALSE
  <2>1. decision = Refuse("insufficient_orientation_confidence")
        \/ decision = Refuse("risk_budget_exhausted")
    BY <1>2, Zenon DEF DecideWithRisk
  <2> QED BY <2>1, RefusalIsNoAction DEF Reasons
<1> QED BY <1>1, <1>2

LEMMA StubDecisionsHaveBudget ==
  ASSUME NEW orientation \in Snapshot, NEW fixture,
         NEW decision \in StubDecide(orientation, fixture),
         decision.escalate = None
  PROVE  orientation.budget > 0
<1>1. orientation.budget \in Int
  BY DEF Snapshot
<1>2. ASSUME orientation.budget <= 0
      PROVE  FALSE
  <2>1. decision = Refuse("insufficient_orientation_confidence")
        \/ decision = Refuse("risk_budget_exhausted")
    BY <1>2, Zenon DEF StubDecide
  <2> QED BY <2>1, RefusalIsNoAction DEF Reasons
<1> QED BY <1>1, <1>2

\* Decide leads to Act only with budget left in the orientation, and in manual
\* mode only for a choice, which is used up.
LEMMA DecideActs ==
  ASSUME TypeOK, NEW s, Mirror(s), Decide(s), Acted
  PROVE  /\ s.orientation.budget > 0
         /\ Mode = "manual" => session.decideId # None /\ session'.decideId = None
<1>1. /\ s \in Session /\ s.loops = session.loops /\ s.decideId = session.decideId
  BY DEF Mirror
<1>2. s.orientation # None
  BY <1>1, HoldingActsNot DEF Decide, Acted
<1>3. s.orientation \in Snapshot
  BY <1>1, <1>2 DEF Session
<1>4. CASE Mode = "manual" /\ DecideManually(s)
  <2>1. CASE \E request : Pause(s, request)
    BY <1>1, <2>1, HoldingActsNot DEF Acted
  <2>2. CASE UNCHANGED vars
    BY <2>2 DEF vars, Acted
  <2>3. ASSUME NEW chosen \in Named(ManualCandidates, s.decideId), s.decideId # None,
               NEW decision \in
                 DecideWithRisk(s.orientation, ManualCandidates, s.token, chosen),
               Settle(UseChoice(s), decision)
        PROVE  /\ s.orientation.budget > 0
               /\ session.decideId # None /\ session'.decideId = None
    <3>1. /\ UseChoice(s) \in Session /\ UseChoice(s).loops = session.loops
          /\ UseChoice(s).decideId = None
      BY <1>1 DEF UseChoice, Session
    <3>2. decision.escalate = None /\ Perform(UseChoice(s), decision.action)
      BY <2>3, <3>1, SettleActs
    <3>3. session'.decideId = None
      BY <3>1, <3>2, PerformKeeps
    <3> QED BY <1>1, <1>3, <2>3, <3>2, <3>3, DecisionsHaveBudget
  <2>4. \/ Pause(s, "decide") \/ Pause(s, "approve")
        \/ UNCHANGED vars
        \/ \E chosen \in Named(ManualCandidates, s.decideId) :
             \E decision \in
               DecideWithRisk(s.orientation, ManualCandidates, s.token, chosen) :
               Settle(UseChoice(s), decision)
    BY <1>4, Zenon DEF DecideManually
  <2>5. s.decideId = None => Pause(s, "decide") \/ UNCHANGED vars \/
           \E chosen \in Named(ManualCandidates, None) : TRUE
    BY <1>4, Zenon DEF DecideManually
  <2>6. Named(ManualCandidates, None) = {}
    BY ManualCandidatesType, NobodyIsNamedNone
  <2> QED BY <2>1, <2>2, <2>3, <2>4, <2>5, <2>6
<1>5. ASSUME NEW decision, Settle(s, decision)
      PROVE  decision.escalate = None
  BY <1>1, <1>5, SettleActs
<1>6. CASE Mode = "stub" /\
           \E decision \in StubDecide(s.orientation, FixtureOf(s)) : Settle(s, decision)
  BY <1>3, <1>5, <1>6, StubDecisionsHaveBudget
<1>7. CASE Mode = "live" /\
           \E decision \in LiveDecide(s.orientation, FixtureOf(s)) : Settle(s, decision)
  <2>1. PICK decision \in LiveDecide(s.orientation, FixtureOf(s)) : Settle(s, decision)
    BY <1>7
  <2>2. \E candidates, chosen :
          decision \in DecideWithRisk(s.orientation, candidates, None, chosen)
    BY <2>1 DEF LiveDecide
  <2> QED BY <1>3, <1>5, <1>7, <2>1, <2>2, DecisionsHaveBudget
<1> QED BY <1>2, <1>4, <1>6, <1>7, Zenon DEF Decide

\* The three ways to act.
LEMMA HowToAct ==
  ASSUME TypeOK, Next, Acted \/ session'.taken # session.taken
  PROVE  IgcFastPath \/ OrientThenDecide \/ DecideStep
<1>1. session \in Session
  BY DEF TypeOK
<1>2. CASE Operator
  BY <1>2, OperatorExecutesNothing, OperatorOutcome DEF Acted, Kept, Grants
<1>3. CASE EscalateObservation
  BY <1>1, <1>3, HoldingActsNot DEF EscalateObservation, Acted
<1>4. CASE Terminate \/ AwaitObservation \/ Halted
  BY <1>1, <1>4 DEF Terminate, AwaitObservation, Halted, vars, Save, Session, Acted
<1>5. CASE PauseForReview \/ EscalateOrientation \/ PauseForCheckpoint
  <2>1. PICK result \in Orientations(session) :
          \/ \E reason : Escalate(Oriented(session, result), reason)
          \/ \E request : Pause(Oriented(session, result), request)
    BY <1>5, Zenon DEF PauseForReview, EscalateOrientation, PauseForCheckpoint
  <2>2. session.obs # None
    BY <1>5
    DEF PauseForReview, EscalateOrientation, PauseForCheckpoint, Stepping, Running
  <2> QED BY <2>1, <2>2, OrientedMirror, HoldingActsNot DEF Mirror, Acted
<1> QED BY <1>2, <1>3, <1>4, <1>5 DEF Next, RunStep

---------------------------------------------------------------------------
(* Theorems.                                                               *)

\* A cycle that starts at Observe and reaches Act through Decide had budget
\* left, whatever a fixture or a model makes of it.
THEOREM FreshCyclesAreFunded == Spec => FreshCyclesHaveBudget
<1> DEFINE Step == Acted /\ session.phase = "observe" /\ ~IgcFastPath
                     => session.budget > 0
<1>1. TypeOK /\ [Next]_vars => [Step]_vars
  <2> SUFFICES ASSUME TypeOK, Next, Acted, session.phase = "observe", ~IgcFastPath
               PROVE  session.budget > 0
    OBVIOUS
  <2>1. OrientThenDecide
    BY HowToAct DEF DecideStep, Stepping
  <2>2. PICK result \in Orientations(session) : Decide(Oriented(session, result))
    BY <2>1 DEF OrientThenDecide
  <2>3. session.obs # None
    BY <2>1 DEF OrientThenDecide, Stepping, Running
  <2> QED BY <2>2, <2>3, OrientedMirror, DecideActs
<1> QED BY <1>1, TypeCorrect, PTL DEF Spec, FreshCyclesHaveBudget

\* At a checkpoint a high-stakes session acts only from Decide, where only an
\* operator's request can have put it.
THEOREM CheckpointsAlwaysHold == Spec => CheckpointsHold
<1> DEFINE Step == Acted /\ CheckpointDue(session) => session.phase = "decide"
<1>1. TypeOK /\ [Next]_vars => [Step]_vars
  <2> SUFFICES ASSUME TypeOK, Next, Acted, CheckpointDue(session)
               PROVE  session.phase = "decide"
    OBVIOUS
  <2>1. ~IgcFastPath
    BY DEF IgcFastPath, MatchedRules, IgcAllowed, CheckpointDue
  <2>2. DecideStep
    BY <2>1, HowToAct DEF OrientThenDecide
  <2> QED BY <2>2 DEF DecideStep, Stepping
<1> QED BY <1>1, TypeCorrect, PTL DEF Spec, CheckpointsHold

\* In manual mode without IG&C every action answers a choice of the operator
\* and uses it up.
THEOREM EveryActionWasChosen ==
  ASSUME Mode = "manual", ~IgcManual
  PROVE  Spec => ActsOnOneChoice
<1> DEFINE Step == Acted => session.decideId # None /\ session'.decideId = None
<1>1. TypeOK /\ [Next]_vars => [Step]_vars
  <2> SUFFICES ASSUME TypeOK, Next, Acted
               PROVE  session.decideId # None /\ session'.decideId = None
    OBVIOUS
  <2>1. ~IgcFastPath
    BY DEF IgcFastPath, MatchedRules, IgcAllowed
  <2>2. CASE OrientThenDecide
    <3>1. PICK result \in Orientations(session) : Decide(Oriented(session, result))
      BY <2>2 DEF OrientThenDecide
    <3>2. session.obs # None
      BY <2>2 DEF OrientThenDecide, Stepping, Running
    <3> QED BY <3>1, <3>2, OrientedMirror, DecideActs
  <2>3. CASE DecideStep
    BY <2>3, SessionMirror, DecideActs DEF DecideStep
  <2> QED BY <2>1, <2>2, <2>3, HowToAct
<1> QED BY <1>1, TypeCorrect, PTL DEF Spec, ActsOnOneChoice

---------------------------------------------------------------------------
(* The irreversible action.                                                *)

\* What the three manual candidates are: only the dearest is irreversible.
LEMMA ManualMenu ==
  /\ DOMAIN ManualCandidates = 1..3
  /\ \A i \in 1..3 :
       /\ ManualCandidates[i].irreversible <=> i = 2
       /\ ManualCandidates[i].cost <= ManualCandidates[2].cost
       /\ ManualCandidates[i].cost \in Nat
<1> DEFINE a == Reversible("A", "Investigate", 2, 3)
           b == Irreversible("B", "Close case", 10, 5, "close_case")
           c == Reversible("C", "Defer", 1, 1)
<1>1. /\ ~a.irreversible /\ b.irreversible /\ ~c.irreversible
      /\ a.cost = 2 /\ b.cost = 10 /\ c.cost = 1
  BY DEF Irreversible, Reversible
<1>2. ManualCandidates = <<a, b, c>>
  BY DEF ManualCandidates
<1> HIDE DEF a, b, c
<1> QED BY <1>1, <1>2

LEMMA NamedOnMenu ==
  ASSUME NEW id, NEW chosen \in Named(ManualCandidates, id)
  PROVE  \E j \in 1..3 : chosen = ManualCandidates[j]
BY ManualMenu DEF Named

\* When the irreversible candidate is viable all are, so it never stands in for
\* another choice.
LEMMA IrreversibleIsNoFallback ==
  ASSUME NEW orientation \in Snapshot, NEW token, token # None, NEW id,
         NEW chosen \in Named(ManualCandidates, id),
         NEW decision \in DecideWithRisk(orientation, ManualCandidates, token, chosen),
         decision.escalate = None, decision.action.irreversible
  PROVE  decision.action = chosen /\ decision.token = token
<1> DEFINE viable == Viable(ManualCandidates, orientation.budget, token)
<1>1. orientation.budget \in Int
  BY DEF Snapshot
<1>2. PICK j \in 1..3 : chosen = ManualCandidates[j]
  BY NamedOnMenu
<1>3. 2 \in viable => j \in viable
  BY <1>1, ManualMenu DEF Viable
<1>4. viable \subseteq 1..3
  BY ManualMenu DEF Viable
<1> HIDE DEF viable
<1>5. CASE \E reason \in Reasons : decision = Refuse(reason)
  BY <1>5, RefusalIsNoAction
<1>6. CASE decision = Take(chosen, token)
  BY <1>6 DEF Take
<1>7. CASE /\ ~ \E i \in viable : ManualCandidates[i] = chosen
           /\ \E i \in viable : decision = Take(ManualCandidates[i], token)
  <2>1. PICK i \in viable : decision = Take(ManualCandidates[i], token)
    BY <1>7
  <2>2. ManualCandidates[i].irreversible
    BY <2>1 DEF Take
  <2>3. i = 2
    BY <1>4, <2>2, ManualMenu
  <2> QED BY <1>2, <1>3, <1>7, <2>1, <2>3
<1>8. \/ decision = Refuse("insufficient_orientation_confidence")
      \/ decision = Refuse("risk_budget_exhausted")
      \/ decision = Refuse("no_viable_candidates")
      \/ decision = Take(chosen, token)
      \/ /\ ~ \E i \in viable : ManualCandidates[i] = chosen
         /\ decision \in {Take(ManualCandidates[i], token) :
                            i \in Best(ManualCandidates, viable)}
  BY Zenon DEF DecideWithRisk, viable
<1> QED BY <1>5, <1>6, <1>7, <1>8 DEF Reasons, Best

LEMMA IrreversibleSettles ==
  ASSUME NEW s \in Session, s.taken = session.taken, NEW action, NEW token,
         Execute(s, action, token), session'.taken # session.taken
  PROVE  /\ action.irreversible
         /\ <<action.hash, token>> \in live \ live'
<1>1. \A reason : ~Escalate(s, reason)
  BY DEF Escalate, Save, Session
<1>2. Perform(s, action) => action.irreversible
  BY DEF Perform, Save, Session
<1>3. \/ ~action.irreversible /\ Perform(s, action)
      \/ \E reason : Escalate(s, reason)
      \/ /\ action.irreversible /\ IsLive(<<action.hash, token>>)
         /\ Consume(<<action.hash, token>>)
  BY Zenon DEF Execute
<1> QED BY <1>1, <1>2, <1>3 DEF IsLive, Consume

\* A decision rests on the operator's choice and the row of its hash.
Chosen ==
  \E c \in Named(ManualCandidates, session.decideId) :
    /\ c.irreversible
    /\ <<c.hash, session.token>> \in live \ live'

LEMMA DecideSpendsTheChosen ==
  ASSUME TypeOK, NEW s, Mirror(s), Decide(s), session'.taken # session.taken
  PROVE  Chosen
<1>1. /\ s \in Session /\ s.loops = session.loops /\ s.taken = session.taken
      /\ s.token = session.token /\ s.decideId = session.decideId
  BY DEF Mirror
<1>2. Mode = "manual" /\ session.token \in Tokens
  BY <1>1, DecideOutcome DEF Copy, Kept
<1>3. session.token # None
  BY <1>2, RiskGateAssumption
<1>4. \A reason : ~Escalate(s, reason)
  BY <1>1, HoldingActsNot
<1>5. \A request : ~Pause(s, request)
  BY <1>1, HoldingActsNot
<1>6. s.orientation # None /\ DecideManually(s)
  BY <1>2, <1>4, Zenon DEF Decide
<1>7. s.orientation \in Snapshot
  BY <1>1, <1>6 DEF Session
<1>8. ~UNCHANGED vars
  BY DEF vars
<1>9. PICK chosen \in Named(ManualCandidates, s.decideId) :
        \E decision \in DecideWithRisk(s.orientation, ManualCandidates, s.token, chosen) :
          Settle(UseChoice(s), decision)
  BY <1>5, <1>6, <1>8, Zenon DEF DecideManually
<1>10. PICK decision \in
              DecideWithRisk(s.orientation, ManualCandidates, s.token, chosen) :
         Settle(UseChoice(s), decision)
  BY <1>9
<1>11. UseChoice(s) \in Session /\ UseChoice(s).taken = session.taken
  BY <1>1 DEF UseChoice, Session
<1>12. /\ decision.escalate = None
       /\ Execute(UseChoice(s), decision.action, decision.token)
  <2>1. \/ Escalate(UseChoice(s), decision.escalate)
        \/ Pause(UseChoice(s), UseChoice(s).pending)
        \/ /\ decision.escalate = None
           /\ Execute(UseChoice(s), decision.action, decision.token)
    BY <1>10, Zenon DEF Settle
  <2> QED BY <1>11, <2>1, HoldingActsNot
<1>13. /\ decision.action.irreversible
       /\ <<decision.action.hash, decision.token>> \in live \ live'
  BY <1>11, <1>12, IrreversibleSettles
<1>14. decision.action = chosen /\ decision.token = s.token
  BY <1>1, <1>3, <1>7, <1>10, <1>12, <1>13, IrreversibleIsNoFallback
<1> QED BY <1>1, <1>13, <1>14 DEF Chosen

LEMMA CallSpendsTheChosen ==
  ASSUME TypeOK, Next, session'.taken # session.taken
  PROVE  Chosen
<1>1. CASE Operator
  BY <1>1, OperatorOutcome DEF Kept, Grants
<1>2. CASE RunStep
  <2>1. CASE IgcFastPath
    <3>1. PICK result \in Orientations(session) : \E rule \in MatchedRules(result) :
            Execute(Oriented(session, result), IgcAction(rule), None)
      BY <2>1, Zenon DEF IgcFastPath
    <3>2. PICK rule \in MatchedRules(result) :
            Execute(Oriented(session, result), IgcAction(rule), None)
      BY <3>1
    <3>3. session.obs # None
      BY <2>1 DEF IgcFastPath, Stepping, Running
    <3>4. IgcAction(rule) \in Candidate /\ None \notin Tokens
      BY <3>2, IgcActionType, RiskGateAssumption
    <3> QED BY <3>2, <3>3, <3>4, OrientedCopy, ExecuteOutcome DEF Kept
  <2>2. CASE OrientThenDecide
    <3>1. PICK result \in Orientations(session) : Decide(Oriented(session, result))
      BY <2>2 DEF OrientThenDecide
    <3>2. session.obs # None
      BY <2>2 DEF OrientThenDecide, Stepping, Running
    <3> QED BY <3>1, <3>2, OrientedMirror, DecideSpendsTheChosen
  <2>3. CASE DecideStep
    BY <2>3, SessionMirror, DecideSpendsTheChosen DEF DecideStep
  <2> QED BY <2>1, <2>2, <2>3, HowToAct
<1> QED BY <1>1, <1>2 DEF Next

\* The irreversible action is taken only for an operator who chose it, on an
\* approval of its own hash: no fallback and no other approval leads to it.
THEOREM IrreversibleActionsWereChosen == Spec => IrreversibleWasChosen
<1>1. TypeOK /\ [Next]_vars => [session'.taken # session.taken => Chosen]_vars
  BY CallSpendsTheChosen
<1> QED BY <1>1, TypeCorrect, PTL DEF Spec, IrreversibleWasChosen, Chosen

---------------------------------------------------------------------------
(* Requests on display.                                                    *)

OpenIn(s) ==
  /\ s.pending = "decide" => s.decideId = None
  /\ s.pending = "approve" =>
       /\ s.token = None
       /\ \E c \in Named(ManualCandidates, s.decideId) : c.irreversible

LEMMA SameRequest ==
  ASSUME NEW s, NEW t, OpenIn(s), t.pending = s.pending, t.decideId = s.decideId,
         t.token \in {s.token, None}
  PROVE  OpenIn(t)
BY DEF OpenIn

LEMMA EscalateOpen ==
  ASSUME NEW s \in Session, OpenIn(s), NEW reason, Escalate(s, reason)
  PROVE  OpenIn(session')
BY SameRequest DEF Escalate, Save, Session

LEMMA PauseFields ==
  ASSUME NEW s \in Session, NEW request, Pause(s, request)
  PROVE  /\ session'.pending = request
         /\ session'.decideId = s.decideId /\ session'.token = s.token
BY DEF Pause, Save, Session

LEMMA ExecuteOpen ==
  ASSUME NEW s \in Session, OpenIn(s), NEW action, NEW token, Execute(s, action, token)
  PROVE  OpenIn(session')
<1>1. CASE Perform(s, action)
  <2>1. session'.token \in {s.token, None}
    BY <1>1 DEF Perform, Save, Session
  <2> QED BY <1>1, <2>1, PerformKeeps, SameRequest
<1>2. Perform(s, action) \/ \E reason : Escalate(s, reason)
  BY Zenon DEF Execute
<1> QED BY <1>1, <1>2, EscalateOpen

LEMMA SettleOpen ==
  ASSUME NEW s \in Session, OpenIn(s), NEW decision, Settle(s, decision)
  PROVE  OpenIn(session')
<1>1. CASE Pause(s, s.pending)
  BY <1>1, PauseFields, SameRequest
<1>2. \/ Escalate(s, decision.escalate)
      \/ Pause(s, s.pending)
      \/ Execute(s, decision.action, decision.token)
  BY Zenon DEF Settle
<1> QED BY <1>1, <1>2, EscalateOpen, ExecuteOpen

LEMMA OneIsNamed ==
  ASSUME NEW candidates \in Seq(Candidate), NEW id,
         NEW c \in Named(candidates, id), NEW d \in Named(candidates, id)
  PROVE  c = d
<1>1. PICK i \in DOMAIN candidates :
        /\ c = candidates[i] /\ candidates[i].id = id
        /\ \A h \in DOMAIN candidates : candidates[h].id = id => i <= h
  BY DEF Named
<1>2. PICK j \in DOMAIN candidates :
        /\ d = candidates[j] /\ candidates[j].id = id
        /\ \A h \in DOMAIN candidates : candidates[h].id = id => j <= h
  BY DEF Named
<1>3. i \in Nat /\ j \in Nat /\ i <= j /\ j <= i
  BY <1>1, <1>2
<1> QED BY <1>1, <1>2, <1>3

\* A choice is used up only when nothing it asked for is still on display.
LEMMA DecideOpen ==
  ASSUME NEW s \in Session, OpenIn(s), OpenIn(session), Decide(s)
  PROVE  OpenIn(session')
<1>1. CASE Mode = "manual" /\ DecideManually(s)
  <2>1. CASE s.decideId = None /\ Pause(s, "decide")
    BY <2>1, PauseFields DEF OpenIn
  <2>2. CASE UNCHANGED vars
    BY <2>2 DEF vars, OpenIn
  <2>3. ASSUME NEW chosen \in Named(ManualCandidates, s.decideId),
               chosen.irreversible, s.token = None, Pause(s, "approve")
        PROVE  OpenIn(session')
    BY <2>3, PauseFields DEF OpenIn
  <2>4. ASSUME NEW chosen \in Named(ManualCandidates, s.decideId),
               chosen.irreversible => s.token # None,
               NEW decision, Settle(UseChoice(s), decision)
        PROVE  OpenIn(session')
    <3>1. s.decideId # None
      BY <2>4, ManualCandidatesType, NobodyIsNamedNone
    <3>2. \A c \in Named(ManualCandidates, s.decideId) : c = chosen
      BY <2>4, ManualCandidatesType, OneIsNamed
    <3>3. s.pending \notin {"decide", "approve"}
      BY <2>4, <3>1, <3>2 DEF OpenIn
    <3>4. UseChoice(s) \in Session /\ UseChoice(s).pending = s.pending
      BY DEF UseChoice, Session
    <3>5. OpenIn(UseChoice(s))
      BY <3>3, <3>4 DEF OpenIn
    <3> QED BY <2>4, <3>4, <3>5, SettleOpen
  <2> QED BY <1>1, <2>1, <2>2, <2>3, <2>4, Zenon DEF DecideManually
<1>2. ASSUME NEW decision, Settle(s, decision)
      PROVE  OpenIn(session')
  BY <1>2, SettleOpen
<1>3. CASE Escalate(s, "missing_orientation")
  BY <1>3, EscalateOpen
<1> QED BY <1>1, <1>2, <1>3, Zenon DEF Decide

LEMMA RunStepOpen ==
  ASSUME TypeOK, OpenIn(session), RunStep
  PROVE  OpenIn(session')
<1>1. session \in Session
  BY DEF TypeOK
<1>2. CASE Terminate \/ AwaitObservation
  BY <1>1, <1>2, SameRequest DEF Terminate, AwaitObservation, Save, Session
<1>3. CASE EscalateObservation \/ DecideStep
  BY <1>1, <1>3, EscalateOpen, DecideOpen DEF EscalateObservation, DecideStep
<1>4. CASE Halted
  BY <1>4 DEF Halted, vars, OpenIn
<1>5. ASSUME NEW result \in Orientations(session), session.obs # None
      PROVE  Oriented(session, result) \in Session /\ OpenIn(Oriented(session, result))
  BY <1>5, OrientedMirror, SameRequest DEF Mirror
<1>6. CASE PauseForReview \/ PauseForCheckpoint
  <2>1. PICK result \in Orientations(session) :
          /\ session.obs # None
          /\ \/ Pause(Oriented(session, result), "orient")
             \/ Pause(Oriented(session, result), "velocity_checkpoint")
    BY <1>6 DEF PauseForReview, PauseForCheckpoint, Stepping, Running
  <2>2. session'.pending \in {"orient", "velocity_checkpoint"}
    BY <1>5, <2>1, PauseFields
  <2> QED BY <2>2 DEF OpenIn
<1>7. CASE EscalateOrientation \/ IgcFastPath \/ OrientThenDecide
  <2>1. PICK result \in Orientations(session) :
          /\ session.obs # None
          /\ \/ \E reason : Escalate(Oriented(session, result), reason)
             \/ \E action, token : Execute(Oriented(session, result), action, token)
             \/ Decide(Oriented(session, result))
    BY <1>7, Zenon
    DEF EscalateOrientation, IgcFastPath, OrientThenDecide, Stepping, Running
  <2> QED BY <1>5, <2>1, EscalateOpen, ExecuteOpen, DecideOpen
<1> QED BY <1>2, <1>3, <1>4, <1>6, <1>7 DEF RunStep

LEMMA AnsweredRequest ==
  ASSUME NEW s, s.pending = None
  PROVE  OpenIn(s)
BY RuntimeAssumption DEF OpenIn, Requests

LEMMA ResolvingAnswers ==
  ASSUME session \in Session, NEW k, NEW value, ResolveContradiction(k, value)
  PROVE  session'.pending = None /\ session'.decideId = session.decideId
<1> DEFINE resolved == [session.resolved EXCEPT ![k] = value]
           facts == ResolvedFacts(session.facts, resolved)
           contradictions == ResolvedContradictions(session.contradictions, resolved)
           settled == [session EXCEPT
                         !.resolved = resolved, !.pending = None, !.phase = "decide",
                         !.facts = facts, !.contradictions = contradictions]
           result == Orient(session.obs, settled.facts, settled.contradictions, resolved)
<1>1. session' \in {settled, Oriented(settled, result)}
  BY Zenon DEF ResolveContradiction, Save
<1> HIDE DEF resolved, facts, contradictions, result
<1>2. settled.pending = None /\ settled.decideId = session.decideId
  BY DEF Session
<1>3. /\ Oriented(settled, result).pending = None
      /\ Oriented(settled, result).decideId = session.decideId
  BY <1>2 DEF Oriented, Session
<1> QED BY <1>1, <1>2, <1>3

LEMMA OperatorOpen ==
  ASSUME TypeOK, OpenIn(session), Operator
  PROVE  OpenIn(session')
<1>1. session \in Session
  BY DEF TypeOK
<1>2. CASE \/ \E scenario \in Scenarios \cup {None} : LoadObservation(scenario)
           \/ \E result \in Sensed : LoadFromMcp(result)
           \/ \E obs \in Injected : InjectObservation(obs)
  BY <1>1, <1>2, SameRequest
  DEF LoadObservation, LoadFromMcp, InjectObservation, Save, Session
<1>3. CASE \/ \E k \in Keys, value \in Texts : ResolveContradiction(k, value)
           \/ \E id \in CandidateIds : SubmitDecide(id)
           \/ \E hash \in Hashes : Approve(hash)
           \/ AcknowledgeCheckpoint
  <2>1. CASE \E k \in Keys, value \in Texts : ResolveContradiction(k, value)
    <3>1. session'.pending = None
      BY <1>1, <2>1, ResolvingAnswers
    <3> QED BY <3>1, AnsweredRequest
  <2>2. CASE \/ \E id \in CandidateIds : SubmitDecide(id)
             \/ \E hash \in Hashes : Approve(hash)
             \/ AcknowledgeCheckpoint
    <3>1. session'.pending = None
      BY <1>1, <2>2 DEF SubmitDecide, Approve, AcknowledgeCheckpoint, Save, Session
    <3> QED BY <3>1, AnsweredRequest
  <2> QED BY <1>3, <2>1, <2>2
<1> QED BY <1>2, <1>3 DEF Operator

\* A request shown to the operator is never answered already: whatever has been
\* submitted, approved, used up or loaded since it was raised.
THEOREM RequestsStayOpen == Spec => []RequestsAreOpen
<1>1. Init => OpenIn(session)
  BY RuntimeAssumption DEF Init, NewSession, OpenIn, Requests
<1>2. TypeOK /\ OpenIn(session) /\ [Next]_vars => OpenIn(session)'
  <2> SUFFICES ASSUME TypeOK, OpenIn(session), [Next]_vars PROVE OpenIn(session')
    BY DEF OpenIn
  <2>1. CASE UNCHANGED vars
    BY <2>1 DEF vars
  <2> QED BY <2>1, RunStepOpen, OperatorOpen DEF Next
<1>3. OpenIn(session) <=> RequestsAreOpen
  BY DEF OpenIn, RequestsAreOpen
<1> QED BY <1>1, <1>2, <1>3, TypeCorrect, PTL DEF Spec
---------------------------------------------------------------------------
(* What becomes of a choice.                                               *)

UsedUp == session.decideId # None /\ session'.decideId = None

\* It was executed or refused, or was shelved by an older request.
Met ==
  \/ Acted
  \/ session'.phase = "escalated"
  \/ /\ session'.phase = "paused"
     /\ session'.pending = session.pending
     /\ session.pending \in {"orient", "velocity_checkpoint"}

LEMMA EscalateMeets ==
  ASSUME NEW s \in Session, NEW reason, Escalate(s, reason)
  PROVE  Met
BY DEF Escalate, Save, Session, Met

LEMMA ExecuteMeets ==
  ASSUME NEW s \in Session, s.loops = session.loops, NEW action, NEW token,
         Execute(s, action, token)
  PROVE  Met
<1>1. CASE Perform(s, action)
  <2>1. session'.loops = s.loops + 1 /\ s.loops \in Nat
    BY <1>1 DEF Perform, Save, Session
  <2> QED BY <2>1 DEF Met, Acted
<1>2. Perform(s, action) \/ \E reason : Escalate(s, reason)
  BY Zenon DEF Execute
<1> QED BY <1>1, <1>2, EscalateMeets

LEMMA SettleMeets ==
  ASSUME NEW s \in Session, s.loops = session.loops, s.pending = session.pending,
         Mode = "manual" => s.pending \notin {"decide", "approve"},
         NEW decision, Settle(s, decision)
  PROVE  Met
<1>1. \/ Escalate(s, decision.escalate)
      \/ Execute(s, decision.action, decision.token)
      \/ s.pending # None /\ Mode = "manual" /\ Pause(s, s.pending)
  BY Zenon DEF Settle
<1>2. CASE s.pending # None /\ Mode = "manual" /\ Pause(s, s.pending)
  <2>1. session'.phase = "paused" /\ session'.pending = s.pending
    BY <1>2 DEF Pause, Save, Session
  <2>2. s.pending \in Requests \cup {None}
    BY DEF Session
  <2> QED BY <1>2, <2>1, <2>2 DEF Requests, Met
<1> QED BY <1>1, <1>2, EscalateMeets, ExecuteMeets

\* Decide uses up a choice only when neither a candidate nor an approval is
\* being asked for: that request would have been answered already.
LEMMA DecideMeets ==
  ASSUME NEW s, Mirror(s), OpenIn(s), Decide(s), UsedUp
  PROVE  Met
<1>0. /\ s \in Session /\ s.loops = session.loops
      /\ s.pending = session.pending /\ s.decideId = session.decideId
  BY DEF Mirror
<1>1. CASE Mode = "manual" /\ DecideManually(s)
  <2>1. CASE \E request : Pause(s, request)
    BY <1>0, <2>1, PauseFields DEF UsedUp
  <2>2. CASE UNCHANGED vars
    BY <2>2 DEF vars, UsedUp
  <2>3. ASSUME NEW chosen \in Named(ManualCandidates, s.decideId),
               chosen.irreversible => s.token # None,
               NEW decision, Settle(UseChoice(s), decision)
        PROVE  Met
    <3>1. \A c \in Named(ManualCandidates, s.decideId) : c = chosen
      BY <2>3, ManualCandidatesType, OneIsNamed
    <3>2. s.pending \notin {"decide", "approve"}
      BY <1>0, <2>3, <3>1 DEF OpenIn, UsedUp
    <3>3. /\ UseChoice(s) \in Session /\ UseChoice(s).pending = s.pending
          /\ UseChoice(s).loops = s.loops
      BY <1>0 DEF UseChoice, Session
    <3> QED BY <1>0, <2>3, <3>2, <3>3, SettleMeets
  <2> QED BY <1>1, <2>1, <2>2, <2>3, Zenon DEF DecideManually
<1>2. ASSUME Mode # "manual", NEW decision, Settle(s, decision)
      PROVE  Met
  BY <1>0, <1>2, SettleMeets
<1>3. CASE Escalate(s, "missing_orientation")
  BY <1>0, <1>3, EscalateMeets
<1>4. Mode = "stub" \/ Mode = "live" => Mode # "manual"
  OBVIOUS
<1> QED BY <1>1, <1>2, <1>3, <1>4, Zenon DEF Decide

LEMMA RunStepMeets ==
  ASSUME TypeOK, OpenIn(session), RunStep, UsedUp
  PROVE  Met
<1>1. session \in Session
  BY DEF TypeOK
<1>2. CASE Terminate \/ AwaitObservation \/ Halted
  BY <1>1, <1>2 DEF Terminate, AwaitObservation, Halted, vars, Save, Session, UsedUp
<1>3. CASE EscalateObservation \/ DecideStep
  BY <1>1, <1>3, EscalateMeets, DecideMeets, SessionMirror
  DEF EscalateObservation, DecideStep
<1>4. ASSUME NEW result \in Orientations(session), session.obs # None
      PROVE  /\ Mirror(Oriented(session, result))
             /\ OpenIn(Oriented(session, result))
  BY <1>4, OrientedMirror, SameRequest DEF Mirror
<1>5. CASE PauseForReview \/ PauseForCheckpoint
  <2>1. PICK result \in Orientations(session) :
          /\ session.obs # None
          /\ \E request : Pause(Oriented(session, result), request)
    BY <1>5, Zenon DEF PauseForReview, PauseForCheckpoint, Stepping, Running
  <2> QED BY <1>4, <2>1, PauseFields DEF Mirror, UsedUp
<1>6. CASE EscalateOrientation \/ IgcFastPath \/ OrientThenDecide
  <2>1. PICK result \in Orientations(session) :
          /\ session.obs # None
          /\ \/ \E reason : Escalate(Oriented(session, result), reason)
             \/ \E action, token : Execute(Oriented(session, result), action, token)
             \/ Decide(Oriented(session, result))
    BY <1>6, Zenon
    DEF EscalateOrientation, IgcFastPath, OrientThenDecide, Stepping, Running
  <2> QED BY <1>4, <2>1, EscalateMeets, ExecuteMeets, DecideMeets DEF Mirror
<1> QED BY <1>2, <1>3, <1>5, <1>6 DEF RunStep

LEMMA OperatorKeepsTheChoice ==
  ASSUME TypeOK, Operator
  PROVE  ~UsedUp
<1>1. session \in Session
  BY DEF TypeOK
<1>2. CASE \E id \in CandidateIds : SubmitDecide(id)
  <2>1. \A id \in CandidateIds : id # None
    BY RuntimeAssumption, WorldModelAssumption
  <2> QED BY <1>1, <1>2, <2>1 DEF SubmitDecide, Save, Session, UsedUp
<1>3. CASE \E k \in Keys, value \in Texts : ResolveContradiction(k, value)
  BY <1>1, <1>3, ResolvingAnswers DEF UsedUp
<1>4. CASE \/ \E scenario \in Scenarios \cup {None} : LoadObservation(scenario)
           \/ \E result \in Sensed : LoadFromMcp(result)
           \/ \E obs \in Injected : InjectObservation(obs)
           \/ \E hash \in Hashes : Approve(hash)
           \/ AcknowledgeCheckpoint
  BY <1>1, <1>4
  DEF LoadObservation, LoadFromMcp, InjectObservation, Approve,
      AcknowledgeCheckpoint, Save, Session, UsedUp
<1> QED BY <1>2, <1>3, <1>4 DEF Operator

\* No choice disappears: using one up means to act, to refuse, or to shelve it
\* behind a review or checkpoint that was waiting for an answer before.
THEOREM NoChoiceDisappears == Spec => ChoicesAreAnswered
<1>1. TypeOK /\ RequestsAreOpen /\ [Next]_vars => [UsedUp => Met]_vars
  <2> SUFFICES ASSUME TypeOK, RequestsAreOpen, Next, UsedUp PROVE Met
    OBVIOUS
  <2>1. OpenIn(session)
    BY DEF OpenIn, RequestsAreOpen
  <2> QED BY <2>1, RunStepMeets, OperatorKeepsTheChoice DEF Next
<1>2. ChoicesAreAnswered <=> [][UsedUp => Met]_vars
  BY DEF ChoicesAreAnswered, UsedUp, Met
<1> QED BY <1>1, <1>2, TypeCorrect, RequestsStayOpen, PTL DEF Spec
---------------------------------------------------------------------------
(* One call, for the modules in which a call works on a copy.              *)

\* What holds of a session whichever calls it has been through.
Coherent(s) ==
  /\ s \in Session
  /\ OpenIn(s)
  /\ Mode # "stub" => Grounded(s)

LEMMA NewSessionCoherent ==
  ASSUME NEW budget \in Budgets, NEW scenario \in Scenarios \cup {None}
  PROVE  Coherent(NewSession(budget, scenario))
BY NewSessionType, RuntimeAssumption DEF NewSession, Coherent, OpenIn, Grounded, Requests

LEMMA CallOutcome ==
  ASSUME TypeOK, Coherent(session), Next
  PROVE  /\ TypeOK' /\ Coherent(session')
         /\ Kept \/ Grants \/ Spends(session.token)
         /\ session'.taken # session.taken => Chosen
<1>1. TypeOK' /\ (Kept \/ Grants \/ Spends(session.token))
  BY NextOutcome
<1>2. session' \in Session
  BY <1>1 DEF TypeOK
<1>3. OpenIn(session')
  BY RunStepOpen, OperatorOpen DEF Next, Coherent
<1>4. Mode # "stub" => Grounded(session')
  BY RunStepGrounded, OperatorGrounded DEF Next, Coherent
<1> QED BY <1>1, <1>2, <1>3, <1>4, CallSpendsTheChosen DEF Coherent
=============================================================================
