------------------------------ MODULE Runtime ------------------------------
(***************************************************************************)
(* One OODA session under the SessionManager                               *)
(* (src/schwerpunkt/runtime/session.py) with Act                           *)
(* (src/schwerpunkt/act/executor.py) and the approval-token table of the   *)
(* store (src/schwerpunkt/store/).                                         *)
(*                                                                         *)
(* An action is one call of the manager: the session is loaded, changed in *)
(* memory and persisted, all at once.  Operators that take a session s     *)
(* work on the in-memory copy; Save is the final persist.  run_step is     *)
(* split by the path it takes; run_until_pause and run_full_stub are       *)
(* sequences of it.  Phases "orient" and "act" exist only inside a call.   *)
(*                                                                         *)
(* Left out here: the audit log and the escalation events that calls emit, *)
(* and fields nothing reads back (decision, igc_rule_id) or that           *)
(* only tell run_until_pause when to return (last_action).                 *)
(***************************************************************************)
EXTENDS RiskGate, FiniteSets

CONSTANTS
  Mode,             \* "stub", "manual" or "live" (SCHWERKPUNKT_MODE)
  IgcManual,        \* SCHWERKPUNKT_IGC_MANUAL=1
  HighStakes,       \* world_model.high_stakes, fixed for the session
  Interval,         \* velocity_checkpoint_interval
  Scenarios,        \* scenario names with files under fixtures/
  Fixtures,         \* [Scenarios -> what those files say]
  Sensed,           \* results an MCP tool may return
  Injected,         \* observations passed to inject_observation
  LiveConfidences,  \* orientation confidences the model may answer with
  Budgets,          \* risk budgets a session may be created with
  CandidateIds,     \* ids a decide request may carry
  Hashes,           \* action hashes an approve request may carry
  Unexpected,       \* the value force_discrepancy reports
  MaxLoops          \* bound: no action is executed beyond this loop count

Fixture ==
  [initial : Facts, obs : Observation, force : BOOLEAN,
   contradictions : SUBSET Contradiction, conf : 0..1000 \cup {None},
   facts : Facts, candidates : Seq(Candidate), chosen : Names,
   token : {FixtureToken, None}]

\* A result of an MCP tool; None for a field it leaves out.
McpResult ==
  [signals : Seq(Signal), failed : Nat \cup {None}, conf : Percent \cup {None},
   pattern : Names \cup {None}]

Requests == {"orient", "decide", "approve", "velocity_checkpoint"}

\* What a later Decide reads of the last orientation.
Snapshot == [conf : Nat, budget : Int, facts : Facts]

ASSUME RuntimeAssumption ==
  /\ Mode \in {"stub", "manual", "live"}
  /\ IgcManual \in BOOLEAN /\ HighStakes \in BOOLEAN
  /\ Interval \in Int
  /\ Scenarios \subseteq Names /\ "default" \in Scenarios
  /\ Fixtures \in [Scenarios -> Fixture]
  /\ Sensed \subseteq McpResult /\ Injected \subseteq Observation
  /\ LiveConfidences \subseteq Nat
  /\ Budgets \subseteq Int
  /\ CandidateIds \subseteq Names /\ Hashes \subseteq Names
  /\ Unexpected \in Values
  /\ MaxLoops \in Nat
  /\ None \notin Candidate \cup Snapshot \cup Requests

VARIABLES
  session,          \* the stored session
  live,             \* approval rows <<hash, token>> that can still be consumed
  spent             \* approval rows already consumed

vars == <<session, live, spent>>
ledger == <<live, spent>>

Phases == {"observe", "decide", "paused", "escalated", "complete"}
Rows == Hashes \X Tokens

Session ==
  [phase : Phases, scenario : Scenarios \cup {None},
   facts : Facts, contradictions : SUBSET Contradiction,
   resolved : Resolutions,
   taken : Nat, budget : Int, loops : Nat, complete : BOOLEAN,
   obs : Observation \cup {None},
   orientation : Snapshot \cup {None},
   pending : Requests \cup {None}, escalation : Reasons \cup {None},
   decideId : CandidateIds \cup {None}, token : Tokens \cup {None}]

TypeOK ==
  /\ session \in Session
  /\ live \in SUBSET Rows
  /\ spent \in SUBSET Rows

NewSession(budget, scenario) ==
  [phase |-> "observe", scenario |-> scenario, facts |-> NoFacts,
   contradictions |-> {}, resolved |-> [k \in Keys |-> None], taken |-> 0,
   budget |-> budget, loops |-> 0, complete |-> FALSE, obs |-> None,
   orientation |-> None, pending |-> None, escalation |-> None,
   decideId |-> None, token |-> None]

Init ==
  /\ \E budget \in Budgets, scenario \in Scenarios \cup {None} :
       session = NewSession(budget, scenario)
  /\ live = {} /\ spent = {}

Save(s) == session' = s

---------------------------------------------------------------------------
(* The approval rows of the store.  Definitions marked "fault" are not part *)
(* of the model: each is a plausible mistake in the definition below it,    *)
(* which a property must notice.                                            *)

Fresh(token) == \A row \in live \cup spent : row[2] # token

\* Fault: the token is handed out, its row never saved.
IssueNothing(hash, token) == UNCHANGED ledger

\* save_approval_token
Issue(hash, token) ==
  /\ live' = live \cup {<<hash, token>>}
  /\ UNCHANGED spent

\* Fault: the row is looked up by its token alone.
TokenIsLive(row) == \E other \in live : other[2] = row[2]

\* Fault: a missing row counts as consumed.
AnyRowIsLive(row) == TRUE

\* consume_approval_token finds an unconsumed row of that hash and token.
IsLive(row) == row \in live

\* Fault: the row is not marked consumed.
ConsumeKeepingRow(row) == live' = live /\ spent' = spent \cup {row}

\* Fault: any row of the hash is marked.
ConsumeByHash(row) ==
  \E other \in live :
    /\ other[1] = row[1]
    /\ live' = live \ {other}
    /\ spent' = spent \cup {other}

Consume(row) ==
  /\ live' = live \ {row}
  /\ spent' = spent \cup {row}

---------------------------------------------------------------------------
(* Act: execute_action.                                                    *)

Escalate(s, reason) ==
  /\ Save([s EXCEPT !.phase = "escalated", !.escalation = reason])
  /\ UNCHANGED ledger

\* The observation a failed verification feeds back.
Feedback(effects) ==
  [signals |-> [i \in DOMAIN effects |->
                  [key |-> effects[i], value |-> Unexpected, conf |-> 100]],
   failed |-> 0, conf |-> 90, pattern |-> "act_discrepancy_feedback"]

\* Fault: reversible work is free.
ChargeNothing(budget, cost) == budget

Charge(budget, cost) == IF budget > cost THEN budget - cost ELSE 0

\* The action is carried out: budget, loop count, completion, verification.
\* Only the simulated action force_discrepancy has unexpected effects.
Perform(s, action) ==
  LET failed   == action.name = "force_discrepancy" /\ action.effects # <<>>
      complete == s.complete \/ action.name = "mark_complete"
  IN  /\ s.loops < MaxLoops
      /\ Save([s EXCEPT
           !.budget = Charge(@, action.cost),
           !.loops = @ + 1,
           !.taken = IF action.irreversible THEN @ + 1 ELSE @,
           !.token = IF action.irreversible THEN None ELSE @,
           !.complete = complete,
           !.obs = IF failed THEN Feedback(action.effects) ELSE @,
           !.phase = IF ~failed /\ complete THEN "complete" ELSE "observe"])

\* An irreversible action spends an unused row of the store that is bound to
\* its hash, or is blocked.
Execute(s, action, token) ==
  LET row == <<action.hash, token>>
  IN  \/ /\ ~action.irreversible
         /\ Perform(s, action)
         /\ UNCHANGED ledger
      \/ /\ action.irreversible
         /\ token = None \/ action.hash = None
         /\ Escalate(s, "approval_required")
      \/ /\ action.irreversible
         /\ token # None /\ action.hash # None
         /\ ~IsLive(row)
         /\ Escalate(s, "invalid_or_consumed_approval_token")
      \/ /\ action.irreversible
         /\ token # None /\ action.hash # None
         /\ IsLive(row)
         /\ Perform(s, action)
         /\ Consume(row)

---------------------------------------------------------------------------
(* Decide, from the point where the in-memory session is in that phase.    *)

\* Fault: run_step goes on to Act, which skips, and the phase "act" is stored.
PauseInAct(s, request) ==
  /\ Save([s EXCEPT !.phase = "act", !.pending = request])
  /\ UNCHANGED ledger

Pause(s, request) ==
  /\ Save([s EXCEPT !.phase = "paused", !.pending = request])
  /\ UNCHANGED ledger

FixtureOf(s) == Fixtures[IF s.scenario = None THEN "default" ELSE s.scenario]

\* A decision escalates, or is shelved because a manual request is still
\* pending, or goes to Act.
Settle(s, decision) ==
  \/ /\ decision.escalate # None
     /\ Escalate(s, decision.escalate)
  \/ /\ decision.escalate = None
     /\ s.pending # None /\ Mode = "manual"
     /\ Pause(s, s.pending)
  \/ /\ decision.escalate = None
     /\ s.pending = None \/ Mode # "manual"
     /\ Execute(s, decision.action, decision.token)

\* Fault: the choice is not used up.
KeepChoice(s) == s

UseChoice(s) == [s EXCEPT !.decideId = None]

\* An irreversible choice without a token waits for one; an id nobody offered
\* makes the call raise, and nothing is persisted.
DecideManually(s) ==
  \/ /\ s.decideId = None
     /\ Pause(s, "decide")
  \/ /\ s.decideId # None
     /\ Named(ManualCandidates, s.decideId) = {}
     /\ UNCHANGED vars
  \/ \E chosen \in Named(ManualCandidates, s.decideId) :
       \/ /\ chosen.irreversible /\ s.token = None
          /\ Pause(s, "approve")
       \/ /\ chosen.irreversible => s.token # None
          /\ \E decision \in
               DecideWithRisk(s.orientation, ManualCandidates, s.token, chosen) :
               Settle(UseChoice(s), decision)

\* Fault: outside manual mode, too, the session's token is passed on.
DecideHolding(s) ==
  /\ s.orientation # None
  /\ \E chosen \in Members(FixtureOf(s).candidates) :
       \E decision \in
         DecideWithRisk(s.orientation, FixtureOf(s).candidates, s.token, chosen) :
         Settle(s, decision)

Decide(s) ==
  \/ /\ s.orientation = None
     /\ Escalate(s, "missing_orientation")
  \/ /\ s.orientation # None /\ Mode = "manual"
     /\ DecideManually(s)
  \/ /\ s.orientation # None /\ Mode = "stub"
     /\ \E decision \in StubDecide(s.orientation, FixtureOf(s)) : Settle(s, decision)
  \/ /\ s.orientation # None /\ Mode = "live"
     /\ \E decision \in LiveDecide(s.orientation, FixtureOf(s)) : Settle(s, decision)

---------------------------------------------------------------------------
(* Orient.                                                                 *)

\* StubCognition.orient: the fixture may force a contradiction (without
\* imposing resolutions), or replace facts and confidence of the result.
StubOrient(s) ==
  LET fixture  == FixtureOf(s)
      detected == DetectContradictions(s.obs, s.facts)
      forced   == IF detected = {} THEN fixture.contradictions ELSE detected
      merged   == Orient(s.obs, s.facts, s.contradictions, s.resolved)
  IN  IF fixture.force
      THEN [facts |-> s.facts, contradictions |-> forced, review |-> forced # {},
            conf |-> IF fixture.conf = None THEN 400 ELSE fixture.conf]
      ELSE [merged EXCEPT
              !.facts = Overlay(@, fixture.facts),
              !.contradictions = IF fixture.facts = NoFacts THEN @ ELSE {},
              !.conf = IF fixture.conf = None THEN @ ELSE fixture.conf]

\* LiveCognition.orient: a model may replace the confidence and the review flag
\* of the baseline.
Answered(baseline, answer) ==
  [baseline EXCEPT !.conf = answer.conf, !.review = answer.review]

LiveOrientations(baseline) ==
  {Answered(baseline, answer) :
     answer \in [conf : LiveConfidences \cup {baseline.conf}, review : BOOLEAN]}

\* The orientations the mode's cognition can return.
Orientations(s) ==
  LET baseline == Orient(s.obs, s.facts, s.contradictions, s.resolved)
  IN  CASE Mode = "manual" -> {baseline}
        [] Mode = "stub"   -> {StubOrient(s)}
        [] Mode = "live"   -> LiveOrientations(baseline)

\* Fault: the snapshot keeps the budget of the first orientation.
OrientedOnce(s, result) ==
  [s EXCEPT
     !.facts = result.facts, !.contradictions = result.contradictions,
     !.orientation =
        [conf |-> result.conf, facts |-> result.facts,
         budget |-> IF s.orientation = None THEN s.budget ELSE s.orientation.budget]]

\* The session takes the orientation's model; the orientation itself stays
\* behind as a snapshot, with the budget of this moment.
Oriented(s, result) ==
  [s EXCEPT
     !.facts = result.facts, !.contradictions = result.contradictions,
     !.orientation =
        [conf |-> result.conf, budget |-> s.budget, facts |-> result.facts]]

---------------------------------------------------------------------------
(* run_step.                                                               *)

\* Too little was observed: two sensors failed and confidence is below 0.5.
Insufficient(obs) == obs.conf < 50 /\ obs.failed >= 2

\* Fault: a completed session goes on.
HasObservation == session.obs # None

Running == ~session.complete /\ session.obs # None

Terminate ==
  /\ session.complete
  /\ Save([session EXCEPT !.phase = "complete"])
  /\ UNCHANGED ledger

AwaitObservation ==
  /\ ~session.complete /\ session.obs = None
  /\ Save([session EXCEPT !.phase = "observe"])
  /\ UNCHANGED ledger

EscalateObservation ==
  /\ Running /\ Insufficient(session.obs)
  /\ Escalate(session, "insufficient_observation_confidence")

Stepping(phases) ==
  /\ Running /\ ~Insufficient(session.obs)
  /\ session.phase \in phases

MustReview(result) == result.review /\ Mode = "manual"

PauseForReview ==
  /\ Stepping({"observe"})
  /\ \E result \in Orientations(session) :
       /\ MustReview(result)
       /\ Pause(Oriented(session, result), "orient")

EscalateOrientation ==
  /\ Stepping({"observe"})
  /\ \E result \in Orientations(session) :
       /\ ~MustReview(result) /\ result.conf < 300
       /\ Escalate(Oriented(session, result), "insufficient_orientation_confidence")

\* Past the review and the confidence floor, three ways out of Orient.
Accepted(result) == ~MustReview(result) /\ result.conf >= 300

IgcAllowed == ~HighStakes /\ (Mode = "stub" \/ (Mode = "manual" /\ IgcManual))

MatchedRules(result) ==
  IF IgcAllowed THEN IgcMatches(result.contradictions, session.obs, result.conf)
  ELSE {}

CheckpointDue(s) ==
  /\ HighStakes /\ Interval > 0
  /\ s.loops > 0 /\ s.loops % Interval = 0

IgcFastPath ==
  /\ Stepping({"observe"})
  /\ \E result \in Orientations(session) :
       /\ Accepted(result)
       /\ \E rule \in MatchedRules(result) :
            Execute(Oriented(session, result), IgcAction(rule), None)

PauseForCheckpoint ==
  /\ Stepping({"observe"})
  /\ CheckpointDue(session)
  /\ \E result \in Orientations(session) :
       /\ Accepted(result) /\ MatchedRules(result) = {}
       /\ Pause(Oriented(session, result), "velocity_checkpoint")

\* Fault: no checkpoint before Decide.
OrientThenDecideUnchecked ==
  /\ Stepping({"observe"})
  /\ \E result \in Orientations(session) :
       /\ Accepted(result) /\ MatchedRules(result) = {}
       /\ Decide(Oriented(session, result))

\* Decide sees the in-memory session in phase "decide"; every way out of it
\* sets another phase.
OrientThenDecide ==
  /\ Stepping({"observe"})
  /\ ~CheckpointDue(session)
  /\ \E result \in Orientations(session) :
       /\ Accepted(result) /\ MatchedRules(result) = {}
       /\ Decide(Oriented(session, result))

DecideStep ==
  /\ Stepping({"decide"})
  /\ Decide(session)

\* A paused or escalated session is persisted as it is.
Halted ==
  /\ Stepping({"paused", "escalated"})
  /\ UNCHANGED vars

RunStep ==
  \/ Terminate \/ AwaitObservation \/ EscalateObservation
  \/ PauseForReview \/ EscalateOrientation \/ IgcFastPath
  \/ PauseForCheckpoint \/ OrientThenDecide \/ DecideStep \/ Halted

---------------------------------------------------------------------------
(* Observations and the operator's requests.                               *)

ScenarioName(scenario) ==
  IF scenario # None THEN scenario
  ELSE IF session.scenario # None THEN session.scenario ELSE "default"

\* A scenario's initial facts overwrite known facts; a pending request, a
\* chosen candidate and the last orientation stay.
LoadObservation(scenario) ==
  LET name == ScenarioName(scenario)
  IN  /\ Save([session EXCEPT
             !.scenario = name, !.obs = Fixtures[name].obs, !.phase = "observe",
             !.facts = Overlay(@, Fixtures[name].initial)])
      /\ UNCHANGED ledger

\* observation_from_mcp_result: a tool that says nothing of its confidence or of
\* failed sensors is fully trusted.
McpObservation(result) ==
  [signals |-> result.signals,
   failed  |-> IF result.failed = None THEN 0 ELSE result.failed,
   conf    |-> IF result.conf = None THEN 100 ELSE result.conf,
   pattern |-> IF result.pattern = None THEN "mcp" ELSE result.pattern]

LoadFromMcp(result) ==
  /\ Mode = "live"
  /\ Save([session EXCEPT !.obs = McpObservation(result), !.phase = "observe"])
  /\ UNCHANGED ledger

InjectObservation(obs) ==
  /\ Save([session EXCEPT !.obs = obs])
  /\ UNCHANGED ledger

\* The resolution is imposed at once and the current observation re-oriented;
\* the next step decides, whatever phase the session was in.
ResolveContradiction(k, value) ==
  LET resolved == [session.resolved EXCEPT ![k] = value]
      settled  == [session EXCEPT
                     !.resolved = resolved, !.pending = None, !.phase = "decide",
                     !.facts = ResolvedFacts(@, resolved),
                     !.contradictions = ResolvedContradictions(@, resolved)]
  IN  /\ Save(IF session.obs = None THEN settled
              ELSE Oriented(settled, Orient(session.obs, settled.facts,
                                            settled.contradictions, resolved)))
      /\ UNCHANGED ledger

\* Fault: the answered request stays on display.
SubmitKeepingRequest(id) ==
  /\ Save([session EXCEPT !.decideId = id, !.phase = "decide"])
  /\ UNCHANGED ledger

SubmitDecide(id) ==
  /\ Save([session EXCEPT !.decideId = id, !.pending = None, !.phase = "decide"])
  /\ UNCHANGED ledger

\* A fresh token is bound to the hash; the phase is left as it was.
Approve(hash) ==
  \E token \in {t \in Tokens : Fresh(t)} :
    /\ Issue(hash, token)
    /\ Save([session EXCEPT !.token = token, !.pending = None])

AcknowledgeCheckpoint ==
  /\ session.pending = "velocity_checkpoint"
  /\ Save([session EXCEPT !.pending = None, !.phase = "decide"])
  /\ UNCHANGED ledger

Operator ==
  \/ \E scenario \in Scenarios \cup {None} : LoadObservation(scenario)
  \/ \E result \in Sensed : LoadFromMcp(result)
  \/ \E obs \in Injected : InjectObservation(obs)
  \/ \E k \in Keys, value \in Texts : ResolveContradiction(k, value)
  \/ \E id \in CandidateIds : SubmitDecide(id)
  \/ \E hash \in Hashes : Approve(hash)
  \/ AcknowledgeCheckpoint

Next == RunStep \/ Operator

Spec == Init /\ [][Next]_vars

\* A client keeps calling step or advance; nothing obliges an operator to act.
FairSpec == Spec /\ WF_vars(RunStep)

---------------------------------------------------------------------------
(* Safety.                                                                 *)

\* The irreversible actions taken are exactly the approvals consumed, no
\* approval is both spent and live, and a token the session still holds has
\* not been spent: retries, re-decisions and refused attempts included.
ApprovalsAccounted ==
  /\ session.taken = Cardinality(spent)
  /\ live \cap spent = {}
  /\ \A row \in spent : row[2] # session.token

\* A request on display asks for what the session lacks: no candidate yet, or
\* an irreversible candidate without a token. It is never answered already.
RequestsAreOpen ==
  /\ session.pending = "decide" => session.decideId = None
  /\ session.pending = "approve" =>
       /\ session.token = None
       /\ \E c \in Named(ManualCandidates, session.decideId) : c.irreversible

\* Whatever was observed or loaded since, an orientation a decision can rest on
\* carries the operator's value for every fact the operator has resolved.
HumanFactsPrevail ==
  session.orientation # None =>
    \A k \in Keys : session.resolved[k] # None =>
      /\ session.orientation.facts[k] # None
      /\ session.orientation.facts[k].value = session.resolved[k]

\* An action was executed in this step.
Acted == session'.loops # session.loops

\* Orient never replaces a belief held above 0.8 by a value that contradicts
\* it; only a resolution does, and the initial facts of a fixture being loaded.
NoSilentOverwrite ==
  [][~(\E scenario \in Scenarios \cup {None} : LoadObservation(scenario)) =>
       \A k \in Keys :
         LET old == session.facts[k]
             new == session'.facts[k]
         IN  old # None /\ SeverityOf(old) = "high" =>
               /\ new # None
               /\ \/ ~Conflict(old.value, new.value)
                  \/ new.value = session'.resolved[k]]_vars

\* Manual mode without IG&C: an action answers a choice the operator submitted
\* and uses it up, so one choice never drives two actions.
ActsOnOneChoice ==
  [][Acted => session.decideId # None /\ session'.decideId = None]_vars

\* A choice that is used up has led to an action or to a refusal. It is lost
\* without either only behind a review or a checkpoint the operator has not
\* answered: that request was there before the choice was read, and it stays.
ChoicesAreAnswered ==
  [][session.decideId # None /\ session'.decideId = None =>
       \/ Acted
       \/ session'.phase = "escalated"
       \/ /\ session'.phase = "paused"
          /\ session'.pending = session.pending
          /\ session.pending \in {"orient", "velocity_checkpoint"}]_vars

\* The irreversible action is executed only for an operator who chose it: the
\* best-viable fallback and approvals given for something else never lead to it.
IrreversibleWasChosen ==
  [][session'.taken # session.taken =>
       \E c \in Named(ManualCandidates, session.decideId) :
         /\ c.irreversible
         /\ <<c.hash, session.token>> \in live \ live']_vars

\* A cycle that starts at Observe and reaches Act through Decide had budget left.
FreshCyclesHaveBudget ==
  [][Acted /\ session.phase = "observe" /\ ~IgcFastPath => session.budget > 0]_vars

\* After completion nothing is executed, spent or un-completed, whatever
\* requests arrive late.
CompleteIsFinal ==
  [][session.complete =>
       /\ session'.complete /\ ~Acted
       /\ session'.taken = session.taken /\ spent' = spent]_vars

\* A high-stakes session at a checkpoint acts only after an operator's request
\* moved it to Decide: no cycle that starts with Orient gets past it.
CheckpointsHold ==
  [][Acted /\ CheckpointDue(session) => session.phase = "decide"]_vars

\* Only manual mode carries a token from approve to Act: neither the stub's
\* fixtures nor a language model ever cause an irreversible action.
OnlyManualSpends == Mode # "manual" => spent = {} /\ session.taken = 0

\* Sessions, whatever the mode and the cognition, use approvals as promised.
Ledger == INSTANCE ApprovalLedger WITH
  Hash <- Hashes, Token <- Tokens,
  open <- live, consumed <- spent, executed <- session.taken

ImplementsLedger == Ledger!Spec

---------------------------------------------------------------------------
(* Liveness, when a client keeps stepping.                                 *)

\* A stub run ends in completion or escalation, through any sequence of fixture
\* loads and resolutions, unless an IG&C pattern takes it past Decide.
StubRunsEnd ==
  session.obs # None
    ~> \/ session.phase \in {"complete", "escalated"}
       \/ /\ session.obs # None
          /\ \E i \in DOMAIN IgcRules : IgcRules[i].pattern = session.obs.pattern

---------------------------------------------------------------------------
(* What the documents say and the code does not do.                        *)

\* ooda-runtime/spec.md: "When risk budget is zero, Decide SHALL escalate and
\* Act SHALL NOT execute."
ZeroBudgetNeverActs == [][Acted => session.budget > 0]_vars

\* human-in-the-loop/spec.md: resolving SHALL "clear related contradictions".
ResolutionClears ==
  [][\A k \in KeysOf(session.contradictions), value \in Texts :
       ResolveContradiction(k, value) => k \notin KeysOf(session'.contradictions)]_vars

\* operator-console/spec.md: once the operator chose B, "Decide SHALL complete
\* with action B"; seen here by what the action cost.
ChosenIsExecuted ==
  [][Acted => \E c \in Named(ManualCandidates, session.decideId) :
       session'.budget = IF session.budget > c.cost THEN session.budget - c.cost
                         ELSE 0]_vars

\* OPERATOR-AND-RUN-MODES.md: the manual cognition "resumes when human POSTs
\* resolution"; once the approval candidate B waits for is there, a step gets
\* past the pause.
ApprovalResumes ==
  (/\ session.phase = "paused" /\ session.pending = None
   /\ session.decideId = "B" /\ session.token # None)
    ~> session.phase # "paused"
===========================================================================
