----------------------------- MODULE RiskGate -----------------------------
(***************************************************************************)
(* What Decide may hand to Act: candidate actions, the risk gate           *)
(* decide_with_risk (src/schwerpunkt/act/executor.py), the choices made by *)
(* the stub and the live cognition (src/schwerpunkt/cognition/), and the   *)
(* IG&C rule table (src/schwerpunkt/igc/engine.py).                        *)
(*                                                                         *)
(* A decision either escalates with a reason or carries an action and the  *)
(* approval token it was decided with.  Operators return the SET of        *)
(* decisions the code can take: one for a deterministic choice, several    *)
(* when a language model chooses.  Costs and budgets are in half units     *)
(* (the smallest cost in the code is 0.5).                                 *)
(***************************************************************************)
EXTENDS WorldModel

CONSTANTS
  Tokens,         \* the approval tokens approve can issue
  FixtureToken,   \* a token written in a stub fixture: never issued by approve
  IgcRules        \* the rules of fixtures/igc_rules.json, in order

\* Why a session may be escalated.
Reasons ==
  {"insufficient_observation_confidence", "insufficient_orientation_confidence",
   "missing_orientation", "risk_budget_exhausted", "no_viable_candidates",
   "approval_required", "invalid_or_consumed_approval_token"}

\* Names contains what the code itself spells out.
ASSUME RiskGateAssumption ==
  /\ None \notin Tokens \cup {FixtureToken} \cup Reasons
  /\ FixtureToken \notin Tokens
  /\ {"A", "B", "C", "igc", "default", "Investigate", "Close case", "Defer",
      "mark_complete", "close_case", "act_discrepancy_feedback", "mcp"} \subseteq Names

Candidate ==
  [id : Names, name : Names, irreversible : BOOLEAN, cost : Nat, value : Int,
   hash : Names \cup {None}, effects : Seq(Keys)]

Decision ==
  [escalate : Reasons \cup {None}, action : Candidate \cup {None},
   token : Tokens \cup {FixtureToken, None}]

Reversible(id, name, cost, value) ==
  [id |-> id, name |-> name, irreversible |-> FALSE, cost |-> cost,
   value |-> value, hash |-> None, effects |-> <<>>]

Irreversible(id, name, cost, value, hash) ==
  [Reversible(id, name, cost, value) EXCEPT !.irreversible = TRUE, !.hash = hash]

\* The three candidates every manual decision offers.
ManualCandidates ==
  << Reversible("A", "Investigate", 2, 3),
     Irreversible("B", "Close case", 10, 5, "close_case"),
     Reversible("C", "Defer", 1, 1) >>

\* What the stub and the live cognition offer when a scenario has no decide.json.
StubDefaultCandidates == << Reversible("A", "default", 2, 1) >>
LiveDefaultCandidates ==
  << Reversible("A", "Investigate", 2, 2), Reversible("B", "mark_complete", 2, 3) >>

---------------------------------------------------------------------------
Refuse(reason) == [escalate |-> reason, action |-> None, token |-> None]
Take(action, token) == [escalate |-> None, action |-> action, token |-> token]

Members(candidates) == {candidates[i] : i \in DOMAIN candidates}

\* The first candidate with that id: none or one.
Named(candidates, id) ==
  {candidates[i] : i \in {j \in DOMAIN candidates :
     /\ candidates[j].id = id
     /\ \A h \in DOMAIN candidates : candidates[h].id = id => j <= h}}

\* ... or the first candidate of all when no id matches.
NamedOrFirst(candidates, id) ==
  IF Named(candidates, id) = {} THEN {candidates[1]} ELSE Named(candidates, id)

Viable(candidates, budget, token) ==
  {i \in DOMAIN candidates :
     /\ candidates[i].irreversible => token # None
     /\ candidates[i].cost <= budget}

\* max() over the viable candidates: the first of those with the largest value.
Best(candidates, viable) ==
  {i \in viable : \A j \in viable :
     /\ candidates[j].value <= candidates[i].value
     /\ candidates[j].value = candidates[i].value => i <= j}

\* Fault: the viable candidate of the largest value is taken, chosen or not.
DecideByValue(orientation, candidates, token, chosen) ==
  {Take(candidates[i], token) :
     i \in Best(candidates, Viable(candidates, orientation.budget, token))}

\* Confidence and budget come from the orientation, not from the session.
\* A chosen candidate that is not viable is replaced by the best viable one.
DecideWithRisk(orientation, candidates, token, chosen) ==
  LET viable == Viable(candidates, orientation.budget, token)
  IN  IF orientation.conf < 300
      THEN {Refuse("insufficient_orientation_confidence")}
      ELSE IF orientation.budget <= 0
      THEN {Refuse("risk_budget_exhausted")}
      ELSE IF viable = {}
      THEN {Refuse("no_viable_candidates")}
      ELSE IF \E i \in viable : candidates[i] = chosen
      THEN {Take(chosen, token)}
      ELSE {Take(candidates[i], token) : i \in Best(candidates, viable)}

---------------------------------------------------------------------------
\* StubCognition.decide: the fixture's choice; cost is never compared with
\* the budget.
StubDecide(orientation, fixture) ==
  LET candidates == IF fixture.candidates = <<>> THEN StubDefaultCandidates
                    ELSE fixture.candidates
      unapproved(action) == action.irreversible /\ fixture.token = None
  IN  IF orientation.conf < 300
      THEN {Refuse("insufficient_orientation_confidence")}
      ELSE IF orientation.budget <= 0
      THEN {Refuse("risk_budget_exhausted")}
      ELSE {IF unapproved(action) THEN Refuse("approval_required")
            ELSE Take(action, fixture.token) :
              action \in NamedOrFirst(candidates, fixture.chosen)}

\* LiveCognition.decide: the model may name any candidate (an unknown id means
\* the first one); no token is ever passed on.
LiveDecide(orientation, fixture) ==
  LET candidates == IF fixture.candidates = <<>> THEN LiveDefaultCandidates
                    ELSE fixture.candidates
  IN  UNION {DecideWithRisk(orientation, candidates, None, chosen) :
               chosen \in Members(candidates)}

---------------------------------------------------------------------------
\* The rule that matches an observation, if any: the first rule of the
\* observation's pattern decides, and it must clear its thresholds.
IgcMatches(contradictions, obs, conf) ==
  {IgcRules[i] : i \in {j \in DOMAIN IgcRules :
     /\ contradictions = {}
     /\ IgcRules[j].pattern = obs.pattern
     /\ \A h \in DOMAIN IgcRules : IgcRules[h].pattern = obs.pattern => j <= h
     /\ ~IgcRules[j].irreversible
     /\ obs.conf >= IgcRules[j].minObservation
     /\ conf >= IgcRules[j].minOrientation}}

IgcRule ==
  [pattern : Names, minObservation : Percent, minOrientation : 0..1000,
   irreversible : BOOLEAN, action : Names]

ASSUME IgcAssumption == IgcRules \in Seq(IgcRule)

\* The action a rule stands for: reversible, at half a unit of budget.
IgcAction(rule) == Reversible("igc", rule.action, 1, 1)
===========================================================================
