----------------------------- MODULE MCRuntime -----------------------------
(***************************************************************************)
(* Small instances of Runtime for TLC: two fact keys, two text values and  *)
(* three numbers, the fixture scenarios that matter for the run modes, and *)
(* the IG&C rule of fixtures/igc_rules.json.                               *)
(***************************************************************************)
EXTENDS Runtime, TLC

CONSTANTS
  case, level,               \* fact keys
  closed, open,              \* text values
  hundred, within, beyond    \* 1.00, 1.05 and 1.06

MCKeys == {case, level}
MCNumeric == {hundred, within, beyond}
MCValues == {closed, open} \cup MCNumeric
MCNames == STRING
MCMagnitude == hundred :> 100 @@ within :> 105 @@ beyond :> 106

Observed(signals, conf, failed, pattern) ==
  [signals |-> signals, failed |-> failed, conf |-> conf, pattern |-> pattern]

Reading(k, value, conf) == [key |-> k, value |-> value, conf |-> conf]

Known(k, value, conf) == [NoFacts EXCEPT ![k] = [value |-> value, conf |-> conf]]

\* A scenario with no cognition fixtures.
Plain(initial, obs) ==
  [initial |-> initial, obs |-> obs, force |-> FALSE, contradictions |-> {},
   conf |-> None, facts |-> NoFacts, candidates |-> <<>>, chosen |-> "A",
   token |-> None]

Default == Plain(NoFacts, Observed(<<Reading(level, hundred, 90)>>, 90, 0, None))

\* fixtures/scenarios/contradiction_case.json with its cognition fixtures.
ContradictionCase ==
  [Plain(Known(case, closed, 92),
         Observed(<<Reading(case, open, 85)>>, 85, 0, None)) EXCEPT
     !.force = TRUE, !.conf = 400,
     !.contradictions = {[key |-> case, severity |-> "high"]},
     !.candidates = << Reversible("A", "Investigate", 2, 1),
                       Irreversible("B", "Close case", 10, 1, "close_case") >>]

\* fixtures/scenarios/igc_retrieve.json.
IgcRetrieve ==
  Plain(NoFacts, Observed(<<Reading(level, hundred, 95)>>, 90, 0, "retrieve_status"))

\* Numeric drift: the reading moves by 5 % and then beyond, twice in one
\* observation.
Drift == Plain(NoFacts,
  Observed(<<Reading(level, within, 70), Reading(level, beyond, 85)>>, 90, 0, None))

\* Two failed sensors, and an observation too faint to orient on.
Blind == Plain(NoFacts, Observed(<<>>, 40, 2, None))
Faint == Plain(NoFacts, Observed(<<Reading(level, within, 60)>>, 33, 1, None))

\* An approval is asked for under any observation: one clean, one insufficient.
ApprovalFixtures == "default" :> Default @@ "blind" :> Blind
ApprovalScenarios == DOMAIN ApprovalFixtures

FactFixtures ==
  "default" :> Default @@ "contradiction_case" :> ContradictionCase
  @@ "drift" :> Drift @@ "faint" :> Faint @@ "igc_retrieve" :> IgcRetrieve
FactScenarios == DOMAIN FactFixtures

\* The stub's scenarios: the committed ones, two that need an approval nobody
\* can give, one whose action reports unexpected effects.
StubDefault ==
  [Default EXCEPT !.conf = 850, !.chosen = "B",
     !.candidates = << Reversible("A", "Investigate", 2, 1),
                       Reversible("B", "mark_complete", 2, 1) >>]

CloseCase(token) ==
  [Default EXCEPT !.chosen = "B", !.token = token,
     !.candidates = << Irreversible("B", "Close case", 10, 1, "close_case") >>]

Discrepancy ==
  [Default EXCEPT
     !.facts = Known(case, closed, 90),
     !.candidates = << [Reversible("A", "force_discrepancy", 2, 1)
                         EXCEPT !.effects = <<level>>] >>]

StubFixtures ==
  "default" :> StubDefault @@ "contradiction_case" :> ContradictionCase
  @@ "igc_retrieve" :> IgcRetrieve @@ "blind" :> Blind @@ "faint" :> Faint
  @@ "unapproved" :> CloseCase(None) @@ "preapproved" :> CloseCase(FixtureToken)
  @@ "discrepancy" :> Discrepancy
StubScenarios == DOMAIN StubFixtures

LiveFixtures == "default" :> Default @@ "contradiction_case" :> ContradictionCase
LiveScenarios == DOMAIN LiveFixtures

\* Two results of the mock bridge (an unknown tool is not to be believed), and
\* one that leaves everything out but its signals.
ToolResults ==
  {[ContradictionCase.obs EXCEPT !.failed = None], Observed(<<>>, 0, None, None),
   Observed(Drift.obs.signals, None, None, None)}
InjectedObservations == {Faint.obs}

MCIgcRules ==
  << [pattern |-> "retrieve_status", minObservation |-> 80, minOrientation |-> 800,
      irreversible |-> FALSE, action |-> "retrieve_status_snapshot"] >>

TokenSymmetry == Permutations(Tokens)
============================================================================
