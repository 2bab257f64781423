---------------------------- MODULE WorldModel ----------------------------
(***************************************************************************)
(* The world model and the Orientation layer over it: which new signals    *)
(* contradict a known fact, how human resolutions are imposed, and what    *)
(* one orientation makes of an observation                                 *)
(* (src/schwerpunkt/orient/engine.py, the data types of models.py).        *)
(*                                                                         *)
(* Abstractions.  Keys and values are members of small sets; a value is    *)
(* numeric when Magnitude gives it a size.  Observation and fact           *)
(* confidences are whole percents (0..100), an orientation confidence is   *)
(* in thousandths, so that obs * 0.9 and obs * 0.5 stay integers.  A       *)
(* contradiction keeps its key and severity: the prior and new values it   *)
(* carries are only displayed.  human_resolved_facts, an append-only list  *)
(* applied in order, is kept as the latest value per key.                  *)
(***************************************************************************)
EXTENDS Integers, Sequences

CONSTANTS
  Keys,           \* fact keys
  Values,         \* values a signal or a fact may carry
  Numeric,        \* those that are Python ints or floats
  Magnitude,      \* [Numeric -> Int]: the number
  Names,          \* scenario names, patterns, candidate ids and names, hashes
  None            \* absent (Python's None)

Percent == 0..100
Severity == {"high", "low"}

Fact == [value : Values, conf : Percent]
Facts == [Keys -> Fact \cup {None}]
NoFacts == [k \in Keys |-> None]

Signal == [key : Keys, value : Values, conf : Percent]
Contradiction == [key : Keys, severity : Severity]
Observation ==
  [signals : Seq(Signal), failed : Nat, conf : Percent, pattern : Names \cup {None}]

ASSUME WorldModelAssumption ==
  /\ Numeric \subseteq Values
  /\ Magnitude \in [Numeric -> Int]
  /\ None \notin Keys \cup Values \cup Names
  /\ None \notin Fact \cup Observation

\* The values an operator can submit: the API and the CLI take text.
Texts == Values \ Numeric

---------------------------------------------------------------------------
Abs(n) == IF n < 0 THEN -n ELSE n

\* |new - prior| / |prior| > 0.05; a prior of zero is compared absolutely
\* (magnitudes are in hundredths, so 0.05 is 5).
OutOfTolerance(prior, new) ==
  IF prior = 0 THEN Abs(new) > 5 ELSE 100 * Abs(new - prior) > 5 * Abs(prior)

Conflict(prior, new) ==
  /\ prior # new
  /\ prior \in Numeric /\ new \in Numeric
       => OutOfTolerance(Magnitude[prior], Magnitude[new])

\* A belief held with more than 0.8 confidence makes the contradiction high.
SeverityOf(fact) == IF fact.conf > 80 THEN "high" ELSE "low"

Signals(obs) == {obs.signals[i] : i \in DOMAIN obs.signals}

\* Fault: beliefs are protected from 0.95 only.
DetectLate(obs, facts) ==
  {[key |-> s.key, severity |-> IF facts[s.key].conf > 95 THEN "high" ELSE "low"] :
     s \in {t \in Signals(obs) :
              facts[t.key] # None /\ Conflict(facts[t.key].value, t.value)}}

DetectContradictions(obs, facts) ==
  {[key |-> s.key, severity |-> SeverityOf(facts[s.key])] :
     s \in {t \in Signals(obs) :
              facts[t.key] # None /\ Conflict(facts[t.key].value, t.value)}}

KeysOf(contradictions) == {c.key : c \in contradictions}

---------------------------------------------------------------------------
\* Fault: a resolution fills in unknown facts only.
ResolvedUnknowns(facts, resolved) ==
  [k \in Keys |-> IF resolved[k] = None \/ facts[k] # None THEN facts[k]
                  ELSE [value |-> resolved[k], conf |-> 95]]

\* Human resolutions overwrite the facts they name, with confidence 0.95, and
\* drop the contradictions on those keys.
ResolvedFacts(facts, resolved) ==
  [k \in Keys |-> IF resolved[k] = None THEN facts[k]
                  ELSE [value |-> resolved[k], conf |-> 95]]

ResolvedContradictions(contradictions, resolved) ==
  {c \in contradictions : resolved[c.key] = None}

\* Signals merge in order, so the last one on a key wins.
LastSignal(obs, k) ==
  CHOOSE i \in DOMAIN obs.signals :
    /\ obs.signals[i].key = k
    /\ \A j \in DOMAIN obs.signals : obs.signals[j].key = k => j <= i

MergeSignals(obs, facts) ==
  [k \in Keys |->
     IF \E s \in Signals(obs) : s.key = k
     THEN LET s == obs.signals[LastSignal(obs, k)]
          IN  [value |-> s.value, conf |-> s.conf]
     ELSE facts[k]]

Overlay(facts, extra) ==
  [k \in Keys |-> IF extra[k] = None THEN facts[k] ELSE extra[k]]

---------------------------------------------------------------------------
Lesser(a, b) == IF a <= b THEN a ELSE b

\* Old contradictions survive an observation unless it raises its own on the
\* same key.
ActiveContradictions(obs, facts, contradictions) ==
  LET new == DetectContradictions(obs, facts)
  IN  new \cup {c \in contradictions : c.key \notin KeysOf(new)}

\* One orientation of obs against a world model.  A high contradiction keeps
\* the facts and asks for review; otherwise every signal is merged and every
\* contradiction, low ones included, is dropped.
Orient(obs, facts, contradictions, resolved) ==
  LET known  == ResolvedFacts(facts, resolved)
      active == ActiveContradictions(
                  obs, known, ResolvedContradictions(contradictions, resolved))
  IN  IF \E c \in active : c.severity = "high"
      THEN [facts |-> known, contradictions |-> active, review |-> TRUE,
            conf |-> Lesser(400, 5 * obs.conf)]
      ELSE [facts |-> MergeSignals(obs, known), contradictions |-> {},
            review |-> FALSE, conf |-> 9 * obs.conf]

Resolutions == [Keys -> Texts \cup {None}]

Orientation ==
  [facts : Facts, contradictions : SUBSET Contradiction, review : BOOLEAN, conf : Nat]
===========================================================================
