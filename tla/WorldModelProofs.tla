-------------------------- MODULE WorldModelProofs --------------------------
(***************************************************************************)
(* What the Orientation layer returns, for every choice of keys, values    *)
(* and magnitudes: its results are well typed, and an orientation carries  *)
(* the operator's value for every resolved fact.                           *)
(***************************************************************************)
EXTENDS WorldModel, WellFoundedInduction, TLAPS

\* A non-empty set of naturals has a least element.
LEMMA LeastNatural ==
  ASSUME NEW T, T \subseteq Nat, T # {}
  PROVE  \E x \in T : \A y \in T : x <= y
<1> DEFINE R == {pair \in Nat \X Nat : pair[1] < pair[2]}
<1>1. IsWellFoundedOn(R, Nat)
  BY NatLessThanWellFounded DEF OpToRel
<1>2. PICK x \in T : \A y \in T : ~(<<y, x>> \in R)
  BY <1>1, WFMin, Zenon
<1>3. \A y \in T : <<y, x>> \in R <=> y < x
  OBVIOUS
<1>4. \A y \in T : x <= y
  <2> HIDE DEF R
  <2>1. x \in Nat /\ \A y \in T : y \in Nat
    OBVIOUS
  <2>2. \A y \in T : ~(y < x)
    BY <1>2, <1>3
  <2> QED BY <2>1, <2>2
<1> QED BY <1>4

\* Any non-empty set of positions in a sequence has a last one.
LEMMA LastPosition ==
  ASSUME NEW n \in Nat, NEW S, S \subseteq 1..n, S # {}
  PROVE  \E m \in S : \A j \in S : j <= m
<1> DEFINE T == {n - i : i \in S}
<1>1. T \subseteq Nat /\ T # {}
  <2>1. \A i \in S : n - i \in Nat
    OBVIOUS
  <2>2. PICK i \in S : TRUE
    OBVIOUS
  <2>3. n - i \in T
    BY <2>2
  <2> QED BY <2>1, <2>3
<1>2. PICK x \in T : \A y \in T : x <= y
  BY <1>1, LeastNatural
<1>3. PICK m \in S : x = n - m
  OBVIOUS
<1>4. \A j \in S : j <= m
  <2> TAKE j \in S
  <2>1. n - j \in T /\ j \in Nat /\ m \in Nat
    OBVIOUS
  <2> QED BY <1>2, <1>3, <2>1
<1> QED BY <1>4

---------------------------------------------------------------------------
(* Typing.                                                                 *)

LEMMA LastSignalType ==
  ASSUME NEW obs \in Observation, NEW k \in Keys,
         \E s \in Signals(obs) : s.key = k
  PROVE  /\ LastSignal(obs, k) \in DOMAIN obs.signals
         /\ obs.signals[LastSignal(obs, k)].key = k
<1> DEFINE n == Len(obs.signals)
           S == {i \in 1..n : obs.signals[i].key = k}
<1>1. obs.signals \in Seq(Signal) /\ n \in Nat /\ DOMAIN obs.signals = 1..n
  BY DEF Observation
<1>2. S \subseteq 1..n /\ S # {}
  BY <1>1 DEF Signals
<1>3. \E m \in S : \A j \in S : j <= m
  BY <1>1, <1>2, LastPosition
<1>4. \E i \in DOMAIN obs.signals :
        /\ obs.signals[i].key = k
        /\ \A j \in DOMAIN obs.signals : obs.signals[j].key = k => j <= i
  BY <1>1, <1>3
<1> QED BY <1>4 DEF LastSignal

LEMMA MergeType ==
  ASSUME NEW obs \in Observation, NEW facts \in Facts
  PROVE  MergeSignals(obs, facts) \in Facts
<1>1. obs.signals \in Seq(Signal)
  BY DEF Observation
<1>2. ASSUME NEW k \in Keys, \E s \in Signals(obs) : s.key = k
      PROVE  LET s == obs.signals[LastSignal(obs, k)]
             IN  [value |-> s.value, conf |-> s.conf] \in Fact
  <2> DEFINE last == obs.signals[LastSignal(obs, k)]
  <2>1. last \in Signal
    BY <1>1, <1>2, LastSignalType
  <2> HIDE DEF last
  <2>2. [value |-> last.value, conf |-> last.conf] \in Fact
    BY <2>1 DEF Signal, Fact
  <2> QED BY <2>2 DEF last
<1>3. \A k \in Keys : facts[k] \in Fact \cup {None}
  BY DEF Facts
<1> QED BY <1>2, <1>3 DEF MergeSignals, Facts

LEMMA ResolvedFactsType ==
  ASSUME NEW facts \in Facts, NEW resolved \in Resolutions
  PROVE  ResolvedFacts(facts, resolved) \in Facts
BY DEF ResolvedFacts, Facts, Resolutions, Fact, Texts, Percent

LEMMA OverlayType ==
  ASSUME NEW facts \in Facts, NEW extra \in Facts
  PROVE  Overlay(facts, extra) \in Facts
BY DEF Overlay, Facts

LEMMA SignalsType ==
  ASSUME NEW obs \in Observation
  PROVE  Signals(obs) \subseteq Signal
BY DEF Signals, Observation

LEMMA DetectType ==
  ASSUME NEW obs \in Observation, NEW facts \in Facts
  PROVE  DetectContradictions(obs, facts) \subseteq Contradiction
BY SignalsType
   DEF DetectContradictions, Contradiction, Signal, SeverityOf, Severity

LEMMA ActiveType ==
  ASSUME NEW obs \in Observation, NEW facts \in Facts,
         NEW old \in SUBSET Contradiction
  PROVE  ActiveContradictions(obs, facts, old) \subseteq Contradiction
BY DetectType DEF ActiveContradictions

LEMMA OrientType ==
  ASSUME NEW obs \in Observation, NEW facts \in Facts,
         NEW old \in SUBSET Contradiction, NEW resolved \in Resolutions
  PROVE  Orient(obs, facts, old, resolved) \in Orientation
<1> DEFINE known  == ResolvedFacts(facts, resolved)
           active == ActiveContradictions(
                       obs, known, ResolvedContradictions(old, resolved))
<1>1. known \in Facts
  BY ResolvedFactsType
<1>2. active \in SUBSET Contradiction
  BY <1>1, ActiveType DEF ResolvedContradictions
<1>3. MergeSignals(obs, known) \in Facts
  BY <1>1, MergeType
<1>4. Lesser(400, 5 * obs.conf) \in Nat /\ 9 * obs.conf \in Nat
  <2>1. obs.conf \in Percent
    BY DEF Observation
  <2>2. obs.conf \in Nat
    BY <2>1 DEF Percent
  <2> QED BY <2>2 DEF Lesser
<1> HIDE DEF known, active
<1> QED
  <2> SUFFICES Orient(obs, facts, old, resolved) \in
        [facts : Facts, contradictions : SUBSET Contradiction,
         review : BOOLEAN, conf : Nat]
    BY DEF Orientation
  <2> QED BY <1>1, <1>2, <1>3, <1>4 DEF Orient, known, active

---------------------------------------------------------------------------
\* Human resolutions hold in every orientation: a signal on a resolved key
\* either repeats the operator's value or is a high contradiction, which keeps
\* the facts as they are (apply_human_resolutions, detect_contradictions and
\* orient_from_observation together).
THEOREM OrientKeepsResolutions ==
  ASSUME NEW obs \in Observation, NEW facts \in Facts,
         NEW old \in SUBSET Contradiction, NEW resolved \in Resolutions,
         NEW k \in Keys, resolved[k] # None
  PROVE  LET held == Orient(obs, facts, old, resolved).facts[k]
         IN  held # None /\ held.value = resolved[k]
<1> DEFINE known  == ResolvedFacts(facts, resolved)
           settled == ResolvedContradictions(old, resolved)
           active == ActiveContradictions(obs, known, settled)
<1>1. known \in Facts
  BY ResolvedFactsType
<1>2. /\ known[k] = [value |-> resolved[k], conf |-> 95]
      /\ known[k] \in Fact /\ known[k] # None
      /\ resolved[k] \in Values /\ resolved[k] \notin Numeric
  BY WorldModelAssumption DEF ResolvedFacts, Resolutions, Texts, Fact, Percent
<1>3. ASSUME NEW s \in Signals(obs), s.key = k, s.value # resolved[k]
      PROVE  \E c \in active : c.severity = "high"
  <2>1. Conflict(known[k].value, s.value)
    BY <1>2, <1>3 DEF Conflict
  <2>2. SeverityOf(known[k]) = "high"
    BY <1>2 DEF SeverityOf
  <2>3. [key |-> k, severity |-> "high"] \in DetectContradictions(obs, known)
    BY <1>2, <1>3, <2>1, <2>2 DEF DetectContradictions
  <2> QED BY <2>3 DEF ActiveContradictions
<1>4. CASE \E c \in active : c.severity = "high"
  BY <1>2, <1>4 DEF Orient
<1>5. CASE ~ \E c \in active : c.severity = "high"
  <2>1. Orient(obs, facts, old, resolved).facts[k] = MergeSignals(obs, known)[k]
    BY <1>5 DEF Orient
  <2>2. CASE \E s \in Signals(obs) : s.key = k
    <3> DEFINE last == obs.signals[LastSignal(obs, k)]
    <3>1. last \in Signals(obs) /\ last.key = k
      BY <2>2, LastSignalType DEF Signals
    <3>2. last.value = resolved[k]
      BY <1>3, <1>5, <3>1
    <3>3. last \in Signal
      BY <3>1, SignalsType
    <3>4. MergeSignals(obs, known)[k] = [value |-> last.value, conf |-> last.conf]
      BY <2>2 DEF MergeSignals
    <3>5. [value |-> last.value, conf |-> last.conf] \in Fact
      BY <3>3 DEF Signal, Fact
    <3> HIDE DEF last
    <3> QED BY <2>1, <3>2, <3>4, <3>5, WorldModelAssumption
  <2>3. CASE ~ \E s \in Signals(obs) : s.key = k
    <3>1. MergeSignals(obs, known)[k] = known[k]
      BY <2>3 DEF MergeSignals
    <3> QED BY <1>2, <2>1, <3>1
  <2> QED BY <2>2, <2>3
<1> QED BY <1>4, <1>5
=============================================================================
