--------------------------- MODULE RiskGateProofs ---------------------------
(***************************************************************************)
(* What the risk gate lets through, for every budget, confidence, token    *)
(* and list of candidates.                                                 *)
(***************************************************************************)
EXTENDS RiskGate, WorldModelProofs

\* A decision that is not a refusal names an action; an irreversible one comes
\* with a token.
Sound(decision) ==
  /\ decision \in Decision
  /\ decision.escalate = None =>
       /\ decision.action \in Candidate
       /\ decision.action.irreversible => decision.token # None

LEMMA ReversibleType ==
  ASSUME NEW id \in Names, NEW name \in Names, NEW cost \in Nat, NEW value \in Int
  PROVE  /\ Reversible(id, name, cost, value) \in Candidate
         /\ ~Reversible(id, name, cost, value).irreversible
BY DEF Reversible, Candidate

LEMMA IrreversibleType ==
  ASSUME NEW id \in Names, NEW name \in Names, NEW cost \in Nat, NEW value \in Int,
         NEW hash \in Names
  PROVE  Irreversible(id, name, cost, value, hash) \in Candidate
<1> DEFINE base == Reversible(id, name, cost, value)
<1>1. base \in Candidate
  BY ReversibleType
<1> HIDE DEF base
<1>2. [base EXCEPT !.irreversible = TRUE, !.hash = hash] \in Candidate
  BY <1>1 DEF Candidate
<1> QED BY <1>2 DEF Irreversible, base

LEMMA CodeNames ==
  /\ "A" \in Names /\ "B" \in Names /\ "C" \in Names /\ "igc" \in Names
  /\ "Investigate" \in Names /\ "Close case" \in Names /\ "Defer" \in Names
  /\ "default" \in Names /\ "mark_complete" \in Names /\ "close_case" \in Names
  /\ "act_discrepancy_feedback" \in Names /\ "mcp" \in Names
BY RiskGateAssumption

LEMMA ManualCandidatesType == ManualCandidates \in Seq(Candidate)
<1>1. /\ Reversible("A", "Investigate", 2, 3) \in Candidate
      /\ Irreversible("B", "Close case", 10, 5, "close_case") \in Candidate
      /\ Reversible("C", "Defer", 1, 1) \in Candidate
  <2>1. \A id, name, hash \in Names :
          /\ Reversible(id, name, 2, 3) \in Candidate
          /\ Irreversible(id, name, 10, 5, hash) \in Candidate
          /\ Reversible(id, name, 1, 1) \in Candidate
    BY ReversibleType, IrreversibleType
  <2> QED BY <2>1, CodeNames, Zenon
<1>2. \A a, b, c \in Candidate : <<a, b, c>> \in Seq(Candidate)
  OBVIOUS
<1> QED BY <1>1, <1>2 DEF ManualCandidates

LEMMA StubDefaultType ==
  /\ StubDefaultCandidates \in Seq(Candidate)
  /\ StubDefaultCandidates # <<>>
<1>1. Reversible("A", "default", 2, 1) \in Candidate
  <2>1. \A id, name \in Names : Reversible(id, name, 2, 1) \in Candidate
    BY ReversibleType
  <2> QED BY <2>1, CodeNames, Zenon
<1>2. \A a \in Candidate : <<a>> \in Seq(Candidate) /\ <<a>> # <<>>
  OBVIOUS
<1> QED BY <1>1, <1>2 DEF StubDefaultCandidates

LEMMA LiveDefaultType == LiveDefaultCandidates \in Seq(Candidate)
<1>1. /\ Reversible("A", "Investigate", 2, 2) \in Candidate
      /\ Reversible("B", "mark_complete", 2, 3) \in Candidate
  <2>1. \A id, name \in Names : /\ Reversible(id, name, 2, 2) \in Candidate
                                /\ Reversible(id, name, 2, 3) \in Candidate
    BY ReversibleType
  <2> QED BY <2>1, CodeNames, Zenon
<1>2. \A a, b \in Candidate : <<a, b>> \in Seq(Candidate)
  OBVIOUS
<1> QED BY <1>1, <1>2 DEF LiveDefaultCandidates

LEMMA NamedType ==
  ASSUME NEW candidates \in Seq(Candidate), NEW id
  PROVE  Named(candidates, id) \subseteq Candidate
BY DEF Named

LEMMA RefuseSound ==
  ASSUME NEW reason \in Reasons
  PROVE  Sound(Refuse(reason))
BY RiskGateAssumption DEF Sound, Refuse, Decision

LEMMA TakeSound ==
  ASSUME NEW action \in Candidate, NEW token \in Tokens \cup {FixtureToken, None},
         action.irreversible => token # None
  PROVE  Sound(Take(action, token))
BY DEF Sound, Take, Decision

\* Whatever was chosen, decide_with_risk never passes an irreversible action
\* without a token.
LEMMA DecideWithRiskSound ==
  ASSUME NEW orientation, NEW candidates \in Seq(Candidate),
         NEW token \in Tokens \cup {None}, NEW chosen,
         NEW decision \in DecideWithRisk(orientation, candidates, token, chosen)
  PROVE  Sound(decision) /\ decision.token \in {token, None}
<1> DEFINE viable == Viable(candidates, orientation.budget, token)
<1>1. ASSUME NEW i \in viable
      PROVE  /\ Sound(Take(candidates[i], token))
             /\ Take(candidates[i], token).token = token
  <2>1. candidates[i] \in Candidate
    BY <1>1 DEF Viable
  <2>2. candidates[i].irreversible => token # None
    BY <1>1 DEF Viable
  <2> QED BY <2>1, <2>2, TakeSound DEF Take
<1>2. \A reason \in Reasons : Sound(Refuse(reason)) /\ Refuse(reason).token = None
  BY RefuseSound DEF Refuse
<1> HIDE DEF viable
<1>3. \/ \E reason \in Reasons : decision = Refuse(reason)
      \/ \E i \in viable : decision = Take(candidates[i], token)
  <2>1. CASE \/ orientation.conf < 300
             \/ orientation.budget <= 0
             \/ viable = {}
    <3>1. decision \in {Refuse("insufficient_orientation_confidence"),
                        Refuse("risk_budget_exhausted"),
                        Refuse("no_viable_candidates")}
      BY <2>1, Zenon DEF DecideWithRisk, viable
    <3> QED BY <3>1 DEF Reasons
  <2>2. CASE /\ ~(orientation.conf < 300)
             /\ ~(orientation.budget <= 0)
             /\ viable # {}
    <3>1. CASE \E i \in viable : candidates[i] = chosen
      BY <2>2, <3>1, Zenon DEF DecideWithRisk, viable
    <3>2. CASE ~ \E i \in viable : candidates[i] = chosen
      <4>1. decision \in {Take(candidates[i], token) : i \in Best(candidates, viable)}
        BY <2>2, <3>2, Zenon DEF DecideWithRisk, viable
      <4> QED BY <4>1 DEF Best
    <3> QED BY <3>1, <3>2
  <2> QED BY <2>1, <2>2
<1> QED BY <1>1, <1>2, <1>3

LEMMA StubDecideSound ==
  ASSUME NEW orientation, NEW fixture,
         fixture.candidates \in Seq(Candidate), fixture.token \in {FixtureToken, None},
         NEW decision \in StubDecide(orientation, fixture)
  PROVE  Sound(decision) /\ decision.token \in {FixtureToken, None}
<1> DEFINE candidates == IF fixture.candidates = <<>> THEN StubDefaultCandidates
                         ELSE fixture.candidates
           actions == NamedOrFirst(candidates, fixture.chosen)
<1>1. candidates \in Seq(Candidate) /\ candidates # <<>>
  BY StubDefaultType
<1>2. actions \subseteq Candidate
  <2> HIDE DEF candidates
  <2>1. candidates[1] \in Candidate
    BY <1>1
  <2> QED BY <1>1, <2>1, NamedType DEF NamedOrFirst
<1> HIDE DEF candidates, actions
<1>3. \/ \E reason \in Reasons : decision = Refuse(reason)
      \/ \E action \in actions :
           /\ decision = Take(action, fixture.token)
           /\ action.irreversible => fixture.token # None
  <2> DEFINE answer(action) ==
               IF action.irreversible /\ fixture.token = None
               THEN Refuse("approval_required") ELSE Take(action, fixture.token)
  <2>1. \/ decision = Refuse("insufficient_orientation_confidence")
        \/ decision = Refuse("risk_budget_exhausted")
        \/ decision \in {answer(action) : action \in actions}
    BY Zenon DEF StubDecide, candidates, actions
  <2>2. CASE decision \in {answer(action) : action \in actions}
    <3>1. PICK action \in actions : decision = answer(action)
      BY <2>2
    <3> QED BY <3>1 DEF Reasons
  <2> QED BY <2>1, <2>2 DEF Reasons
<1>4. \A reason \in Reasons : Sound(Refuse(reason)) /\ Refuse(reason).token = None
  BY RefuseSound DEF Refuse
<1>5. ASSUME NEW action \in actions, action.irreversible => fixture.token # None
      PROVE  /\ Sound(Take(action, fixture.token))
             /\ Take(action, fixture.token).token = fixture.token
  BY <1>2, <1>5, TakeSound DEF Take
<1> QED BY <1>3, <1>4, <1>5

LEMMA LiveDecideSound ==
  ASSUME NEW orientation, NEW fixture, fixture.candidates \in Seq(Candidate),
         NEW decision \in LiveDecide(orientation, fixture)
  PROVE  Sound(decision) /\ decision.token = None
<1> DEFINE candidates == IF fixture.candidates = <<>> THEN LiveDefaultCandidates
                         ELSE fixture.candidates
<1>1. candidates \in Seq(Candidate)
  BY LiveDefaultType
<1>2. \E chosen : decision \in DecideWithRisk(orientation, candidates, None, chosen)
  BY DEF LiveDecide
<1> HIDE DEF candidates
<1> QED BY <1>1, <1>2, DecideWithRiskSound

---------------------------------------------------------------------------
(* The operators return sets; the code returns one value.  Where no model  *)
(* chooses, the sets have exactly one member: Decide always has an answer, *)
(* so that no step of the runtime is lost because an operator is empty.    *)

\* max() finds one candidate: the first of those with the largest value.
LEMMA BestIsOne ==
  ASSUME NEW candidates \in Seq(Candidate),
         NEW viable, viable \subseteq DOMAIN candidates, viable # {}
  PROVE  \E i \in viable : Best(candidates, viable) = {i}
<1> DEFINE value(i) == candidates[i].value
           Leads(i, n) == /\ i \in viable /\ i <= n
                          /\ \A j \in viable : j <= n =>
                               /\ value(j) <= value(i)
                               /\ value(j) = value(i) => i <= j
           Leaderless == {n \in Nat : /\ \E j \in viable : j <= n
                                      /\ ~ \E i \in viable : Leads(i, n)}
<1>1. \A i \in viable : i \in Nat /\ i >= 1 /\ i <= Len(candidates) /\ value(i) \in Int
  <2>1. \A i \in DOMAIN candidates : candidates[i] \in Candidate
    OBVIOUS
  <2>2. \A c \in Candidate : c.value \in Int
    BY DEF Candidate
  <2>3. DOMAIN candidates = 1..Len(candidates) /\ Len(candidates) \in Nat
    OBVIOUS
  <2> QED BY <2>1, <2>2, <2>3
<1>2. Len(candidates) \in Nat
  OBVIOUS
<1> HIDE DEF value
<1>3. Leaderless = {}
  <2> SUFFICES ASSUME Leaderless # {} PROVE FALSE
    OBVIOUS
  <2>1. PICK n \in Leaderless : \A m \in Leaderless : n <= m
    BY LeastNatural
  <2>2. n \in Nat /\ (\E j \in viable : j <= n) /\ ~ \E i \in viable : Leads(i, n)
    BY <2>1
  <2>3. n >= 1 /\ n - 1 \in Nat /\ ~(n <= n - 1)
    BY <1>1, <2>2
  <2>4. (\E j \in viable : j <= n - 1) => \E i \in viable : Leads(i, n - 1)
    <3>1. n - 1 \notin Leaderless
      <4> HIDE DEF Leaderless
      <4> QED BY <2>1, <2>3
    <3> HIDE DEF Leads
    <3> QED BY <2>3, <3>1
  <2>5. \A j \in viable : j <= n => j <= n - 1 \/ j = n
    <3>1. \A j \in Nat : j <= n => j <= n - 1 \/ j = n
      BY <2>2
    <3> QED BY <1>1, <3>1
  <2>6. CASE ~ \E j \in viable : j <= n - 1
    <3>1. n \in viable /\ \A j \in viable : j <= n => j = n
      BY <2>2, <2>5, <2>6
    <3>2. Leads(n, n)
      BY <1>1, <2>2, <3>1
    <3> QED BY <2>2, <3>1, <3>2
  <2>7. CASE \E j \in viable : j <= n - 1
    <3>1. PICK i \in viable : Leads(i, n - 1)
      BY <2>4, <2>7
    <3>2. i <= n - 1 /\ i <= n /\ i \in Nat /\ value(i) \in Int
      BY <1>1, <2>2, <3>1
    <3>3. \A j \in viable : j <= n - 1 =>
            value(j) <= value(i) /\ (value(j) = value(i) => i <= j)
      BY <3>1
    <3>4. CASE n \in viable /\ value(n) > value(i)
      <4>1. ASSUME NEW j \in viable, j <= n
            PROVE  value(j) <= value(n) /\ (value(j) = value(n) => n <= j)
        <5>1. value(j) \in Int /\ value(n) \in Int /\ j \in Nat
          BY <1>1, <3>4
        <5>2. CASE j <= n - 1
          <6>1. value(j) <= value(i)
            BY <3>3, <5>2
          <6>2. \A x, y, z \in Int : x <= y /\ z > y => x <= z /\ x # z
            OBVIOUS
          <6>3. value(i) \in Int /\ value(n) > value(i)
            BY <3>2, <3>4
          <6> QED BY <5>1, <6>1, <6>2, <6>3
        <5>3. CASE j = n
          BY <2>2, <5>1, <5>3
        <5> QED BY <2>5, <4>1, <5>2, <5>3
      <4>2. Leads(n, n)
        BY <2>2, <3>4, <4>1
      <4> QED BY <2>2, <3>4, <4>2
    <3>5. CASE ~(n \in viable /\ value(n) > value(i))
      <4>1. ASSUME NEW j \in viable, j <= n
            PROVE  value(j) <= value(i) /\ (value(j) = value(i) => i <= j)
        <5>1. value(j) \in Int /\ j \in Nat
          BY <1>1
        <5>2. CASE j <= n - 1
          BY <3>3, <5>2
        <5>3. CASE j = n
          <6>1. ~(value(j) > value(i)) /\ i <= j
            BY <3>2, <3>5, <5>3
          <6> QED BY <3>2, <5>1, <6>1
        <5> QED BY <2>5, <4>1, <5>2, <5>3
      <4>2. Leads(i, n)
        BY <3>2, <4>1
      <4> QED BY <2>2, <4>2
    <3> QED BY <3>4, <3>5
  <2> QED BY <2>6, <2>7
<1>4. PICK i \in viable : Leads(i, Len(candidates))
  BY <1>1, <1>2, <1>3
<1>5. \A j \in viable : value(j) <= value(i) /\ (value(j) = value(i) => i <= j)
  BY <1>1, <1>4
<1>6. Best(candidates, viable) = {h \in viable : \A j \in viable :
                                    value(j) <= value(h) /\ (value(j) = value(h) => h <= j)}
  BY DEF Best, value
<1>7. Best(candidates, viable) = {i}
  BY <1>1, <1>5, <1>6
<1> QED BY <1>7

\* decide_with_risk returns one decision, and when that is an action there is
\* budget and confidence for it: its cost is within the orientation's budget and
\* it is one of the candidates, whatever was chosen.
THEOREM TheGateDecides ==
  ASSUME NEW orientation, orientation.budget \in Int,
         NEW candidates \in Seq(Candidate), NEW token, NEW chosen
  PROVE  \E decision :
           /\ DecideWithRisk(orientation, candidates, token, chosen) = {decision}
           /\ decision.action # None =>
                /\ decision.action \in Members(candidates)
                /\ decision.action.cost <= orientation.budget
                /\ orientation.budget > 0 /\ ~(orientation.conf < 300)
                /\ decision.action.irreversible => token # None
<1> DEFINE viable == Viable(candidates, orientation.budget, token)
<1>1. /\ viable \subseteq DOMAIN candidates
      /\ \A i \in viable : /\ candidates[i].cost <= orientation.budget
                           /\ candidates[i].irreversible => token # None
  BY DEF Viable
<1> HIDE DEF viable
<1>2. CASE \/ orientation.conf < 300
           \/ orientation.budget <= 0
           \/ viable = {}
  <2>1. \E reason : DecideWithRisk(orientation, candidates, token, chosen) = {Refuse(reason)}
    BY <1>2, Zenon DEF DecideWithRisk, viable
  <2>2. \A reason : Refuse(reason).action = None
    BY DEF Refuse
  <2> QED BY <2>1, <2>2
<1>3. CASE /\ ~(orientation.conf < 300)
           /\ ~(orientation.budget <= 0)
           /\ viable # {}
  <2>1. \E i \in viable :
          DecideWithRisk(orientation, candidates, token, chosen) = {Take(candidates[i], token)}
    <3>1. CASE \E i \in viable : candidates[i] = chosen
      BY <1>3, <3>1, Zenon DEF DecideWithRisk, viable
    <3>2. CASE ~ \E i \in viable : candidates[i] = chosen
      <4>1. DecideWithRisk(orientation, candidates, token, chosen)
              = {Take(candidates[i], token) : i \in Best(candidates, viable)}
        BY <1>3, <3>2, Zenon DEF DecideWithRisk, viable
      <4>2. PICK i \in viable : Best(candidates, viable) = {i}
        BY <1>1, <1>3, BestIsOne
      <4> QED BY <4>1, <4>2
    <3> QED BY <3>1, <3>2
  <2>2. PICK i \in viable :
          DecideWithRisk(orientation, candidates, token, chosen) = {Take(candidates[i], token)}
    BY <2>1
  <2>3. Take(candidates[i], token).action = candidates[i]
    BY DEF Take
  <2>4. candidates[i] \in Members(candidates)
    BY <1>1 DEF Members
  <2>5. orientation.budget > 0
    BY <1>3
  <2> QED BY <1>1, <1>3, <2>2, <2>3, <2>4, <2>5
<1> QED BY <1>2, <1>3

\* An id names at most one candidate: the first that carries it.
LEMMA NamedIsOne ==
  ASSUME NEW candidates \in Seq(Candidate), NEW id
  PROVE  \/ Named(candidates, id) = {}
         \/ \E c \in Members(candidates) : Named(candidates, id) = {c}
<1> DEFINE places == {j \in DOMAIN candidates :
                        /\ candidates[j].id = id
                        /\ \A h \in DOMAIN candidates : candidates[h].id = id => j <= h}
<1>1. \A i, j \in places : i = j
  OBVIOUS
<1>2. places \subseteq DOMAIN candidates
  OBVIOUS
<1>3. Named(candidates, id) = {candidates[i] : i \in places}
  BY DEF Named
<1> HIDE DEF places
<1>4. CASE places = {}
  BY <1>3, <1>4
<1>5. CASE places # {}
  <2>1. PICK i \in places : places = {i}
    BY <1>1, <1>5
  <2> QED BY <1>2, <1>3, <2>1 DEF Members
<1> QED BY <1>4, <1>5

\* The stub always decides: the fixture's choice, or the first candidate.
LEMMA TheStubDecides ==
  ASSUME NEW orientation, NEW fixture, fixture.candidates \in Seq(Candidate)
  PROVE  \E decision : StubDecide(orientation, fixture) = {decision}
<1> DEFINE candidates == IF fixture.candidates = <<>> THEN StubDefaultCandidates
                         ELSE fixture.candidates
           actions == NamedOrFirst(candidates, fixture.chosen)
           answer(action) ==
             IF action.irreversible /\ fixture.token = None
             THEN Refuse("approval_required") ELSE Take(action, fixture.token)
<1>1. candidates \in Seq(Candidate)
  BY StubDefaultType
<1> HIDE DEF candidates
<1>2. PICK action : actions = {action}
  BY <1>1, NamedIsOne DEF NamedOrFirst
<1> HIDE DEF actions, answer
<1>3. \/ StubDecide(orientation, fixture) = {Refuse("insufficient_orientation_confidence")}
      \/ StubDecide(orientation, fixture) = {Refuse("risk_budget_exhausted")}
      \/ StubDecide(orientation, fixture) = {answer(a) : a \in actions}
  BY Zenon DEF StubDecide, candidates, actions, answer
<1> QED BY <1>2, <1>3

\* The fast path takes one rule or none: the first of the observation's pattern
\* decides, and a later rule of that pattern never stands in for it.
LEMMA OneRuleMatches ==
  ASSUME NEW contradictions, NEW obs, NEW conf
  PROVE  \A a, b \in IgcMatches(contradictions, obs, conf) : a = b
<1>1. DOMAIN IgcRules = 1..Len(IgcRules)
  BY IgcAssumption
<1>2. ASSUME NEW a \in IgcMatches(contradictions, obs, conf),
             NEW b \in IgcMatches(contradictions, obs, conf)
      PROVE  a = b
  <2>1. PICK i \in DOMAIN IgcRules :
          /\ a = IgcRules[i] /\ IgcRules[i].pattern = obs.pattern
          /\ \A h \in DOMAIN IgcRules : IgcRules[h].pattern = obs.pattern => i <= h
    BY DEF IgcMatches
  <2>2. PICK j \in DOMAIN IgcRules :
          /\ b = IgcRules[j] /\ IgcRules[j].pattern = obs.pattern
          /\ \A h \in DOMAIN IgcRules : IgcRules[h].pattern = obs.pattern => j <= h
    BY DEF IgcMatches
  <2>3. i = j
    BY <1>1, <2>1, <2>2
  <2> QED BY <2>1, <2>2, <2>3
<1> QED BY <1>2
=============================================================================
