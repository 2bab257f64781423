------------------------------ MODULE CopyProofs ------------------------------
(***************************************************************************)
(* Sessions under overlapping calls.  What the theorems about one call     *)
(* taken whole say of its session holds of the copy a call works on, and   *)
(* from there of what ends up stored, whichever saves are lost.            *)
(***************************************************************************)
EXTENDS CallsProofs, GuardProofs

---------------------------------------------------------------------------
(* The theorems about one session, read for the copy of each call.  One    *)
(* and Two stand for the same formulas as First and Second do; unfolding   *)
(* both is all there is to show.                                           *)

One == INSTANCE GuardProofs WITH
  session <- first, live <- live \ claim[1], spent <- spent \cup claim[1]
Two == INSTANCE GuardProofs WITH
  session <- second, live <- live \ claim[2], spent <- spent \cup claim[2]

LEMMA OneAssumptions ==
  /\ One!WorldModelAssumption
  /\ One!RiskGateAssumption
  /\ One!IgcAssumption
  /\ One!RuntimeAssumption
<1>1. One!WorldModelAssumption
  BY WorldModelAssumption, Zenon DEF WorldModelAssumption,
     One!WorldModelAssumption, Percent, Fact, Signal, Observation, One!Percent,
     One!Fact, One!Signal, One!Observation
<1>2. One!RiskGateAssumption
  BY RiskGateAssumption, Zenon DEF RiskGateAssumption, One!RiskGateAssumption,
     Reasons, One!Reasons
<1>3. One!IgcAssumption
  BY IgcAssumption, Zenon DEF IgcAssumption, One!IgcAssumption, Percent,
     IgcRule, One!Percent, One!IgcRule
<1>4. One!RuntimeAssumption
  BY RuntimeAssumption, Zenon DEF RuntimeAssumption, One!RuntimeAssumption,
     Percent, Severity, Fact, Facts, Signal, Contradiction, Observation,
     Candidate, Fixture, McpResult, Requests, Snapshot, One!Percent,
     One!Severity, One!Fact, One!Facts, One!Signal, One!Contradiction,
     One!Observation, One!Candidate, One!Fixture, One!McpResult, One!Requests,
     One!Snapshot
<1> QED BY <1>1, <1>2, <1>3, <1>4

LEMMA OneSessions ==
  /\ One!Session = Session /\ One!Rows = Rows
  /\ \A s : One!Coherent(s) <=> Coherent(s)
<1>1. One!Session = Session /\ One!Rows = Rows
  BY Zenon DEF Percent, Severity, Fact, Facts, Signal, Contradiction,
     Observation, Texts, Resolutions, Reasons, Requests, Snapshot, Phases, Rows,
     Session, One!Percent, One!Severity, One!Fact, One!Facts, One!Signal,
     One!Contradiction, One!Observation, One!Texts, One!Resolutions,
     One!Reasons, One!Requests, One!Snapshot, One!Phases, One!Rows, One!Session
<1>2. \A s : (One!OpenIn(s) <=> OpenIn(s)) /\ (One!Grounded(s) <=> Grounded(s))
  BY Zenon DEF Reversible, Irreversible, ManualCandidates, Named, OpenIn,
     Grounded, One!Reversible, One!Irreversible, One!ManualCandidates,
     One!Named, One!OpenIn, One!Grounded
<1> QED BY <1>1, <1>2 DEF Coherent, One!Coherent

LEMMA FirstIsOne == First!Next <=> One!Next
<1>1. First!Operator <=> One!Operator
  BY Zenon DEF First!Texts, First!Abs, First!OutOfTolerance, First!Conflict,
     First!SeverityOf, First!Signals, First!DetectContradictions, First!KeysOf,
     First!ResolvedFacts, First!ResolvedContradictions, First!LastSignal,
     First!MergeSignals, First!Overlay, First!Lesser,
     First!ActiveContradictions, First!Orient, First!ledger, First!Save,
     First!Fresh, First!Issue, First!Oriented, First!ScenarioName,
     First!LoadObservation, First!McpObservation, First!LoadFromMcp,
     First!InjectObservation, First!ResolveContradiction, First!SubmitDecide,
     First!Approve, First!AcknowledgeCheckpoint, First!Operator, One!Texts,
     One!Abs, One!OutOfTolerance, One!Conflict, One!SeverityOf, One!Signals,
     One!DetectContradictions, One!KeysOf, One!ResolvedFacts,
     One!ResolvedContradictions, One!LastSignal, One!MergeSignals, One!Overlay,
     One!Lesser, One!ActiveContradictions, One!Orient, One!ledger, One!Save,
     One!Fresh, One!Issue, One!Oriented, One!ScenarioName, One!LoadObservation,
     One!McpObservation, One!LoadFromMcp, One!InjectObservation,
     One!ResolveContradiction, One!SubmitDecide, One!Approve,
     One!AcknowledgeCheckpoint, One!Operator
<1>2. First!RunStep <=> One!RunStep
  BY ZenonT(60) DEF First!NoFacts, First!Abs, First!OutOfTolerance, First!Conflict,
     First!SeverityOf, First!Signals, First!DetectContradictions, First!KeysOf,
     First!ResolvedFacts, First!ResolvedContradictions, First!LastSignal,
     First!MergeSignals, First!Overlay, First!Lesser,
     First!ActiveContradictions, First!Orient, First!Reversible,
     First!Irreversible, First!ManualCandidates, First!StubDefaultCandidates,
     First!LiveDefaultCandidates, First!Refuse, First!Take, First!Members,
     First!Named, First!NamedOrFirst, First!Viable, First!Best,
     First!DecideWithRisk, First!StubDecide, First!LiveDecide, First!IgcMatches,
     First!IgcAction, First!vars, First!ledger, First!Save, First!IsLive,
     First!Consume, First!Escalate, First!Feedback, First!Charge, First!Perform,
     First!Execute, First!Pause, First!FixtureOf, First!Settle, First!UseChoice,
     First!DecideManually, First!Decide, First!StubOrient, First!Answered,
     First!LiveOrientations, First!Orientations, First!Oriented,
     First!Insufficient, First!Running, First!Terminate, First!AwaitObservation,
     First!EscalateObservation, First!Stepping, First!MustReview,
     First!PauseForReview, First!EscalateOrientation, First!Accepted,
     First!IgcAllowed, First!MatchedRules, First!CheckpointDue,
     First!IgcFastPath, First!PauseForCheckpoint, First!OrientThenDecide,
     First!DecideStep, First!Halted, First!RunStep, One!NoFacts, One!Abs,
     One!OutOfTolerance, One!Conflict, One!SeverityOf, One!Signals,
     One!DetectContradictions, One!KeysOf, One!ResolvedFacts,
     One!ResolvedContradictions, One!LastSignal, One!MergeSignals, One!Overlay,
     One!Lesser, One!ActiveContradictions, One!Orient, One!Reversible,
     One!Irreversible, One!ManualCandidates, One!StubDefaultCandidates,
     One!LiveDefaultCandidates, One!Refuse, One!Take, One!Members, One!Named,
     One!NamedOrFirst, One!Viable, One!Best, One!DecideWithRisk, One!StubDecide,
     One!LiveDecide, One!IgcMatches, One!IgcAction, One!vars, One!ledger,
     One!Save, One!IsLive, One!Consume, One!Escalate, One!Feedback, One!Charge,
     One!Perform, One!Execute, One!Pause, One!FixtureOf, One!Settle,
     One!UseChoice, One!DecideManually, One!Decide, One!StubOrient,
     One!Answered, One!LiveOrientations, One!Orientations, One!Oriented,
     One!Insufficient, One!Running, One!Terminate, One!AwaitObservation,
     One!EscalateObservation, One!Stepping, One!MustReview, One!PauseForReview,
     One!EscalateOrientation, One!Accepted, One!IgcAllowed, One!MatchedRules,
     One!CheckpointDue, One!IgcFastPath, One!PauseForCheckpoint,
     One!OrientThenDecide, One!DecideStep, One!Halted, One!RunStep
<1> QED BY <1>1, <1>2 DEF First!Next, One!Next

LEMMA TwoAssumptions ==
  /\ Two!WorldModelAssumption
  /\ Two!RiskGateAssumption
  /\ Two!IgcAssumption
  /\ Two!RuntimeAssumption
<1>1. Two!WorldModelAssumption
  BY WorldModelAssumption, Zenon DEF WorldModelAssumption,
     Two!WorldModelAssumption, Percent, Fact, Signal, Observation, Two!Percent,
     Two!Fact, Two!Signal, Two!Observation
<1>2. Two!RiskGateAssumption
  BY RiskGateAssumption, Zenon DEF RiskGateAssumption, Two!RiskGateAssumption,
     Reasons, Two!Reasons
<1>3. Two!IgcAssumption
  BY IgcAssumption, Zenon DEF IgcAssumption, Two!IgcAssumption, Percent,
     IgcRule, Two!Percent, Two!IgcRule
<1>4. Two!RuntimeAssumption
  BY RuntimeAssumption, Zenon DEF RuntimeAssumption, Two!RuntimeAssumption,
     Percent, Severity, Fact, Facts, Signal, Contradiction, Observation,
     Candidate, Fixture, McpResult, Requests, Snapshot, Two!Percent,
     Two!Severity, Two!Fact, Two!Facts, Two!Signal, Two!Contradiction,
     Two!Observation, Two!Candidate, Two!Fixture, Two!McpResult, Two!Requests,
     Two!Snapshot
<1> QED BY <1>1, <1>2, <1>3, <1>4

LEMMA TwoSessions ==
  /\ Two!Session = Session /\ Two!Rows = Rows
  /\ \A s : Two!Coherent(s) <=> Coherent(s)
<1>1. Two!Session = Session /\ Two!Rows = Rows
  BY Zenon DEF Percent, Severity, Fact, Facts, Signal, Contradiction,
     Observation, Texts, Resolutions, Reasons, Requests, Snapshot, Phases, Rows,
     Session, Two!Percent, Two!Severity, Two!Fact, Two!Facts, Two!Signal,
     Two!Contradiction, Two!Observation, Two!Texts, Two!Resolutions,
     Two!Reasons, Two!Requests, Two!Snapshot, Two!Phases, Two!Rows, Two!Session
<1>2. \A s : (Two!OpenIn(s) <=> OpenIn(s)) /\ (Two!Grounded(s) <=> Grounded(s))
  BY Zenon DEF Reversible, Irreversible, ManualCandidates, Named, OpenIn,
     Grounded, Two!Reversible, Two!Irreversible, Two!ManualCandidates,
     Two!Named, Two!OpenIn, Two!Grounded
<1> QED BY <1>1, <1>2 DEF Coherent, Two!Coherent

LEMMA SecondIsTwo == Second!Next <=> Two!Next
<1>1. Second!Operator <=> Two!Operator
  BY Zenon DEF Second!Texts, Second!Abs, Second!OutOfTolerance, Second!Conflict,
     Second!SeverityOf, Second!Signals, Second!DetectContradictions,
     Second!KeysOf, Second!ResolvedFacts, Second!ResolvedContradictions,
     Second!LastSignal, Second!MergeSignals, Second!Overlay, Second!Lesser,
     Second!ActiveContradictions, Second!Orient, Second!ledger, Second!Save,
     Second!Fresh, Second!Issue, Second!Oriented, Second!ScenarioName,
     Second!LoadObservation, Second!McpObservation, Second!LoadFromMcp,
     Second!InjectObservation, Second!ResolveContradiction, Second!SubmitDecide,
     Second!Approve, Second!AcknowledgeCheckpoint, Second!Operator, Two!Texts,
     Two!Abs, Two!OutOfTolerance, Two!Conflict, Two!SeverityOf, Two!Signals,
     Two!DetectContradictions, Two!KeysOf, Two!ResolvedFacts,
     Two!ResolvedContradictions, Two!LastSignal, Two!MergeSignals, Two!Overlay,
     Two!Lesser, Two!ActiveContradictions, Two!Orient, Two!ledger, Two!Save,
     Two!Fresh, Two!Issue, Two!Oriented, Two!ScenarioName, Two!LoadObservation,
     Two!McpObservation, Two!LoadFromMcp, Two!InjectObservation,
     Two!ResolveContradiction, Two!SubmitDecide, Two!Approve,
     Two!AcknowledgeCheckpoint, Two!Operator
<1>2. Second!RunStep <=> Two!RunStep
  BY ZenonT(60) DEF Second!NoFacts, Second!Abs, Second!OutOfTolerance,
     Second!Conflict, Second!SeverityOf, Second!Signals,
     Second!DetectContradictions, Second!KeysOf, Second!ResolvedFacts,
     Second!ResolvedContradictions, Second!LastSignal, Second!MergeSignals,
     Second!Overlay, Second!Lesser, Second!ActiveContradictions, Second!Orient,
     Second!Reversible, Second!Irreversible, Second!ManualCandidates,
     Second!StubDefaultCandidates, Second!LiveDefaultCandidates, Second!Refuse,
     Second!Take, Second!Members, Second!Named, Second!NamedOrFirst,
     Second!Viable, Second!Best, Second!DecideWithRisk, Second!StubDecide,
     Second!LiveDecide, Second!IgcMatches, Second!IgcAction, Second!vars,
     Second!ledger, Second!Save, Second!IsLive, Second!Consume, Second!Escalate,
     Second!Feedback, Second!Charge, Second!Perform, Second!Execute,
     Second!Pause, Second!FixtureOf, Second!Settle, Second!UseChoice,
     Second!DecideManually, Second!Decide, Second!StubOrient, Second!Answered,
     Second!LiveOrientations, Second!Orientations, Second!Oriented,
     Second!Insufficient, Second!Running, Second!Terminate,
     Second!AwaitObservation, Second!EscalateObservation, Second!Stepping,
     Second!MustReview, Second!PauseForReview, Second!EscalateOrientation,
     Second!Accepted, Second!IgcAllowed, Second!MatchedRules,
     Second!CheckpointDue, Second!IgcFastPath, Second!PauseForCheckpoint,
     Second!OrientThenDecide, Second!DecideStep, Second!Halted, Second!RunStep,
     Two!NoFacts, Two!Abs, Two!OutOfTolerance, Two!Conflict, Two!SeverityOf,
     Two!Signals, Two!DetectContradictions, Two!KeysOf, Two!ResolvedFacts,
     Two!ResolvedContradictions, Two!LastSignal, Two!MergeSignals, Two!Overlay,
     Two!Lesser, Two!ActiveContradictions, Two!Orient, Two!Reversible,
     Two!Irreversible, Two!ManualCandidates, Two!StubDefaultCandidates,
     Two!LiveDefaultCandidates, Two!Refuse, Two!Take, Two!Members, Two!Named,
     Two!NamedOrFirst, Two!Viable, Two!Best, Two!DecideWithRisk, Two!StubDecide,
     Two!LiveDecide, Two!IgcMatches, Two!IgcAction, Two!vars, Two!ledger,
     Two!Save, Two!IsLive, Two!Consume, Two!Escalate, Two!Feedback, Two!Charge,
     Two!Perform, Two!Execute, Two!Pause, Two!FixtureOf, Two!Settle,
     Two!UseChoice, Two!DecideManually, Two!Decide, Two!StubOrient,
     Two!Answered, Two!LiveOrientations, Two!Orientations, Two!Oriented,
     Two!Insufficient, Two!Running, Two!Terminate, Two!AwaitObservation,
     Two!EscalateObservation, Two!Stepping, Two!MustReview, Two!PauseForReview,
     Two!EscalateOrientation, Two!Accepted, Two!IgcAllowed, Two!MatchedRules,
     Two!CheckpointDue, Two!IgcFastPath, Two!PauseForCheckpoint,
     Two!OrientThenDecide, Two!DecideStep, Two!Halted, Two!RunStep
<1> QED BY <1>1, <1>2 DEF Second!Next, Two!Next

---------------------------------------------------------------------------
(* What a call does to its copy and to the rows as it sees them.           *)

Seen(i) == live \ claim[i]
Used(i) == spent \cup claim[i]

Keeps(i) ==
  /\ Held(i)'.taken = Held(i).taken /\ Held(i)'.token = Held(i).token
  /\ UNCHANGED <<Seen(i), Used(i)>>

\* approve, with a fresh token.
Gains(i) ==
  /\ Held(i)'.taken = Held(i).taken /\ UNCHANGED Used(i)
  /\ \E hash \in Hashes, token \in Tokens :
       /\ \A row \in Seen(i) \cup Used(i) : row[2] # token
       /\ Seen(i)' = Seen(i) \cup {<<hash, token>>}
       /\ Held(i)'.token = token

\* Act spends the approval of the irreversible candidate the operator chose.
Uses(i) ==
  /\ Held(i)'.taken = Held(i).taken + 1 /\ Held(i)'.token = None
  /\ \E c \in Named(ManualCandidates, Held(i).decideId) :
       LET row == <<c.hash, Held(i).token>>
       IN  /\ c.irreversible /\ row \in Seen(i)
           /\ Seen(i)' = Seen(i) \ {row} /\ Used(i)' = Used(i) \cup {row}

LEMMA FirstOutcome ==
  ASSUME TypeOK, claim[1] \subseteq Rows, Coherent(first), First!Next
  PROVE  Coherent(first') /\ (Keeps(1) \/ Gains(1) \/ Uses(1))
<1>1. One!TypeOK
  BY OneSessions DEF One!TypeOK, TypeOK, Coherent
<1>2. /\ One!Coherent(first')
      /\ One!Kept \/ One!Grants \/ One!Spends(first.token)
      /\ first'.taken # first.taken => One!Chosen
  BY <1>1, OneAssumptions, OneSessions, FirstIsOne, One!CallOutcome
<1>3. Held(1) = first /\ Held(1)' = first'
  BY DEF Held
<1>4. ASSUME One!Kept PROVE Keeps(1)
  BY <1>3, <1>4 DEF One!Kept, One!ledger, Keeps, Seen, Used
<1>5. ASSUME One!Grants PROVE Gains(1)
  BY <1>3, <1>5 DEF One!Grants, One!Fresh, One!Issue, Gains, Seen, Used
<1>6. ASSUME One!Spends(first.token) PROVE Uses(1)
  <2>1. PICK row \in Seen(1) :
          /\ Seen(1)' = Seen(1) \ {row} /\ Used(1)' = Used(1) \cup {row}
          /\ first'.taken = first.taken + 1 /\ first'.token = None
    BY <1>6 DEF One!Spends, One!Consume, Seen, Used
  <2>2. first'.taken # first.taken
    BY <2>1 DEF Coherent, Session
  <2>3. PICK c \in Named(ManualCandidates, first.decideId) :
          c.irreversible /\ <<c.hash, first.token>> \in Seen(1) \ Seen(1)'
    <3>1. One!Chosen
      BY <1>2, <2>2
    <3> QED
      BY <3>1, Zenon DEF One!Chosen, Seen, Reversible, Irreversible, ManualCandidates,
           Named, One!Reversible, One!Irreversible, One!ManualCandidates, One!Named
  <2>4. row = <<c.hash, first.token>>
    BY <2>1, <2>3
  <2> QED BY <1>3, <2>1, <2>3, <2>4 DEF Uses
<1> QED BY <1>2, <1>4, <1>5, <1>6, OneSessions

LEMMA SecondOutcome ==
  ASSUME TypeOK, claim[2] \subseteq Rows, Coherent(second), Second!Next
  PROVE  Coherent(second') /\ (Keeps(2) \/ Gains(2) \/ Uses(2))
<1>1. Two!TypeOK
  BY TwoSessions DEF Two!TypeOK, TypeOK, Coherent
<1>2. /\ Two!Coherent(second')
      /\ Two!Kept \/ Two!Grants \/ Two!Spends(second.token)
      /\ second'.taken # second.taken => Two!Chosen
  BY <1>1, TwoAssumptions, TwoSessions, SecondIsTwo, Two!CallOutcome
<1>3. Held(2) = second /\ Held(2)' = second'
  BY DEF Held
<1>4. ASSUME Two!Kept PROVE Keeps(2)
  BY <1>3, <1>4 DEF Two!Kept, Two!ledger, Keeps, Seen, Used
<1>5. ASSUME Two!Grants PROVE Gains(2)
  BY <1>3, <1>5 DEF Two!Grants, Two!Fresh, Two!Issue, Gains, Seen, Used
<1>6. ASSUME Two!Spends(second.token) PROVE Uses(2)
  <2>1. PICK row \in Seen(2) :
          /\ Seen(2)' = Seen(2) \ {row} /\ Used(2)' = Used(2) \cup {row}
          /\ second'.taken = second.taken + 1 /\ second'.token = None
    BY <1>6 DEF Two!Spends, Two!Consume, Seen, Used
  <2>2. second'.taken # second.taken
    BY <2>1 DEF Coherent, Session
  <2>3. PICK c \in Named(ManualCandidates, second.decideId) :
          c.irreversible /\ <<c.hash, second.token>> \in Seen(2) \ Seen(2)'
    <3>1. Two!Chosen
      BY <1>2, <2>2
    <3> QED
      BY <3>1, Zenon DEF Two!Chosen, Seen, Reversible, Irreversible, ManualCandidates,
           Named, Two!Reversible, Two!Irreversible, Two!ManualCandidates, Two!Named
  <2>4. row = <<c.hash, second.token>>
    BY <2>1, <2>3
  <2> QED BY <1>3, <2>1, <2>3, <2>4 DEF Uses
<1> QED BY <1>2, <1>4, <1>5, <1>6, TwoSessions

---------------------------------------------------------------------------
(* The invariant.                                                          *)

\* The copies are sessions as a call taken whole would leave them, and only a
\* call past its SELECT has a claim.
CopiesInv ==
  /\ TypeOK /\ Coherent(session)
  /\ at \in [Ids -> Stages] /\ claim \in [Ids -> SUBSET Rows]
  /\ \A i \in Ids : at[i] \in {"idle", "loaded"} => claim[i] = {}
  /\ \A i \in Ids : IF at[i] = "idle" THEN Held(i) = None ELSE Coherent(Held(i))

\* A copy counts an action one step before it is carried out, between the claim
\* of its approval and the mark.
Owed(i) == IF at[i] = "claimed" THEN 1 ELSE 0

ExecutedInv ==
  /\ deployment \in Deployments /\ executed \in Nat /\ forgotten \in Nat
  /\ session.taken <= executed
  /\ \A i \in Ids : at[i] # "idle" => Held(i).taken <= executed + Owed(i)

Issued(token) == token # None => \E row \in live \cup spent : row[2] = token

IssuedInv ==
  /\ Issued(session.token)
  /\ \A i \in Ids : at[i] # "idle" => Issued(Held(i).token)

\* Nor does it count more actions than there are consumed rows and its claim.
BackedInv ==
  /\ IsFiniteSet(spent) /\ live \cap spent = {}
  /\ \A i \in Ids : IsFiniteSet(claim[i]) /\ claim[i] \subseteq live \cup spent
  /\ session.taken <= Cardinality(spent)
  /\ \A i \in Ids : at[i] # "idle" => Held(i).taken <= Cardinality(Used(i))

---------------------------------------------------------------------------
LEMMA OtherCopyStands ==
  ASSUME NEW i \in Ids, Step(i) \/ Request(i)
  PROVE  \A j \in Ids \ {i} : Held(j)' = Held(j)
BY DEF Step, Request, Held, Ids

LEMMA CopyOutcome ==
  ASSUME CopiesInv, NEW i \in Ids, at[i] = "loaded", Step(i) \/ Request(i)
  PROVE  Coherent(Held(i)') /\ (Keeps(i) \/ Gains(i) \/ Uses(i))
<1>1. /\ TypeOK /\ claim[i] \subseteq Rows /\ Coherent(Held(i))
  BY DEF CopiesInv
<1>2. CASE i = 1
  <2>1. First!Next
    BY <1>2 DEF Step, Request, First!Next
  <2>2. Held(i) = first /\ Held(i)' = first'
    BY <1>2 DEF Held
  <2> QED BY <1>1, <1>2, <2>1, <2>2, FirstOutcome
<1>3. CASE i = 2
  <2>1. Second!Next
    BY <1>3 DEF Step, Request, Second!Next
  <2>2. Held(i) = second /\ Held(i)' = second'
    BY <1>3 DEF Held
  <2> QED BY <1>1, <1>3, <2>1, <2>2, SecondOutcome
<1> QED BY <1>2, <1>3 DEF Ids

LEMMA WorkKeeps ==
  ASSUME CopiesInv, NEW i \in Ids, WorkStep(i)
  PROVE  Coherent(Held(i)') /\ Keeps(i)
<1>1. /\ at[i] = "loaded" /\ Step(i)
      /\ live' = live /\ spent' = spent /\ claim' = claim
  BY DEF WorkStep, vars
<1>2. Seen(i)' = Seen(i) /\ Used(i)' = Used(i)
  BY <1>1 DEF Seen, Used
<1>3. Coherent(Held(i)') /\ (Keeps(i) \/ Gains(i) \/ Uses(i))
  BY <1>1, CopyOutcome
<1>4. ~Uses(i)
  BY <1>2 DEF Uses
<1>5. ~Gains(i)
  <2>1. ASSUME NEW hash, NEW token,
               \A row \in Seen(i) \cup Used(i) : row[2] # token,
               Seen(i)' = Seen(i) \cup {<<hash, token>>}
        PROVE  FALSE
    <3>1. <<hash, token>> \in Seen(i) /\ <<hash, token>>[2] = token
      BY <1>2, <2>1
    <3> QED BY <2>1, <3>1
  <2> QED BY <2>1 DEF Gains
<1> QED BY <1>3, <1>4, <1>5

\* Past its SELECT a call has claimed exactly what Act spends.
LEMMA ClaimUses ==
  ASSUME CopiesInv, NEW i \in Ids, ClaimStep(i)
  PROVE  Coherent(Held(i)') /\ Uses(i)
<1>1. /\ at[i] = "loaded" /\ Step(i) /\ live' = live /\ spent' = spent
  BY DEF ClaimStep, vars
<1>2. claim[i] = {} /\ claim \in [Ids -> SUBSET Rows]
  BY <1>1 DEF CopiesInv
<1>3. PICK row \in live : claim' = [claim EXCEPT ![i] = {row}]
  BY DEF ClaimStep
<1>4. Seen(i) = live /\ Seen(i)' = live \ {row}
  BY <1>1, <1>2, <1>3 DEF Seen
<1>5. Coherent(Held(i)') /\ (Keeps(i) \/ Gains(i) \/ Uses(i))
  BY <1>1, CopyOutcome
<1>6. ~Keeps(i) /\ ~Gains(i)
  BY <1>4 DEF Keeps, Gains
<1> QED BY <1>5, <1>6

\* A request may add a row; it takes none away and executes nothing.
LEMMA RequestKeeps ==
  ASSUME CopiesInv, NEW i \in Ids, WorkRequest(i)
  PROVE  /\ Coherent(Held(i)') /\ Held(i)'.taken = Held(i).taken
         /\ live \subseteq live' /\ live' \subseteq Rows /\ spent' = spent
         /\ live' \cap spent = live \cap spent
         /\ \/ Held(i)'.token = Held(i).token
            \/ \E row \in live' : row[2] = Held(i)'.token
<1>1. /\ at[i] = "loaded" /\ Request(i) /\ spent' = spent /\ claim' = claim
      /\ claim[i] = {}
  BY DEF WorkRequest, CopiesInv
<1>2. live \subseteq live' /\ live' \subseteq Rows
  BY DEF WorkRequest, CopiesInv, TypeOK
<1>3. Seen(i) = live /\ Seen(i)' = live' /\ Used(i) = spent /\ Used(i)' = spent
  BY <1>1 DEF Seen, Used
<1>4. Coherent(Held(i)') /\ (Keeps(i) \/ Gains(i) \/ Uses(i))
  BY <1>1, CopyOutcome
<1>5. ~Uses(i)
  BY <1>2, <1>3 DEF Uses
<1>6. CASE Keeps(i)
  BY <1>1, <1>2, <1>3, <1>4, <1>6 DEF Keeps
<1>7. CASE Gains(i)
  <2>1. PICK hash \in Hashes, token \in Tokens :
          /\ \A row \in Seen(i) \cup Used(i) : row[2] # token
          /\ Seen(i)' = Seen(i) \cup {<<hash, token>>} /\ Held(i)'.token = token
    BY <1>7 DEF Gains
  <2>2. <<hash, token>> \in live' /\ <<hash, token>>[2] = Held(i)'.token
    BY <1>3, <2>1
  <2>3. live' \cap spent = live \cap spent
    BY <1>3, <2>1, <2>2
  <2> QED BY <1>1, <1>2, <1>4, <1>7, <2>2, <2>3 DEF Gains
<1> QED BY <1>4, <1>5, <1>6, <1>7

---------------------------------------------------------------------------
LEMMA HeldNow ==
  ASSUME NEW i \in Ids, NEW s, Hold(i, s)
  PROVE  Held(i)' = s /\ \A j \in Ids \ {i} : Held(j)' = Held(j)
BY DEF Hold, Held, Ids

\* A call that goes on.
LEMMA MoveKeepsCopies ==
  ASSUME CopiesInv, NEW i \in Ids, NEW stage \in Stages \ {"idle"},
         at' = [at EXCEPT ![i] = stage], Coherent(Held(i)'),
         \A j \in Ids \ {i} : Held(j)' = Held(j) /\ claim'[j] = claim[j],
         session' = session, live' \subseteq Rows, spent' \subseteq Rows,
         claim' \in [Ids -> SUBSET Rows], stage = "loaded" => claim'[i] = {}
  PROVE  CopiesInv'
<1>1. TypeOK' /\ Coherent(session)' /\ at' \in [Ids -> Stages]
  BY DEF CopiesInv, TypeOK, Coherent, OpenIn, Grounded
<1>2. \A j \in Ids : at'[j] \in {"idle", "loaded"} => claim'[j] = {}
  BY DEF CopiesInv
<1>3. \A j \in Ids : IF at'[j] = "idle" THEN Held(j)' = None ELSE Coherent(Held(j)')
  BY DEF CopiesInv
<1> QED BY <1>1, <1>2, <1>3 DEF CopiesInv, Coherent, OpenIn, Grounded

\* Calls that end.
LEMMA EndedCalls ==
  ASSUME NEW calls \in SUBSET Ids, End(calls), NEW j \in Ids
  PROVE  /\ at'[j] = IF j \in calls THEN "idle" ELSE at[j]
         /\ claim'[j] = IF j \in calls THEN {} ELSE claim[j]
         /\ Held(j)' = IF j \in calls THEN None ELSE Held(j)
BY DEF End, Held, Ids

\* What they commit, and the session they leave: theirs is stored together with
\* the consumption of the row they hold.
LEMMA Endings ==
  ASSUME (\E i \in Ids : Store(i) \/ Abandon(i)) \/ Crash, forgotten \in Nat
  PROVE  \E calls \in SUBSET Ids, rows \in SUBSET (claim[1] \cup claim[2]) :
           /\ End(calls) /\ Commit(rows)
           /\ UNCHANGED <<executed, deployment>> /\ forgotten' \in Nat
           /\ \/ session' = session
              \/ \E i \in Ids : /\ at[i] = "ready" /\ Pending(i) \subseteq rows
                              /\ session' = Held(i)
<1>1. ASSUME NEW i \in Ids, Store(i)
      PROVE  \E calls \in SUBSET Ids, rows \in SUBSET (claim[1] \cup claim[2]) :
               /\ End(calls) /\ Commit(rows)
               /\ UNCHANGED <<executed, deployment>> /\ forgotten' \in Nat
               /\ at[i] = "ready" /\ Pending(i) \subseteq rows /\ session' = Held(i)
  <2> DEFINE rows == UNION {Pending(j) : j \in OnConnection(i)}
  <2>1. /\ End({i}) /\ Commit(rows) /\ UNCHANGED <<executed, deployment, forgotten>>
        /\ at[i] = "ready" /\ session' = Held(i) /\ {i} \in SUBSET Ids
    BY <1>1 DEF Store, Save, world
  <2>2. rows \in SUBSET (claim[1] \cup claim[2]) /\ Pending(i) \subseteq rows
    BY DEF Pending, OnConnection, Ids
  <2> HIDE DEF rows
  <2> QED BY <2>1, <2>2
<1>2. ASSUME NEW calls \in SUBSET Ids, Die(calls)
      PROVE  \E rows \in SUBSET (claim[1] \cup claim[2]) :
               /\ End(calls) /\ Commit(rows)
               /\ UNCHANGED <<executed, deployment>> /\ forgotten' \in Nat
               /\ session' = session
  <2>1. Cardinality(Unsettled(calls)) \in Nat
    BY IdsAreFinite DEF Unsettled
  <2>2. /\ End(calls) /\ Commit({}) /\ UNCHANGED <<executed, deployment>>
        /\ forgotten' \in Nat /\ session' = session
    BY <1>2, <2>1 DEF Die, Commit, vars
  <2> QED BY <2>2
<1>3. ASSUME NEW i \in Ids, Abandon(i)
      PROVE  Die({i}) /\ {i} \in SUBSET Ids
  BY <1>3 DEF Abandon
<1>4. Crash => Die(Ids) /\ Ids \in SUBSET Ids
  BY DEF Crash
<1> QED BY <1>1, <1>2, <1>3, <1>4

LEMMA EndKeepsCopies ==
  ASSUME CopiesInv, NEW calls \in SUBSET Ids, End(calls), Coherent(session'),
         live' \subseteq Rows, spent' \subseteq Rows
  PROVE  CopiesInv'
<1>1. TypeOK'
  BY DEF TypeOK, Coherent
<1>2. ASSUME NEW j \in Ids
      PROVE  /\ at'[j] = IF j \in calls THEN "idle" ELSE at[j]
             /\ claim'[j] = IF j \in calls THEN {} ELSE claim[j]
             /\ Held(j)' = IF j \in calls THEN None ELSE Held(j)
  BY EndedCalls
<1>3. at' \in [Ids -> Stages] /\ claim' \in [Ids -> SUBSET Rows]
  BY <1>2 DEF End, CopiesInv, Stages
<1>4. ASSUME NEW j \in Ids
      PROVE  at'[j] \in {"idle", "loaded"} => claim'[j] = {}
  BY <1>2 DEF CopiesInv
<1>5. ASSUME NEW j \in Ids
      PROVE  IF at'[j] = "idle" THEN Held(j)' = None ELSE Coherent(Held(j)')
  BY <1>2 DEF CopiesInv
<1> QED BY <1>1, <1>3, <1>4, <1>5 DEF CopiesInv, Coherent, OpenIn, Grounded

\* A call whose update is made, or committed.
MarksOrCommits(i) == Mark(i) \/ SharedCommit(i)

LEMMA MarkMoves ==
  ASSUME at \in [Ids -> Stages], NEW i \in Ids, MarksOrCommits(i)
  PROVE  /\ at[i] \in {"claimed", "ready"} /\ at' = [at EXCEPT ![i] = "ready"]
         /\ session' = session /\ claim' = claim /\ forgotten' = forgotten
         /\ deployment' = deployment
         /\ \A j \in Ids : Held(j)' = Held(j)
         /\ \E rows \in SUBSET claim[i] : live' = live \ rows /\ spent' = spent \cup rows
<1>1. CASE Mark(i)
  <2>1. /\ at[i] = "claimed" /\ at' = [at EXCEPT ![i] = "ready"]
        /\ session' = session /\ claim' = claim /\ forgotten' = forgotten
        /\ deployment' = deployment /\ \A j \in Ids : Held(j)' = Held(j)
    BY <1>1 DEF Mark, Reach, Held
  <2>2. \E rows \in SUBSET claim[i] : live' = live \ rows /\ spent' = spent \cup rows
    <3>1. \/ live' = live \ claim[i] /\ spent' = spent \cup claim[i]
          \/ live' = live \ {} /\ spent' = spent \cup {}
      BY <1>1 DEF Mark, Commit, ledger
    <3>2. claim[i] \in SUBSET claim[i] /\ {} \in SUBSET claim[i]
      OBVIOUS
    <3> QED BY <3>1, <3>2
  <2> QED BY <2>1, <2>2
<1>2. CASE SharedCommit(i)
  <2>1. /\ at[i] = "ready" /\ at' = at /\ Pending(i) \in SUBSET claim[i]
        /\ session' = session /\ claim' = claim /\ forgotten' = forgotten
        /\ deployment' = deployment /\ \A j \in Ids : Held(j)' = Held(j)
        /\ live' = live \ Pending(i) /\ spent' = spent \cup Pending(i)
    BY <1>2 DEF SharedCommit, Commit, Pending, Held, world
  <2>2. at' = [at EXCEPT ![i] = "ready"]
    BY <2>1
  <2> QED BY <2>1, <2>2
<1> QED BY <1>1, <1>2 DEF MarksOrCommits

LEMMA CallsKeepCopies ==
  ASSUME CopiesInv, forgotten \in Nat, [CallsNext]_callVars
  PROVE  CopiesInv'
<1>1. CASE UNCHANGED callVars
  BY <1>1 DEF callVars, vars, CopiesInv, TypeOK, Coherent, OpenIn, Grounded, Held
<1>2. ASSUME NEW i \in Ids, Load(i)
      PROVE  CopiesInv'
  <2>1. /\ at' = [at EXCEPT ![i] = "loaded"] /\ at[i] = "idle" /\ Hold(i, session)
        /\ session' = session /\ live' = live /\ spent' = spent /\ claim' = claim
    BY <1>2 DEF Load, Reach, vars
  <2>2. Held(i)' = session /\ \A j \in Ids \ {i} : Held(j)' = Held(j)
    BY <2>1, HeldNow
  <2>3. /\ Coherent(session) /\ live \subseteq Rows /\ spent \subseteq Rows
        /\ claim[i] = {} /\ claim \in [Ids -> SUBSET Rows]
    BY <2>1 DEF CopiesInv, TypeOK
  <2> QED BY <2>1, <2>2, <2>3, MoveKeepsCopies DEF Stages
<1>3. ASSUME NEW i \in Ids, WorkStep(i) \/ WorkRequest(i)
      PROVE  CopiesInv'
  <2>1. /\ at' = [at EXCEPT ![i] = "ready"]
        /\ Step(i) \/ Request(i)
        /\ session' = session /\ spent' = spent /\ claim' = claim
    BY <1>3 DEF WorkStep, WorkRequest, Reach, vars
  <2>2. Coherent(Held(i)') /\ live' \subseteq Rows
    BY <1>3, WorkKeeps, RequestKeeps DEF WorkStep, vars, CopiesInv, TypeOK
  <2>3. \A j \in Ids \ {i} : Held(j)' = Held(j)
    BY <2>1, OtherCopyStands
  <2>4. spent' \subseteq Rows /\ claim' \in [Ids -> SUBSET Rows]
    BY <2>1 DEF CopiesInv, TypeOK
  <2>5. /\ at' = [at EXCEPT ![i] = "ready"] /\ session' = session
        /\ \A j \in Ids \ {i} : Held(j)' = Held(j) /\ claim'[j] = claim[j]
    BY <2>1, <2>3
  <2> QED BY <2>2, <2>4, <2>5, MoveKeepsCopies DEF Stages
<1>4. ASSUME NEW i \in Ids, ClaimStep(i)
      PROVE  CopiesInv'
  <2>1. /\ at' = [at EXCEPT ![i] = "claimed"] /\ Step(i)
        /\ session' = session /\ live' = live /\ spent' = spent
    BY <1>4 DEF ClaimStep, Reach, vars
  <2>2. PICK row \in live : claim' = [claim EXCEPT ![i] = {row}]
    BY <1>4 DEF ClaimStep
  <2>3. live \subseteq Rows /\ spent \subseteq Rows /\ claim \in [Ids -> SUBSET Rows]
    BY DEF CopiesInv, TypeOK
  <2>4. \A j \in Ids \ {i} : Held(j)' = Held(j)
    BY <2>1, OtherCopyStands
  <2>5. /\ claim' \in [Ids -> SUBSET Rows]
        /\ \A j \in Ids \ {i} : claim'[j] = claim[j]
    BY <2>2, <2>3
  <2>6. Coherent(Held(i)')
    BY <1>4, ClaimUses
  <2> QED BY <2>1, <2>3, <2>4, <2>5, <2>6, MoveKeepsCopies DEF Stages
<1>5. ASSUME NEW i \in Ids, MarksOrCommits(i)
      PROVE  CopiesInv'
  <2>1. /\ at' = [at EXCEPT ![i] = "ready"] /\ at[i] \in {"claimed", "ready"}
        /\ session' = session /\ claim' = claim
        /\ \A j \in Ids : Held(j)' = Held(j)
        /\ \E rows \in SUBSET claim[i] : live' = live \ rows /\ spent' = spent \cup rows
    BY <1>5, MarkMoves DEF CopiesInv
  <2>2. /\ Coherent(Held(i)) /\ live \subseteq Rows /\ spent \subseteq Rows
        /\ claim \in [Ids -> SUBSET Rows]
    BY <2>1 DEF CopiesInv, TypeOK
  <2>3. live' \subseteq Rows /\ spent' \subseteq Rows
    BY <2>1, <2>2
  <2> QED BY <2>1, <2>2, <2>3, MoveKeepsCopies DEF Stages
<1>6. ASSUME NEW i \in Ids, Store(i) \/ Abandon(i) \/ Crash, forgotten \in Nat
      PROVE  CopiesInv'
  <2>1. PICK calls \in SUBSET Ids, rows \in SUBSET (claim[1] \cup claim[2]) :
          /\ End(calls) /\ Commit(rows)
          /\ \/ session' = session
             \/ \E k \in Ids : at[k] = "ready" /\ session' = Held(k)
    BY <1>6, Endings
  <2>2. Coherent(session')
    BY <2>1 DEF CopiesInv
  <2>3. live' \subseteq Rows /\ spent' \subseteq Rows
    BY <2>1 DEF Commit, CopiesInv, TypeOK, Ids
  <2> QED BY <2>1, <2>2, <2>3, EndKeepsCopies
<1>7. Ids # {}
  BY DEF Ids
<1> QED BY <1>1, <1>2, <1>3, <1>4, <1>5, <1>6, <1>7 DEF CallsNext, MarksOrCommits

\* What the session on record counts was carried out.
LEMMA CallsKeepExecuted ==
  ASSUME CopiesInv, ExecutedInv, [CallsNext]_callVars
  PROVE  ExecutedInv'
<1>0. /\ session.taken \in Nat
      /\ \A i \in Ids : at[i] # "idle" => Held(i).taken \in Nat
      /\ at \in [Ids -> Stages] /\ executed \in Nat
  BY DEF CopiesInv, Coherent, Session, ExecutedInv
<1>1. CASE UNCHANGED callVars
  BY <1>1 DEF callVars, vars, Held, Owed, world, ExecutedInv
<1>2. ASSUME NEW i \in Ids, Load(i)
      PROVE  ExecutedInv'
  <2>1. /\ at' = [at EXCEPT ![i] = "loaded"] /\ Hold(i, session)
        /\ session' = session /\ UNCHANGED <<executed, forgotten, deployment>>
    BY <1>2 DEF Load, Reach, vars, world
  <2> QED BY <1>0, <2>1, HeldNow DEF Owed, ExecutedInv
<1>3. ASSUME NEW i \in Ids, WorkStep(i) \/ WorkRequest(i)
      PROVE  ExecutedInv'
  <2>1. /\ at' = [at EXCEPT ![i] = "ready"] /\ at[i] = "loaded"
        /\ Step(i) \/ Request(i)
        /\ session' = session /\ UNCHANGED <<executed, forgotten, deployment>>
    BY <1>3 DEF WorkStep, WorkRequest, Reach, vars, world
  <2>2. Held(i)'.taken = Held(i).taken
    BY <1>3, WorkKeeps, RequestKeeps DEF Keeps
  <2>3. \A j \in Ids \ {i} : Held(j)' = Held(j)
    BY <2>1, OtherCopyStands
  <2> QED BY <1>0, <2>1, <2>2, <2>3 DEF Owed, ExecutedInv
<1>4. ASSUME NEW i \in Ids, ClaimStep(i)
      PROVE  ExecutedInv'
  <2>1. /\ at' = [at EXCEPT ![i] = "claimed"] /\ at[i] = "loaded" /\ Step(i)
        /\ session' = session /\ UNCHANGED <<executed, forgotten, deployment>>
    BY <1>4 DEF ClaimStep, Reach, vars, world
  <2>2. Held(i)'.taken = Held(i).taken + 1
    BY <1>4, ClaimUses DEF Uses
  <2>3. \A j \in Ids \ {i} : Held(j)' = Held(j)
    BY <2>1, OtherCopyStands
  <2> QED BY <1>0, <2>1, <2>2, <2>3 DEF Owed, ExecutedInv
<1>5. ASSUME NEW i \in Ids, MarksOrCommits(i)
      PROVE  ExecutedInv'
  <2>1. /\ at' = [at EXCEPT ![i] = "ready"] /\ at[i] \in {"claimed", "ready"}
        /\ session' = session /\ forgotten' = forgotten /\ deployment' = deployment
        /\ \A j \in Ids : Held(j)' = Held(j)
    BY <1>0, <1>5, MarkMoves
  <2>2. IF at[i] = "claimed" THEN executed' = executed + 1 ELSE executed' = executed
    BY <1>5 DEF MarksOrCommits, Mark, SharedCommit, Pending, world
  <2> QED BY <1>0, <2>1, <2>2 DEF Owed, ExecutedInv
<1>6. ASSUME NEW i \in Ids, Store(i) \/ Abandon(i) \/ Crash
      PROVE  ExecutedInv'
  <2>1. PICK calls \in SUBSET Ids :
          /\ End(calls) /\ UNCHANGED <<executed, deployment>> /\ forgotten' \in Nat
          /\ \/ session' = session
             \/ \E k \in Ids : at[k] = "ready" /\ session' = Held(k)
    BY <1>6, Endings DEF ExecutedInv
  <2>2. session'.taken <= executed
    BY <1>0, <2>1 DEF ExecutedInv, Owed
  <2>3. ASSUME NEW j \in Ids, at'[j] # "idle"
        PROVE  Held(j)'.taken <= executed' + Owed(j)'
    <3>1. at'[j] = at[j] /\ Held(j)' = Held(j)
      BY <2>1, <2>3, EndedCalls
    <3> QED BY <1>0, <2>1, <2>3, <3>1 DEF Owed, ExecutedInv
  <2> QED BY <2>1, <2>2, <2>3 DEF ExecutedInv
<1>7. Ids # {}
  BY DEF Ids
<1> QED BY <1>1, <1>2, <1>3, <1>4, <1>5, <1>6, <1>7 DEF CallsNext, MarksOrCommits

---------------------------------------------------------------------------
\* Rows are never lost, so a token that was issued stays so.
LEMMA RowsStay ==
  ASSUME CopiesInv, forgotten \in Nat, [CallsNext]_callVars
  PROVE  live \cup spent \subseteq live' \cup spent' /\ spent \subseteq spent'
<1>1. ASSUME NEW i \in Ids, WorkRequest(i)
      PROVE  live \cup spent \subseteq live' \cup spent' /\ spent \subseteq spent'
  BY <1>1, RequestKeeps
<1>2. ASSUME NEW rows, live' = live \ rows /\ spent' = spent \cup rows
      PROVE  live \cup spent \subseteq live' \cup spent' /\ spent \subseteq spent'
  BY <1>2
<1>3. ASSUME NEW i \in Ids, MarksOrCommits(i)
      PROVE  live \cup spent \subseteq live' \cup spent' /\ spent \subseteq spent'
  BY <1>2, <1>3, MarkMoves DEF CopiesInv
<1>4. ASSUME NEW i \in Ids, Store(i) \/ Abandon(i) \/ Crash
      PROVE  live \cup spent \subseteq live' \cup spent' /\ spent \subseteq spent'
  BY <1>2, <1>4, Endings DEF Commit
<1>5. ASSUME NEW i \in Ids, Load(i) \/ WorkStep(i) \/ ClaimStep(i)
      PROVE  live' = live /\ spent' = spent
  BY <1>5 DEF Load, WorkStep, ClaimStep, vars
<1>6. Ids # {}
  BY DEF Ids
<1> QED BY <1>1, <1>3, <1>4, <1>5, <1>6 DEF CallsNext, MarksOrCommits, callVars, vars

\* What the session on record holds was issued.
LEMMA CallsKeepIssued ==
  ASSUME CopiesInv, IssuedInv, forgotten \in Nat, [CallsNext]_callVars
  PROVE  IssuedInv'
<1> DEFINE Good(token) == token # None =>
                            \E row \in live' \cup spent' : row[2] = token
<1>1. \A token : Issued(token) => Good(token)
  BY RowsStay DEF Issued
<1>2. Good(session.token) /\ \A i \in Ids : at[i] # "idle" => Good(Held(i).token)
  BY <1>1 DEF IssuedInv
<1>3. Good(None)
  OBVIOUS
<1>4. at \in [Ids -> Stages]
  BY DEF CopiesInv
<1> SUFFICES /\ Good(session'.token)
             /\ \A i \in Ids : at'[i] # "idle" => Good(Held(i)'.token)
  BY DEF IssuedInv, Issued
<1>5. CASE UNCHANGED callVars
  BY <1>2, <1>5 DEF callVars, vars, Held
<1>6. ASSUME NEW i \in Ids, Load(i)
      PROVE  /\ Good(session'.token)
             /\ \A j \in Ids : at'[j] # "idle" => Good(Held(j)'.token)
  <2>1. /\ at' = [at EXCEPT ![i] = "loaded"] /\ Hold(i, session)
        /\ session' = session
    BY <1>6 DEF Load, Reach, vars
  <2> HIDE DEF Good
  <2> QED BY <1>2, <1>4, <2>1, HeldNow
<1>7. ASSUME NEW i \in Ids, WorkStep(i) \/ WorkRequest(i) \/ ClaimStep(i)
      PROVE  /\ Good(session'.token)
             /\ \A j \in Ids : at'[j] # "idle" => Good(Held(j)'.token)
  <2>1. /\ Step(i) \/ Request(i)
        /\ at[i] = "loaded" /\ session' = session
        /\ \E stage \in Stages : at' = [at EXCEPT ![i] = stage]
    BY <1>7 DEF WorkStep, WorkRequest, ClaimStep, Reach, vars, Stages
  <2>2. \A j \in Ids \ {i} : Held(j)' = Held(j)
    BY <2>1, OtherCopyStands
  <2>3. \/ Held(i)'.token \in {Held(i).token, None}
        \/ \E row \in live' : row[2] = Held(i)'.token
    BY <1>7, WorkKeeps, RequestKeeps, ClaimUses DEF Keeps, Uses
  <2>4. Good(Held(i)'.token)
    <3>1. (\E row \in live' : row[2] = Held(i)'.token) => Good(Held(i)'.token)
      OBVIOUS
    <3> HIDE DEF Good
    <3> QED BY <1>2, <1>3, <2>1, <2>3, <3>1
  <2> HIDE DEF Good
  <2> QED BY <1>2, <1>4, <2>1, <2>2, <2>4
<1>8. ASSUME NEW i \in Ids, MarksOrCommits(i)
      PROVE  /\ Good(session'.token)
             /\ \A j \in Ids : at'[j] # "idle" => Good(Held(j)'.token)
  <2>1. /\ at' = [at EXCEPT ![i] = "ready"] /\ at[i] \in {"claimed", "ready"}
        /\ session' = session /\ \A j \in Ids : Held(j)' = Held(j)
    BY <1>4, <1>8, MarkMoves
  <2> HIDE DEF Good
  <2> QED BY <1>2, <1>4, <2>1
<1>9. ASSUME NEW i \in Ids, Store(i) \/ Abandon(i) \/ Crash
      PROVE  /\ Good(session'.token)
             /\ \A j \in Ids : at'[j] # "idle" => Good(Held(j)'.token)
  <2> HIDE DEF Good
  <2>1. PICK calls \in SUBSET Ids :
          /\ End(calls)
          /\ \/ session' = session
             \/ \E k \in Ids : at[k] = "ready" /\ session' = Held(k)
    BY <1>9, Endings
  <2>2. ASSUME NEW j \in Ids, at'[j] # "idle"
        PROVE  Good(Held(j)'.token)
    <3>1. at'[j] = at[j] /\ Held(j)' = Held(j)
      BY <2>1, <2>2, EndedCalls
    <3> QED BY <1>2, <2>2, <3>1
  <2> QED BY <1>2, <2>1, <2>2
<1>10. Ids # {}
  BY DEF Ids
<1> QED BY <1>5, <1>6, <1>7, <1>8, <1>9, <1>10 DEF CallsNext, MarksOrCommits

---------------------------------------------------------------------------
\* Every row a copy counts on is consumed by the time the copy is stored.
LEMMA CallsKeepBacked ==
  ASSUME CopiesInv, BackedInv, forgotten \in Nat, [CallsNext]_callVars
  PROVE  BackedInv'
<1>1. /\ at \in [Ids -> Stages] /\ claim \in [Ids -> SUBSET Rows]
      /\ \A j \in Ids : at[j] \in {"idle", "loaded"} => claim[j] = {}
      /\ session.taken \in Nat
      /\ \A j \in Ids : at[j] # "idle" => Held(j).taken \in Nat
  BY DEF CopiesInv, Coherent, Session
<1>2. /\ live \cup spent \subseteq live' \cup spent' /\ spent \subseteq spent'
  BY RowsStay
<1>3. \A j \in Ids : IsFiniteSet(Used(j))
  BY FS_Union DEF BackedInv, Used
<1>4. CASE UNCHANGED callVars
  BY <1>4 DEF callVars, vars, Held, Used, BackedInv
<1>5. ASSUME NEW i \in Ids, Load(i)
      PROVE  BackedInv'
  <2>1. /\ at' = [at EXCEPT ![i] = "loaded"] /\ at[i] = "idle"
        /\ session' = session /\ live' = live /\ spent' = spent /\ claim' = claim
        /\ Held(i)' = session /\ \A j \in Ids \ {i} : Held(j)' = Held(j)
    BY <1>5, HeldNow DEF Load, Reach, vars
  <2>2. Used(i)' = spent /\ \A j \in Ids \ {i} : Used(j)' = Used(j)
    BY <1>1, <2>1 DEF Used
  <2>3. \A j \in Ids : at'[j] # "idle" => Held(j)'.taken <= Cardinality(Used(j)')
    BY <1>1, <2>1, <2>2 DEF BackedInv
  <2> QED BY <2>1, <2>3 DEF BackedInv, Used
<1>6. ASSUME NEW i \in Ids, WorkStep(i) \/ WorkRequest(i)
      PROVE  BackedInv'
  <2>1. /\ at' = [at EXCEPT ![i] = "ready"] /\ at[i] = "loaded"
        /\ Step(i) \/ Request(i)
        /\ session' = session /\ spent' = spent /\ claim' = claim
    BY <1>6 DEF WorkStep, WorkRequest, Reach, vars
  <2>2. /\ Held(i)'.taken = Held(i).taken /\ live' \cap spent = live \cap spent
        /\ live \subseteq live'
    BY <1>6, WorkKeeps, RequestKeeps DEF Keeps, WorkStep, vars
  <2>3. \A j \in Ids \ {i} : Held(j)' = Held(j)
    BY <2>1, OtherCopyStands
  <2>4. \A j \in Ids : Used(j)' = Used(j)
    BY <2>1 DEF Used
  <2>5. \A j \in Ids : at'[j] # "idle" => Held(j)'.taken <= Cardinality(Used(j)')
    BY <1>1, <2>1, <2>2, <2>3, <2>4 DEF BackedInv
  <2> QED BY <2>1, <2>2, <2>5 DEF BackedInv, Used
<1>7. ASSUME NEW i \in Ids, ClaimStep(i)
      PROVE  BackedInv'
  <2>1. /\ at' = [at EXCEPT ![i] = "claimed"] /\ at[i] = "loaded" /\ Step(i)
        /\ session' = session /\ live' = live /\ spent' = spent
    BY <1>7 DEF ClaimStep, Reach, vars
  <2>2. PICK row \in live : claim' = [claim EXCEPT ![i] = {row}]
    BY <1>7 DEF ClaimStep
  <2>3. /\ claim'[i] = {} \cup {row} /\ \A j \in Ids \ {i} : claim'[j] = claim[j]
        /\ IsFiniteSet(claim'[i])
    BY <1>1, <2>2, FS_EmptySet, FS_AddElement
  <2>4. \A j \in Ids \ {i} : Held(j)' = Held(j)
    BY <2>1, OtherCopyStands
  <2>5. Held(i)'.taken = Held(i).taken + 1
    BY <1>7, ClaimUses DEF Uses
  <2>6. /\ Used(i) = spent /\ Used(i)' = spent \cup {row} /\ row \notin spent
        /\ \A j \in Ids \ {i} : Used(j)' = Used(j)
    BY <1>1, <2>1, <2>2, <2>3 DEF Used, BackedInv
  <2>7. /\ Cardinality(spent \cup {row}) = Cardinality(spent) + 1
        /\ Cardinality(spent) \in Nat
    BY <2>6, FS_AddElement, FS_CardinalityType DEF BackedInv
  <2>8. Held(i)'.taken <= Cardinality(Used(i)')
    BY <1>1, <2>1, <2>5, <2>6, <2>7 DEF BackedInv
  <2>9. \A j \in Ids : at'[j] # "idle" => Held(j)'.taken <= Cardinality(Used(j)')
    BY <1>1, <2>1, <2>4, <2>6, <2>8 DEF BackedInv
  <2> QED BY <2>1, <2>2, <2>3, <2>9 DEF BackedInv, Used
<1>8. ASSUME NEW i \in Ids, MarksOrCommits(i)
      PROVE  BackedInv'
  <2>1. /\ at' = [at EXCEPT ![i] = "ready"] /\ at[i] \in {"claimed", "ready"}
        /\ session' = session /\ claim' = claim
        /\ \A j \in Ids : Held(j)' = Held(j)
    BY <1>1, <1>8, MarkMoves
  <2>2. PICK rows \in SUBSET claim[i] : live' = live \ rows /\ spent' = spent \cup rows
    BY <1>1, <1>8, MarkMoves
  <2>3. IsFiniteSet(rows)
    BY <2>2, FS_Subset DEF BackedInv
  <2>4. IsFiniteSet(spent') /\ live' \cap spent' = {}
    BY <2>2, <2>3, FS_Union DEF BackedInv
  <2>5. ASSUME NEW j \in Ids, at[j] # "idle"
        PROVE  Held(j)'.taken <= Cardinality(Used(j)')
    <3>1. Used(j) \subseteq Used(j)' /\ IsFiniteSet(Used(j)')
      BY <2>1, <2>2, <2>4, FS_Union DEF Used, BackedInv
    <3>2. /\ Cardinality(Used(j)) <= Cardinality(Used(j)')
          /\ Cardinality(Used(j)) \in Nat /\ Cardinality(Used(j)') \in Nat
      BY <1>3, <3>1, FS_Subset, FS_CardinalityType
    <3> QED BY <1>1, <2>1, <2>5, <3>2 DEF BackedInv
  <2>6. session'.taken <= Cardinality(spent')
    BY <1>1, <1>2, <2>1, <2>4, FS_Subset, FS_CardinalityType DEF BackedInv
  <2>7. \A j \in Ids : at'[j] # "idle" => at[j] # "idle"
    BY <1>1, <2>1
  <2>8. \A j \in Ids : claim'[j] \subseteq live' \cup spent' /\ IsFiniteSet(claim'[j])
    BY <1>2, <2>1 DEF BackedInv
  <2> QED BY <2>4, <2>5, <2>6, <2>7, <2>8 DEF BackedInv
<1>9. ASSUME NEW i \in Ids, Store(i) \/ Abandon(i) \/ Crash
      PROVE  BackedInv'
  <2>1. PICK calls \in SUBSET Ids, rows \in SUBSET (claim[1] \cup claim[2]) :
          /\ End(calls) /\ Commit(rows)
          /\ \/ session' = session
             \/ \E k \in Ids : /\ at[k] = "ready" /\ Pending(k) \subseteq rows
                             /\ session' = Held(k)
    BY <1>9, Endings
  <2>2. live' = live \ rows /\ spent' = spent \cup rows
    BY <2>1 DEF Commit
  <2>3. IsFiniteSet(rows)
    BY FS_Union, FS_Subset DEF BackedInv, Ids
  <2>4. IsFiniteSet(spent') /\ live' \cap spent' = {}
    BY <2>2, <2>3, FS_Union DEF BackedInv
  <2>5. ASSUME NEW j \in Ids, at'[j] # "idle"
        PROVE  Held(j)'.taken <= Cardinality(Used(j)')
    <3>1. at'[j] = at[j] /\ Held(j)' = Held(j) /\ claim'[j] = claim[j]
      BY <2>1, <2>5, EndedCalls
    <3>2. Used(j) \subseteq Used(j)' /\ IsFiniteSet(Used(j)')
      BY <2>2, <2>4, <3>1, FS_Union DEF Used, BackedInv
    <3>3. /\ Cardinality(Used(j)) <= Cardinality(Used(j)')
          /\ Cardinality(Used(j)) \in Nat /\ Cardinality(Used(j)') \in Nat
      BY <1>3, <3>2, FS_Subset, FS_CardinalityType
    <3> QED BY <1>1, <2>5, <3>1, <3>3 DEF BackedInv
  <2>6. ASSUME session' = session
        PROVE  session'.taken <= Cardinality(spent')
    <3>1. /\ Cardinality(spent) <= Cardinality(spent')
          /\ Cardinality(spent) \in Nat /\ Cardinality(spent') \in Nat
      BY <1>2, <2>4, FS_Subset, FS_CardinalityType DEF BackedInv
    <3> QED BY <1>1, <2>6, <3>1 DEF BackedInv
  <2>7. ASSUME NEW k \in Ids, at[k] = "ready", Pending(k) \subseteq rows,
               session' = Held(k)
        PROVE  session'.taken <= Cardinality(spent')
    <3>1. Used(k) \subseteq spent'
      BY <2>2, <2>7 DEF Pending, Used, BackedInv
    <3>2. /\ Cardinality(Used(k)) <= Cardinality(spent')
          /\ Cardinality(Used(k)) \in Nat /\ Cardinality(spent') \in Nat
      BY <1>3, <2>4, <3>1, FS_Subset, FS_CardinalityType
    <3> QED BY <1>1, <2>7, <3>2 DEF BackedInv
  <2>8. \A j \in Ids : claim'[j] \subseteq live' \cup spent' /\ IsFiniteSet(claim'[j])
    <3>1. \A j \in Ids : claim'[j] \in {{}, claim[j]}
      BY <2>1, EndedCalls
    <3> QED BY <1>2, <3>1, FS_EmptySet DEF BackedInv
  <2>9. session'.taken <= Cardinality(spent')
    BY <2>1, <2>6, <2>7
  <2> QED BY <2>4, <2>5, <2>8, <2>9 DEF BackedInv
<1>10. Ids # {}
  BY DEF Ids
<1> QED BY <1>4, <1>5, <1>6, <1>7, <1>8, <1>9, <1>10 DEF CallsNext, MarksOrCommits

---------------------------------------------------------------------------
CallsInv == CopiesInv /\ ExecutedInv /\ IssuedInv /\ BackedInv

LEMMA CallsInvInit ==
  ASSUME CallsInit
  PROVE  CallsInv
<1>1. PICK budget \in Budgets, scenario \in Scenarios \cup {None} :
        session = NewSession(budget, scenario)
  BY DEF CallsInit, Init
<1>2. Coherent(session) /\ session.taken = 0 /\ session.token = None
  BY <1>1, NewSessionCoherent DEF NewSession
<1>3. /\ live = {} /\ spent = {} /\ executed = 0 /\ forgotten = 0
      /\ deployment \in Deployments
      /\ at = [i \in Ids |-> "idle"] /\ claim = [i \in Ids |-> {}]
      /\ \A i \in Ids : Held(i) = None
  BY DEF CallsInit, Init, Held
<1>4. CopiesInv
  BY <1>2, <1>3 DEF CopiesInv, TypeOK, Coherent, Stages
<1>5. ExecutedInv /\ IssuedInv
  BY <1>2, <1>3 DEF ExecutedInv, IssuedInv, Issued
<1>6. BackedInv
  BY <1>2, <1>3, FS_EmptySet DEF BackedInv
<1> QED BY <1>4, <1>5, <1>6 DEF CallsInv

LEMMA CallsInvariant == CallsSpec => []CallsInv
<1>1. CallsInv /\ [CallsNext]_callVars => CallsInv'
  BY CallsKeepCopies, CallsKeepExecuted, CallsKeepIssued, CallsKeepBacked
     DEF CallsInv, ExecutedInv
<1> QED BY <1>1, CallsInvInit, PTL DEF CallsSpec

\* Whatever overlaps or dies, every session that is held or stored is well
\* formed.
THEOREM CallsTypeCorrect == CallsSpec => []CallsTypeOK
<1>1. CallsInv => CallsTypeOK
  BY DEF CallsInv, CopiesInv, ExecutedInv, CallsTypeOK, Held, Coherent, Ids
<1> QED BY <1>1, CallsInvariant, PTL

\* The session on record never counts an irreversible action that was not
\* carried out: saves may be lost, or bring back an older count, never invent one.
THEOREM NothingIsRecordedUndone == CallsSpec => []RecordedWasExecuted
<1>1. CallsInv => RecordedWasExecuted
  BY DEF CallsInv, ExecutedInv, RecordedWasExecuted
<1> QED BY <1>1, CallsInvariant, PTL

\* Nor one whose approval is still good: a session is stored no sooner than the
\* consumption of the approvals its actions used, in every deployment.
THEOREM RecordedActionsAreBacked == CallsSpec => []RecordIsBacked
<1>1. CallsInv => RecordIsBacked
  BY DEF CallsInv, BackedInv, RecordIsBacked
<1> QED BY <1>1, CallsInvariant, PTL

\* A token on display can be looked up in the store, although sessions overwrite
\* one another and calls die between the two writes of approve.
THEOREM HeldTokensAreIssued == CallsSpec => []HeldIsIssued
<1>1. CallsInv => HeldIsIssued
  BY DEF CallsInv, IssuedInv, Issued, HeldIsIssued
<1> QED BY <1>1, CallsInvariant, PTL

\* An approval is claimed only for the irreversible candidate the operator chose,
\* and by the token of the session the call works on, whatever is locked.
THEOREM ApprovalsServeTheChosen == CallsSpec => ClaimsWereChosen
<1> DEFINE Chose == \A i \in Ids : claim'[i] \notin {claim[i], {}} =>
                      \E c \in Named(ManualCandidates, Held(i).decideId) :
                        c.irreversible /\ claim'[i] = {<<c.hash, Held(i).token>>}
<1>1. CallsInv /\ [CallsNext]_callVars => [Chose]_callVars
  <2> SUFFICES ASSUME CopiesInv, forgotten \in Nat, CallsNext PROVE Chose
    BY DEF CallsInv, ExecutedInv
  <2>1. claim \in [Ids -> SUBSET Rows]
    BY DEF CopiesInv
  <2>2. ASSUME \A i \in Ids : claim'[i] \in {claim[i], {}}
        PROVE  Chose
    BY <2>2
  <2>3. ASSUME NEW i \in Ids, Load(i) \/ WorkStep(i) \/ WorkRequest(i)
                              \/ Mark(i) \/ SharedCommit(i)
        PROVE  Chose
    <3>1. claim' = claim
      BY <2>3 DEF Load, WorkStep, WorkRequest, Mark, SharedCommit
    <3> QED BY <2>2, <3>1
  <2>4. ASSUME NEW i \in Ids, Store(i) \/ Abandon(i) \/ Crash
        PROVE  Chose
    <3>1. \E calls \in SUBSET Ids : End(calls)
      BY <2>4, Endings
    <3>2. \A j \in Ids : claim'[j] \in {claim[j], {}}
      BY <3>1, EndedCalls
    <3> QED BY <2>2, <3>2
  <2>5. ASSUME NEW i \in Ids, ClaimStep(i)
        PROVE  Chose
    <3>1. /\ live' = live /\ at[i] = "loaded"
      BY <2>5 DEF ClaimStep, vars
    <3>2. PICK row \in live : claim' = [claim EXCEPT ![i] = {row}]
      BY <2>5 DEF ClaimStep
    <3>3. Seen(i) = live /\ Seen(i)' = live \ {row}
      BY <2>1, <3>1, <3>2 DEF Seen, CopiesInv
    <3>4. PICK c \in Named(ManualCandidates, Held(i).decideId) :
            /\ c.irreversible
            /\ Seen(i)' = Seen(i) \ {<<c.hash, Held(i).token>>}
      BY <2>5, ClaimUses DEF Uses
    <3>5. row = <<c.hash, Held(i).token>>
      BY <3>3, <3>4
    <3> QED BY <2>1, <3>2, <3>4, <3>5
  <2>6. Ids # {}
    BY DEF Ids
  <2> QED BY <2>3, <2>4, <2>5, <2>6 DEF CallsNext
<1> QED BY <1>1, CallsInvariant, PTL DEF CallsSpec, ClaimsWereChosen

\* Lost updates never store a request that the stored session has answered.
THEOREM OverlapLeavesRequestsOpen == CallsSpec => []RequestsAreOpen
<1>1. CallsInv => RequestsAreOpen
  BY DEF CallsInv, CopiesInv, Coherent, OpenIn, RequestsAreOpen
<1> QED BY <1>1, CallsInvariant, PTL

\* Nor one in which an orientation has lost what the operator resolved.
THEOREM OverlapKeepsHumanFacts ==
  ASSUME Mode # "stub"
  PROVE  CallsSpec => []HumanFactsPrevail
<1>1. CallsInv => HumanFactsPrevail
  BY DEF CallsInv, CopiesInv, Coherent, Grounded, HumanFactsPrevail
<1> QED BY <1>1, CallsInvariant, PTL
=============================================================================
