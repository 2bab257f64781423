---------------------------- MODULE ServiceProofs ----------------------------
(***************************************************************************)
(* One server under crashes, for every instance of Service.  The first     *)
(* part follows the audit table, which depends only on how many entries a  *)
(* call logs; the second the sessions on record and in memory, and the     *)
(* viewer's queue.                                                         *)
(***************************************************************************)
EXTENDS Service, GuardProofs, SequenceTheorems

\* What _persist has still to insert is the end of the list.
Pending == Range(unwritten)
Tabled == Range(table)

UnwrittenInv ==
  /\ Len(unwritten) <= 3 /\ Len(unwritten) <= logged
  /\ \A i \in 1..Len(unwritten) : unwritten[i] = logged - Len(unwritten) + i

\* What stands in the table.  A crash leaves an entry out for good only once
\* three newer ones are on record; until then the next call inserts it again.
TableInv ==
  /\ Tabled \subseteq 1..logged
  /\ \A k \in 1..logged :
       Pending # {} /\ logged < k + 3 => k \in Tabled \cup Pending
  /\ \A k \in 1..logged, j \in Tabled : k < j /\ k \notin Tabled => k + 3 <= logged

TrailInv == TrailTypeOK /\ logged <= log /\ UnwrittenInv /\ TableInv

\* What the call under way has done to the list of entries.
StageInv ==
  /\ stage \in Stages
  /\ stage \in {"idle", "worked"} => unwritten = <<>>
  /\ stage \in {"idle", "saved"} => log = logged
  /\ log <= logged + 3

AuditInv == TrailInv /\ StageInv /\ OnlyCrashesLose

---------------------------------------------------------------------------
(* Sequences of entries.                                                   *)

LEMMA RangeOfAppend ==
  ASSUME NEW s \in Seq(Nat), NEW k \in Nat
  PROVE  /\ Append(s, k) \in Seq(Nat)
         /\ Range(Append(s, k)) = Range(s) \cup {k}
<1>1. /\ Append(s, k) \in Seq(Nat) /\ Len(Append(s, k)) = Len(s) + 1
      /\ \A i \in 1..Len(s) : Append(s, k)[i] = s[i]
      /\ Append(s, k)[Len(s) + 1] = k
  BY AppendProperties
<1>2. /\ DOMAIN s = 1..Len(s) /\ Len(s) \in Nat
      /\ DOMAIN Append(s, k) = 1..(Len(s) + 1)
  BY <1>1, LenProperties
<1>3. 1..(Len(s) + 1) = 1..Len(s) \cup {Len(s) + 1}
  BY <1>2
<1> QED BY <1>1, <1>2, <1>3 DEF Range

LEMMA RangeOfEmpty == Range(<<>>) = {} /\ <<>> \in Seq(Nat) /\ Len(<<>>) = 0
BY DEF Range

LEMMA LastThreeType ==
  ASSUME NEW n \in Nat
  PROVE  /\ LastThree(n) \in Seq(Nat)
         /\ Len(LastThree(n)) = IF n < 3 THEN n ELSE 3
         /\ \A i \in 1..Len(LastThree(n)) :
              LastThree(n)[i] = n - Len(LastThree(n)) + i
<1>1. CASE n < 3
  <2>1. LastThree(n) = [i \in 1..n |-> i]
    BY <1>1 DEF LastThree, Newest
  <2> QED BY <1>1, <2>1
<1>2. CASE ~(n < 3)
  <2>1. LastThree(n) = [i \in 1..3 |-> n - 3 + i]
    BY <1>2 DEF LastThree, Newest
  <2> QED BY <1>2, <2>1
<1> QED BY <1>1, <1>2

\* The end of a list of n entries, as a set.
LEMMA RangeOfEnd ==
  ASSUME NEW s \in Seq(Nat), NEW n \in Nat, Len(s) <= n,
         \A i \in 1..Len(s) : s[i] = n - Len(s) + i
  PROVE  Range(s) = {k \in 1..n : n - Len(s) < k}
<1>1. DOMAIN s = 1..Len(s) /\ Len(s) \in Nat
  BY LenProperties
<1>2. ASSUME NEW k \in 1..n, n - Len(s) < k
      PROVE  k \in Range(s)
  <2>1. k - (n - Len(s)) \in 1..Len(s) /\ s[k - (n - Len(s))] = k
    BY <1>1, <1>2
  <2> QED BY <1>1, <2>1 DEF Range
<1>3. ASSUME NEW k \in Range(s)
      PROVE  k \in 1..n /\ n - Len(s) < k
  <2>1. PICK i \in 1..Len(s) : k = s[i]
    BY <1>1, <1>3 DEF Range
  <2> QED BY <1>1, <2>1
<1> QED BY <1>2, <1>3

LEMMA PendingIsTheEnd ==
  /\ TrailTypeOK /\ UnwrittenInv
       => Pending = {k \in 1..logged : logged - Len(unwritten) < k}
  /\ TrailTypeOK' /\ UnwrittenInv'
       => Pending' = {k \in 1..logged' : logged' - Len(unwritten') < k}
BY RangeOfEnd DEF TrailTypeOK, UnwrittenInv, Pending

---------------------------------------------------------------------------
(* One step of the service and the table.                                  *)

LEMMA StepLogsFew == StepEntries \subseteq 0..3
BY DEF StepEntries

LEMMA RecordKeeps ==
  ASSUME AuditInv, NEW n \in 0..3, Begin, Record(n)
  PROVE  AuditInv'
<1>1. /\ log' = log + n /\ log = logged
      /\ logged' = logged /\ unwritten' = unwritten /\ unwritten = <<>>
      /\ table' = table /\ gaps' = gaps /\ stage' = "worked"
  BY DEF AuditInv, StageInv, Begin, Record
<1>2. logged \in Nat /\ log' \in Nat /\ logged' <= log' /\ log' <= logged' + 3
  BY <1>1 DEF AuditInv, TrailInv, TrailTypeOK
<1>3. TrailInv'
  BY <1>1, <1>2 DEF AuditInv, TrailInv, TrailTypeOK, UnwrittenInv, TableInv,
                    Tabled, Pending
<1>4. StageInv' /\ OnlyCrashesLose'
  BY <1>1, <1>2 DEF AuditInv, StageInv, Stages, OnlyCrashesLose
<1> QED BY <1>3, <1>4 DEF AuditInv

\* Three entries are enough for the longest call.
LEMMA SaveKeeps ==
  ASSUME AuditInv, SaveSession
  PROVE  AuditInv'
<1>1. /\ logged' = log /\ log' = log /\ unwritten' = LastThree(log)
      /\ unwritten = <<>> /\ table' = table /\ gaps' = gaps
      /\ stage' = IF log = 0 THEN "idle" ELSE "saved"
  BY DEF AuditInv, StageInv, SaveSession, SaveLog
<1>2. /\ logged \in Nat /\ log \in Nat /\ log <= logged + 3 /\ logged <= log
      /\ Pending = {} /\ Tabled' = Tabled
  BY <1>1, RangeOfEmpty DEF AuditInv, TrailInv, TrailTypeOK, StageInv, Pending, Tabled
<1>3. /\ unwritten' \in Seq(Nat)
      /\ Len(unwritten') = IF log < 3 THEN log ELSE 3
      /\ \A i \in 1..Len(unwritten') : unwritten'[i] = log - Len(unwritten') + i
  BY <1>1, <1>2, LastThreeType
<1>4. TrailTypeOK' /\ UnwrittenInv'
  BY <1>1, <1>2, <1>3 DEF AuditInv, TrailInv, TrailTypeOK, UnwrittenInv
<1>5. \A k \in 1..log : log < k + 3 => k \in Pending'
  <2>1. Pending' = {k \in 1..logged' : logged' - Len(unwritten') < k}
    BY <1>4, PendingIsTheEnd
  <2> QED BY <1>1, <1>2, <1>3, <2>1
<1>6. TableInv'
  BY <1>1, <1>2, <1>5 DEF AuditInv, TrailInv, TableInv
<1>7. StageInv'
  <2>1. log = 0 => unwritten' = <<>>
    BY <1>3
  <2> QED BY <1>1, <1>2, <2>1 DEF AuditInv, StageInv, Stages
<1>8. OnlyCrashesLose'
  <2>1. 1..logged \subseteq Tabled \cup gaps
    BY <1>2 DEF AuditInv, OnlyCrashesLose, Tabled, Pending
  <2>2. 1..log \subseteq Tabled' \cup Pending' \cup gaps'
    BY <1>1, <1>2, <1>5, <2>1
  <2> QED BY <1>1, <2>2 DEF OnlyCrashesLose, Tabled, Pending
<1> QED BY <1>1, <1>2, <1>4, <1>6, <1>7, <1>8 DEF AuditInv, TrailInv

\* The next entry is the oldest of those still to insert.
LEMMA AppendTakes ==
  ASSUME AuditInv, AppendAudit
  PROVE  /\ Head(unwritten) \in 1..logged /\ logged < Head(unwritten) + 3
         /\ Head(unwritten) = logged - Len(unwritten) + 1
         /\ logged' = logged /\ log' = log /\ gaps' = gaps
         /\ table' = Append(table, Head(unwritten))
         /\ Tabled' = Tabled \cup {Head(unwritten)}
         /\ TrailTypeOK' /\ UnwrittenInv'
         /\ Pending = Pending' \cup {Head(unwritten)}
<1>1. /\ unwritten # <<>> /\ unwritten' = Tail(unwritten)
      /\ table' = Append(table, Head(unwritten))
      /\ logged' = logged /\ log' = log /\ gaps' = gaps
  BY DEF AppendAudit, AppendNext
<1>2. /\ unwritten \in Seq(Nat) /\ table \in Seq(Nat) /\ logged \in Nat /\ log \in Nat
      /\ UnwrittenInv
  BY DEF AuditInv, TrailInv, TrailTypeOK
<1>3. /\ Tail(unwritten) \in Seq(Nat)
      /\ Len(unwritten) \in Nat /\ Len(unwritten) >= 1
      /\ Len(Tail(unwritten)) = Len(unwritten) - 1
      /\ \A i \in 1..Len(Tail(unwritten)) : Tail(unwritten)[i] = unwritten[i + 1]
      /\ Head(unwritten) = unwritten[1]
  BY <1>1, <1>2, HeadTailProperties, LenProperties, EmptySeq
<1>4. /\ Head(unwritten) = logged - Len(unwritten) + 1
      /\ Head(unwritten) \in 1..logged /\ logged < Head(unwritten) + 3
  BY <1>2, <1>3 DEF UnwrittenInv
<1>5. table' \in Seq(Nat) /\ Tabled' = Tabled \cup {Head(unwritten)}
  BY <1>1, <1>2, <1>4, RangeOfAppend DEF Tabled
<1>6. TrailTypeOK' /\ UnwrittenInv'
  <2>1. TrailTypeOK'
    BY <1>1, <1>2, <1>3, <1>5 DEF AuditInv, TrailInv, TrailTypeOK
  <2>2. Len(unwritten') <= 3 /\ Len(unwritten') <= logged'
    BY <1>1, <1>2, <1>3 DEF UnwrittenInv
  <2>3. \A i \in 1..Len(unwritten') : unwritten'[i] = logged' - Len(unwritten') + i
    BY <1>1, <1>2, <1>3 DEF UnwrittenInv
  <2> QED BY <2>1, <2>2, <2>3 DEF UnwrittenInv
<1>7. Pending = {k \in 1..logged : logged - Len(unwritten) < k}
  BY PendingIsTheEnd DEF AuditInv, TrailInv
<1>8. Pending' = {k \in 1..logged : logged - (Len(unwritten) - 1) < k}
  <2>1. Pending' = {k \in 1..logged' : logged' - Len(unwritten') < k}
    BY <1>6, PendingIsTheEnd
  <2> QED BY <1>1, <1>3, <2>1
<1>9. Pending = Pending' \cup {Head(unwritten)}
  BY <1>2, <1>3, <1>4, <1>7, <1>8
<1> QED BY <1>1, <1>4, <1>5, <1>6, <1>9

LEMMA AppendKeeps ==
  ASSUME AuditInv, AppendAudit
  PROVE  AuditInv'
<1> DEFINE k == Head(unwritten)
<1>1. /\ k \in 1..logged /\ logged < k + 3
      /\ logged' = logged /\ log' = log /\ gaps' = gaps
      /\ Tabled' = Tabled \cup {k} /\ Pending = Pending' \cup {k}
      /\ TrailTypeOK' /\ UnwrittenInv'
  BY AppendTakes
<1>2. \A h \in Pending : k <= h
  <2>1. Pending = {h \in 1..logged : logged - Len(unwritten) < h}
    BY PendingIsTheEnd DEF AuditInv, TrailInv
  <2>2. k = logged - Len(unwritten) + 1 /\ logged \in Nat /\ Len(unwritten) \in Nat
    BY AppendTakes, LenProperties DEF AuditInv, TrailInv, TrailTypeOK
  <2> QED BY <2>1, <2>2
<1> HIDE DEF k
<1>3. /\ logged \in Nat /\ TableInv
      /\ \A h \in 1..logged : logged < h + 3 => h \in Tabled \cup Pending
  BY <1>1 DEF AuditInv, TrailInv, TrailTypeOK, TableInv
<1>4. ASSUME NEW h \in 1..logged, NEW j \in Tabled', h < j, h \notin Tabled'
      PROVE  h + 3 <= logged
  <2>1. CASE j \in Tabled
    BY <1>1, <1>3, <1>4, <2>1 DEF TableInv
  <2>2. CASE j = k
    BY <1>1, <1>2, <1>3, <1>4, <2>2
  <2> QED BY <1>1, <2>1, <2>2
<1>5. TableInv'
  BY <1>1, <1>3, <1>4 DEF TableInv
<1>6. StageInv'
  <2>1. stage = "saved" /\ stage' = IF unwritten' = <<>> THEN "idle" ELSE "saved"
    BY DEF AppendAudit
  <2> QED BY <1>1, <2>1 DEF AuditInv, StageInv, Stages
<1>7. OnlyCrashesLose'
  BY <1>1 DEF AuditInv, OnlyCrashesLose, Tabled, Pending
<1> QED BY <1>1, <1>5, <1>6, <1>7 DEF AuditInv, TrailInv

LEMMA CrashKeeps ==
  ASSUME AuditInv, Crash
  PROVE  AuditInv'
<1>1. /\ log' = logged /\ logged' = logged /\ table' = table /\ unwritten' = <<>>
      /\ gaps' = (gaps \cup Pending) \ Tabled /\ stage' = "idle"
  BY DEF Crash, LoseLog, Pending, Tabled
<1>2. /\ logged \in Nat /\ gaps \subseteq Nat /\ Pending \subseteq Nat
      /\ Pending' = {} /\ Tabled' = Tabled
  <2>1. Pending = {k \in 1..logged : logged - Len(unwritten) < k}
    BY PendingIsTheEnd DEF AuditInv, TrailInv
  <2> QED BY <1>1, <2>1, RangeOfEmpty
          DEF AuditInv, TrailInv, TrailTypeOK, Pending, Tabled
<1>3. TrailTypeOK'
  BY <1>1, <1>2, RangeOfEmpty DEF AuditInv, TrailInv, TrailTypeOK
<1>4. UnwrittenInv'
  <2>1. Len(unwritten') = 0 /\ logged' \in Nat
    BY <1>1, <1>2, RangeOfEmpty
  <2> QED BY <2>1 DEF UnwrittenInv
<1>5. TableInv'
  BY <1>1, <1>2 DEF AuditInv, TrailInv, TableInv
<1>6. StageInv'
  BY <1>1, <1>2 DEF StageInv, Stages
<1>7. OnlyCrashesLose'
  BY <1>1, <1>2 DEF AuditInv, OnlyCrashesLose, Tabled, Pending
<1> QED BY <1>1, <1>2, <1>3, <1>4, <1>5, <1>6, <1>7 DEF AuditInv, TrailInv

LEMMA ServiceKeeps ==
  ASSUME AuditInv, [ServiceNext]_serviceVars
  PROVE  AuditInv'
<1>1. CASE UNCHANGED <<trail, stage>>
  BY <1>1 DEF trail, AuditInv, TrailInv, TrailTypeOK, UnwrittenInv, TableInv,
     Pending, Tabled, StageInv, OnlyCrashesLose
<1>2. CASE Step
  <2>1. PICK n \in StepEntries : Record(n)
    BY <1>2 DEF Step
  <2> QED BY <1>2, <2>1, StepLogsFew, RecordKeeps DEF Step
<1>3. CASE Request
  <2>1. Begin /\ Record(1) /\ 1 \in 0..3
    BY <1>3 DEF Request
  <2> QED BY <2>1, RecordKeeps
<1>4. Browse => UNCHANGED <<trail, stage>>
  BY DEF Browse
<1>5. UNCHANGED serviceVars => UNCHANGED <<trail, stage>>
  BY DEF serviceVars
<1> QED BY <1>1, <1>2, <1>3, <1>4, <1>5, SaveKeeps, AppendKeeps, CrashKeeps DEF ServiceNext

LEMMA AuditInvariant == ServiceSpec => []AuditInv
<1>1. ServiceInit => AuditInv
  BY RangeOfEmpty DEF ServiceInit, TrailInit, AuditInv, TrailInv, TrailTypeOK,
     UnwrittenInv, TableInv, Pending, Tabled, StageInv, Stages, OnlyCrashesLose
<1>2. AuditInv /\ [ServiceNext]_serviceVars => AuditInv'
  BY ServiceKeeps
<1> QED BY <1>1, <1>2, PTL DEF ServiceSpec

---------------------------------------------------------------------------
\* Every entry of the stored session is in the table or about to be, unless a
\* crash came in between.
THEOREM CrashesAloneLoseEntries == ServiceSpec => []OnlyCrashesLose
<1>1. AuditInv => OnlyCrashesLose
  BY DEF AuditInv
<1> QED BY <1>1, AuditInvariant, PTL

\* Rows are appended only for entries on record.  A row that is not a repetition
\* of one of the last three entries is newer than all before it: an entry that
\* a crash left out is inserted before any newer one, or never.
THEOREM TableIsATranscript == ServiceSpec => ImplementsTranscript
<1>1. ServiceInit => Log!Init
  BY DEF ServiceInit, TrailInit, Log!Init
<1>2. AuditInv /\ [ServiceNext]_serviceVars => [Log!Next]_<<logged, table>>
  <2> SUFFICES ASSUME AuditInv, ServiceNext
               PROVE  [Log!Next]_<<logged, table>>
    BY DEF serviceVars, trail
  <2>1. CASE Step \/ Request \/ Crash \/ Browse
    BY <2>1 DEF Step, Request, Record, Crash, LoseLog, Browse, trail
  <2>2. CASE SaveSession
    BY <2>2 DEF SaveSession, SaveLog, AuditInv, TrailInv, TrailTypeOK, Log!Next, Log!Make
  <2>3. CASE AppendAudit
    <3> DEFINE k == Head(unwritten)
    <3>1. /\ k \in 1..logged /\ logged < k + 3 /\ logged' = logged
          /\ table' = Append(table, k)
      BY <2>3, AppendTakes
    <3> HIDE DEF k
    <3>2. ASSUME k \notin Tabled, NEW j \in Tabled PROVE j < k
      BY <3>1, <3>2 DEF AuditInv, TrailInv, TrailTypeOK, TableInv
    <3>3. Log!News(k) \/ Log!Repeats(k)
      BY <3>1, <3>2 DEF Log!News, Log!Repeats, Tabled, Range, Log!Range
    <3> QED BY <3>1, <3>3 DEF Log!Next, Log!Write
  <2> QED BY <2>1, <2>2, <2>3 DEF ServiceNext
<1> QED BY <1>1, <1>2, AuditInvariant, PTL DEF ServiceSpec, ImplementsTranscript, Log!Spec

---------------------------------------------------------------------------
(* The theorems about one session, read for the copy of the call under     *)
(* way.  Worked stands for the same formulas as Memory does; unfolding     *)
(* both is all there is to show.                                           *)

Worked == INSTANCE GuardProofs WITH session <- copy

LEMMA WorkedAssumptions ==
  /\ Worked!WorldModelAssumption
  /\ Worked!RiskGateAssumption
  /\ Worked!IgcAssumption
  /\ Worked!RuntimeAssumption
<1>1. Worked!WorldModelAssumption
  BY WorldModelAssumption, Zenon DEF WorldModelAssumption,
     Worked!WorldModelAssumption, Percent, Fact, Signal, Observation,
     Worked!Percent, Worked!Fact, Worked!Signal, Worked!Observation
<1>2. Worked!RiskGateAssumption
  BY RiskGateAssumption, Zenon DEF RiskGateAssumption,
     Worked!RiskGateAssumption, Reasons, Worked!Reasons
<1>3. Worked!IgcAssumption
  BY IgcAssumption, Zenon DEF IgcAssumption, Worked!IgcAssumption, Percent,
     IgcRule, Worked!Percent, Worked!IgcRule
<1>4. Worked!RuntimeAssumption
  BY RuntimeAssumption, Zenon DEF RuntimeAssumption, Worked!RuntimeAssumption,
     Percent, Severity, Fact, Facts, Signal, Contradiction, Observation,
     Candidate, Fixture, McpResult, Requests, Snapshot, Worked!Percent,
     Worked!Severity, Worked!Fact, Worked!Facts, Worked!Signal,
     Worked!Contradiction, Worked!Observation, Worked!Candidate, Worked!Fixture,
     Worked!McpResult, Worked!Requests, Worked!Snapshot
<1> QED BY <1>1, <1>2, <1>3, <1>4

LEMMA WorkedSessions ==
  /\ Worked!Session = Session /\ Worked!Rows = Rows
  /\ \A s : Worked!Coherent(s) <=> Coherent(s)
<1>1. Worked!Session = Session /\ Worked!Rows = Rows
  BY Zenon DEF Percent, Severity, Fact, Facts, Signal, Contradiction,
     Observation, Texts, Resolutions, Reasons, Requests, Snapshot, Phases, Rows,
     Session, Worked!Percent, Worked!Severity, Worked!Fact, Worked!Facts,
     Worked!Signal, Worked!Contradiction, Worked!Observation, Worked!Texts,
     Worked!Resolutions, Worked!Reasons, Worked!Requests, Worked!Snapshot,
     Worked!Phases, Worked!Rows, Worked!Session
<1>2. \A s : (Worked!OpenIn(s) <=> OpenIn(s)) /\ (Worked!Grounded(s) <=> Grounded(s))
  BY Zenon DEF Reversible, Irreversible, ManualCandidates, Named, OpenIn,
     Grounded, Worked!Reversible, Worked!Irreversible, Worked!ManualCandidates,
     Worked!Named, Worked!OpenIn, Worked!Grounded
<1> QED BY <1>1, <1>2 DEF Coherent, Worked!Coherent

LEMMA MemoryIsWorked == Memory!Next <=> Worked!Next
<1>1. Memory!Operator <=> Worked!Operator
  BY Zenon DEF Memory!Texts, Memory!Abs, Memory!OutOfTolerance, Memory!Conflict,
     Memory!SeverityOf, Memory!Signals, Memory!DetectContradictions,
     Memory!KeysOf, Memory!ResolvedFacts, Memory!ResolvedContradictions,
     Memory!LastSignal, Memory!MergeSignals, Memory!Overlay, Memory!Lesser,
     Memory!ActiveContradictions, Memory!Orient, Memory!ledger, Memory!Save,
     Memory!Fresh, Memory!Issue, Memory!Oriented, Memory!ScenarioName,
     Memory!LoadObservation, Memory!McpObservation, Memory!LoadFromMcp,
     Memory!InjectObservation, Memory!ResolveContradiction, Memory!SubmitDecide,
     Memory!Approve, Memory!AcknowledgeCheckpoint, Memory!Operator,
     Worked!Texts, Worked!Abs, Worked!OutOfTolerance, Worked!Conflict,
     Worked!SeverityOf, Worked!Signals, Worked!DetectContradictions,
     Worked!KeysOf, Worked!ResolvedFacts, Worked!ResolvedContradictions,
     Worked!LastSignal, Worked!MergeSignals, Worked!Overlay, Worked!Lesser,
     Worked!ActiveContradictions, Worked!Orient, Worked!ledger, Worked!Save,
     Worked!Fresh, Worked!Issue, Worked!Oriented, Worked!ScenarioName,
     Worked!LoadObservation, Worked!McpObservation, Worked!LoadFromMcp,
     Worked!InjectObservation, Worked!ResolveContradiction, Worked!SubmitDecide,
     Worked!Approve, Worked!AcknowledgeCheckpoint, Worked!Operator
<1>2. Memory!RunStep <=> Worked!RunStep
  BY ZenonT(60) DEF Memory!NoFacts, Memory!Abs, Memory!OutOfTolerance,
     Memory!Conflict, Memory!SeverityOf, Memory!Signals,
     Memory!DetectContradictions, Memory!KeysOf, Memory!ResolvedFacts,
     Memory!ResolvedContradictions, Memory!LastSignal, Memory!MergeSignals,
     Memory!Overlay, Memory!Lesser, Memory!ActiveContradictions, Memory!Orient,
     Memory!Reversible, Memory!Irreversible, Memory!ManualCandidates,
     Memory!StubDefaultCandidates, Memory!LiveDefaultCandidates, Memory!Refuse,
     Memory!Take, Memory!Members, Memory!Named, Memory!NamedOrFirst,
     Memory!Viable, Memory!Best, Memory!DecideWithRisk, Memory!StubDecide,
     Memory!LiveDecide, Memory!IgcMatches, Memory!IgcAction, Memory!vars,
     Memory!ledger, Memory!Save, Memory!IsLive, Memory!Consume, Memory!Escalate,
     Memory!Feedback, Memory!Charge, Memory!Perform, Memory!Execute,
     Memory!Pause, Memory!FixtureOf, Memory!Settle, Memory!UseChoice,
     Memory!DecideManually, Memory!Decide, Memory!StubOrient, Memory!Answered,
     Memory!LiveOrientations, Memory!Orientations, Memory!Oriented,
     Memory!Insufficient, Memory!Running, Memory!Terminate,
     Memory!AwaitObservation, Memory!EscalateObservation, Memory!Stepping,
     Memory!MustReview, Memory!PauseForReview, Memory!EscalateOrientation,
     Memory!Accepted, Memory!IgcAllowed, Memory!MatchedRules,
     Memory!CheckpointDue, Memory!IgcFastPath, Memory!PauseForCheckpoint,
     Memory!OrientThenDecide, Memory!DecideStep, Memory!Halted, Memory!RunStep,
     Worked!NoFacts, Worked!Abs, Worked!OutOfTolerance, Worked!Conflict,
     Worked!SeverityOf, Worked!Signals, Worked!DetectContradictions,
     Worked!KeysOf, Worked!ResolvedFacts, Worked!ResolvedContradictions,
     Worked!LastSignal, Worked!MergeSignals, Worked!Overlay, Worked!Lesser,
     Worked!ActiveContradictions, Worked!Orient, Worked!Reversible,
     Worked!Irreversible, Worked!ManualCandidates, Worked!StubDefaultCandidates,
     Worked!LiveDefaultCandidates, Worked!Refuse, Worked!Take, Worked!Members,
     Worked!Named, Worked!NamedOrFirst, Worked!Viable, Worked!Best,
     Worked!DecideWithRisk, Worked!StubDecide, Worked!LiveDecide,
     Worked!IgcMatches, Worked!IgcAction, Worked!vars, Worked!ledger,
     Worked!Save, Worked!IsLive, Worked!Consume, Worked!Escalate,
     Worked!Feedback, Worked!Charge, Worked!Perform, Worked!Execute,
     Worked!Pause, Worked!FixtureOf, Worked!Settle, Worked!UseChoice,
     Worked!DecideManually, Worked!Decide, Worked!StubOrient, Worked!Answered,
     Worked!LiveOrientations, Worked!Orientations, Worked!Oriented,
     Worked!Insufficient, Worked!Running, Worked!Terminate,
     Worked!AwaitObservation, Worked!EscalateObservation, Worked!Stepping,
     Worked!MustReview, Worked!PauseForReview, Worked!EscalateOrientation,
     Worked!Accepted, Worked!IgcAllowed, Worked!MatchedRules,
     Worked!CheckpointDue, Worked!IgcFastPath, Worked!PauseForCheckpoint,
     Worked!OrientThenDecide, Worked!DecideStep, Worked!Halted, Worked!RunStep
<1> QED BY <1>1, <1>2 DEF Memory!Next, Worked!Next

LEMMA MemoryOutcome ==
  ASSUME TypeOK, Coherent(copy), Memory!Next
  PROVE  Coherent(copy') /\ live' \subseteq Rows /\ spent' \subseteq Rows
<1>1. Worked!TypeOK
  BY WorkedSessions DEF Worked!TypeOK, TypeOK, Coherent
<1>2. Worked!TypeOK' /\ Worked!Coherent(copy')
  BY <1>1, WorkedAssumptions, WorkedSessions, MemoryIsWorked, Worked!CallOutcome
<1> QED BY <1>2, WorkedSessions DEF Worked!TypeOK

---------------------------------------------------------------------------
(* The sessions and the queue.                                             *)

\* The copy differs from the session on record only while a call works.
SessionsInv ==
  /\ TypeOK /\ Coherent(session) /\ Coherent(copy)
  /\ stage \in Stages
  /\ stage # "worked" => copy = session

LEMMA WorkKeepsSessions ==
  ASSUME SessionsInv, Begin, Memory!Next
  PROVE  SessionsInv'
<1>1. session' = session /\ stage' = "worked"
  BY DEF Begin
<1>2. Coherent(copy') /\ live' \subseteq Rows /\ spent' \subseteq Rows
  BY MemoryOutcome DEF SessionsInv
<1>3. TypeOK'
  BY <1>1, <1>2 DEF SessionsInv, TypeOK
<1>4. Coherent(session')
  BY <1>1 DEF SessionsInv
<1> QED BY <1>1, <1>2, <1>3, <1>4 DEF SessionsInv, Stages, Coherent, OpenIn, Grounded

LEMMA StepWorks ==
  ASSUME Step
  PROVE  Begin /\ Memory!Next
<1>1. Memory!RunStep
  BY Zenon DEF Step, Memory!RunStep
<1> QED BY <1>1 DEF Step, Memory!Next

LEMMA ServiceKeepsSessions ==
  ASSUME SessionsInv, [ServiceNext]_serviceVars
  PROVE  SessionsInv'
<1>1. Step \/ Request => SessionsInv'
  <2>1. Request => Begin /\ Memory!Next
    BY Zenon DEF Request, Memory!Next
  <2> QED BY <2>1, StepWorks, WorkKeepsSessions
<1>2. CASE SaveSession
  <2>1. session' = copy /\ copy' = copy /\ live' = live /\ spent' = spent
    BY <1>2 DEF SaveSession, Save, ledger
  <2>2. stage' \in {"idle", "saved"}
    BY <1>2 DEF SaveSession
  <2> QED BY <2>1, <2>2
          DEF SessionsInv, TypeOK, Stages, Coherent, OpenIn, Grounded
<1>3. CASE AppendAudit
  <2>1. UNCHANGED vars /\ copy' = copy
    BY <1>3 DEF AppendAudit
  <2>2. stage = "saved" /\ stage' \in {"idle", "saved"}
    BY <1>3 DEF AppendAudit
  <2> QED BY <2>1, <2>2
          DEF SessionsInv, vars, TypeOK, Stages, Coherent, OpenIn, Grounded
<1>4. CASE Crash
  <2>1. UNCHANGED vars /\ copy' = session /\ stage' = "idle"
    BY <1>4 DEF Crash
  <2> QED BY <2>1 DEF SessionsInv, vars, TypeOK, Stages, Coherent, OpenIn, Grounded
<1>5. CASE UNCHANGED <<vars, copy, stage>>
  BY <1>5 DEF SessionsInv, vars, TypeOK, Stages, Coherent, OpenIn, Grounded
<1>6. Browse \/ UNCHANGED serviceVars => UNCHANGED <<vars, copy, stage>>
  BY DEF Browse, serviceVars
<1> QED BY <1>1, <1>2, <1>3, <1>4, <1>5, <1>6 DEF ServiceNext

LEMMA DescribeType ==
  ASSUME SessionsInv
  PROVE  Describe(session) \in Event
<1>1. session \in Session
  BY DEF SessionsInv, Coherent
<1>2. session.pending \in Requests \cup {None} /\ session.escalation \in Reasons \cup {None}
  BY <1>1 DEF Session
<1> QED BY <1>2 DEF Describe, Event

\* The bus drops what does not fit: the queue keeps its bound.
LEMMA PutType ==
  ASSUME NEW events \in Seq(Event), NEW event \in Event, NEW n \in Nat
  PROVE  /\ Put(events, event, n) \in Seq(Event)
         /\ Len(Put(events, event, n)) <= Capacity
<1> DEFINE more == [i \in 1..n |-> event]
           all == events \o more
           room == Lesser(Len(all), Capacity)
<1>1. more \in Seq(Event)
  OBVIOUS
<1>2. all \in Seq(Event) /\ Len(all) \in Nat
  BY <1>1, ConcatProperties, LenProperties
<1> HIDE DEF more, all
<1>3. room \in Nat /\ room <= Len(all) /\ room <= Capacity
  BY <1>2, StreamAssumption DEF Lesser
<1> HIDE DEF room
<1>4. \A i \in 1..room : all[i] \in Event
  BY <1>2, <1>3, LenProperties
<1>5. /\ SubSeq(all, 1, room) \in Seq(Event)
      /\ Len(SubSeq(all, 1, room)) = IF 1 <= room THEN room - 1 + 1 ELSE 0
  BY <1>3, <1>4, SubSeqProperties
<1>6. Put(events, event, n) = SubSeq(all, 1, room)
  BY Zenon DEF Put, more, all, room
<1> QED BY <1>3, <1>5, <1>6, StreamAssumption

LEMMA PublishKeeps ==
  ASSUME SessionsInv, StreamTypeOK, NEW n \in Nat, Publish(n)
  PROVE  StreamTypeOK'
<1>1. UNCHANGED <<viewer, shown>>
  BY DEF Publish
<1>2. CASE viewer = "streaming" /\ Describe(session) # Blank
  <2>1. queue' = Put(queue, Describe(session), n)
    BY <1>2 DEF Publish
  <2>2. queue' \in Seq(Event) /\ Len(queue') <= Capacity
    BY <2>1, DescribeType, PutType DEF StreamTypeOK
  <2> QED BY <1>1, <1>2, <2>2 DEF StreamTypeOK
<1>3. CASE ~(viewer = "streaming" /\ Describe(session) # Blank)
  <2>1. queue' = queue
    BY <1>3 DEF Publish
  <2> QED BY <1>1, <2>1 DEF StreamTypeOK
<1> QED BY <1>2, <1>3

LEMMA BrowseKeeps ==
  ASSUME SessionsInv, StreamTypeOK, Open \/ Subscribe \/ Read \/ HangUp
  PROVE  StreamTypeOK'
<1>1. <<>> \in Seq(Event) /\ Len(<<>>) <= Capacity
  BY StreamAssumption
<1>2. CASE Open
  BY <1>1, <1>2, DescribeType DEF Open, StreamTypeOK
<1>3. CASE Subscribe
  BY <1>3 DEF Subscribe, StreamTypeOK
<1>4. CASE Read
  <2>1. queue # <<>> /\ shown' = Head(queue) /\ queue' = Tail(queue) /\ viewer' = viewer
    BY <1>4 DEF Read
  <2>2. queue \in Seq(Event) /\ Len(queue) <= Capacity /\ viewer = "streaming"
    BY <2>1 DEF StreamTypeOK
  <2>3. /\ Head(queue) \in Event /\ Tail(queue) \in Seq(Event)
        /\ Len(Tail(queue)) = Len(queue) - 1
    BY <2>1, <2>2, HeadTailProperties
  <2>4. Len(Tail(queue)) <= Capacity
    BY <2>2, <2>3, LenProperties, StreamAssumption
  <2> QED BY <2>1, <2>2, <2>3, <2>4 DEF StreamTypeOK
<1>5. CASE HangUp
  BY <1>1, <1>5 DEF HangUp, StreamTypeOK
<1> QED BY <1>2, <1>3, <1>4, <1>5

LEMMA ServiceKeepsStream ==
  ASSUME SessionsInv, StreamTypeOK, [ServiceNext]_serviceVars
  PROVE  StreamTypeOK'
<1>1. CASE Step
  <2>1. DecideNotices \in Nat
    BY DEF DecideNotices
  <2>2. Publish(1) \/ Publish(2) \/ Publish(DecideNotices) \/ UNCHANGED stream
    BY <1>1, Zenon DEF Step
  <2>3. 1 \in Nat /\ 2 \in Nat
    OBVIOUS
  <2> QED BY <2>1, <2>2, <2>3, PublishKeeps DEF stream, StreamTypeOK
<1>2. CASE UNCHANGED stream
  BY <1>2 DEF stream, StreamTypeOK
<1>3. Request \/ SaveSession \/ AppendAudit \/ UNCHANGED serviceVars => UNCHANGED stream
  BY DEF Request, SaveSession, AppendAudit, serviceVars
<1>4. CASE Crash
  <2>1. <<>> \in Seq(Event) /\ Len(<<>>) <= Capacity
    BY StreamAssumption
  <2> QED BY <1>4, <2>1 DEF Crash, StreamTypeOK
<1>5. CASE Browse
  BY <1>5, BrowseKeeps DEF Browse
<1> QED BY <1>1, <1>2, <1>3, <1>4, <1>5 DEF ServiceNext

LEMMA ServiceInvariant == ServiceSpec => [](SessionsInv /\ StreamTypeOK)
<1>1. ServiceInit => SessionsInv
  <2> SUFFICES ASSUME ServiceInit PROVE SessionsInv
    OBVIOUS
  <2>1. PICK budget \in Budgets, scenario \in Scenarios \cup {None} :
          session = NewSession(budget, scenario)
    BY DEF ServiceInit, Init
  <2>2. Coherent(session)
    BY <2>1, NewSessionCoherent
  <2> QED BY <2>2 DEF ServiceInit, Init, SessionsInv, TypeOK, Coherent, Stages
<1>2. ServiceInit => StreamTypeOK
  <2>1. <<>> \in Seq(Event) /\ Len(<<>>) <= Capacity /\ Blank \in Event
    BY StreamAssumption DEF Blank, Event
  <2> QED BY <2>1 DEF ServiceInit, StreamInit, StreamTypeOK
<1>3. SessionsInv /\ StreamTypeOK /\ [ServiceNext]_serviceVars
      => (SessionsInv /\ StreamTypeOK)'
  BY ServiceKeepsSessions, ServiceKeepsStream
<1> QED BY <1>1, <1>2, <1>3, PTL DEF ServiceSpec

---------------------------------------------------------------------------
\* The sessions, the rows, the viewer's queue and the table stay of their
\* types, the queue within its bound, and between two calls nothing is left in
\* memory that the store does not have: no request is half done.
THEOREM ServiceTypeCorrect == ServiceSpec => []ServiceTypeOK
<1>1. SessionsInv /\ StreamTypeOK /\ AuditInv => ServiceTypeOK
  BY DEF SessionsInv, Coherent, AuditInv, TrailInv, StageInv, ServiceTypeOK
<1> QED BY <1>1, ServiceInvariant, AuditInvariant, PTL

\* Wherever a crash cuts a call off, the session on record shows no request
\* that it has already answered.
THEOREM CrashesLeaveRequestsOpen == ServiceSpec => []RequestsAreOpen
<1>1. SessionsInv => RequestsAreOpen
  BY DEF SessionsInv, Coherent, OpenIn, RequestsAreOpen
<1> QED BY <1>1, ServiceInvariant, PTL

\* Nor does it rest on an orientation that lost what the operator resolved.
THEOREM CrashesKeepHumanFacts ==
  ASSUME Mode # "stub"
  PROVE  ServiceSpec => []HumanFactsPrevail
<1>1. SessionsInv => HumanFactsPrevail
  BY DEF SessionsInv, Coherent, Grounded, HumanFactsPrevail
<1> QED BY <1>1, ServiceInvariant, PTL
=============================================================================
