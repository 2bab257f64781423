------------------------------- MODULE Service -------------------------------
(***************************************************************************)
(* One server process with one session, one call at a time, an operator's  *)
(* browser on the event stream, and crashes.  Here a call is not atomic:   *)
(* it works on a copy and publishes (session.py), the copy is saved, and   *)
(* the audit entries are inserted one by one; the process may die between  *)
(* any two of these.                                                       *)
(*                                                                         *)
(* The store survives: session, approval rows, table.  The copy, the       *)
(* queue and the subscription do not.  Approval rows are those of          *)
(* SqliteStore, which commits each of its statements; when PostgresStore   *)
(* commits them is the subject of Calls.                                   *)
(***************************************************************************)
EXTENDS EscalationStream, AuditTrail

CONSTANTS
  MaxLog,           \* bound: no call starts on a longer list of entries
  MaxRows           \* bound: ... nor on a longer table

\* A step that meets a choice nobody offered raises and persists nothing; it is
\* a call that never starts here.
ASSUME ServiceAssumption ==
  /\ MaxLog \in Nat /\ MaxRows \in Nat
  /\ \A id \in CandidateIds : Named(ManualCandidates, id) # {}

VARIABLES
  copy,             \* the session in the memory of the call under way
  stage             \* what the call has still to do

serviceVars == <<vars, stream, trail, copy, stage>>

Stages == {"idle", "worked", "saved"}

ServiceTypeOK ==
  /\ TypeOK /\ StreamTypeOK /\ TrailTypeOK
  /\ copy \in Session
  /\ stage \in Stages
  /\ stage = "idle" => copy = session /\ log = logged

ServiceInit ==
  /\ Init /\ StreamInit /\ TrailInit
  /\ copy = session
  /\ stage = "idle"

Memory == INSTANCE Runtime WITH session <- copy

---------------------------------------------------------------------------
\* Act refused, which is not published; Decide's refusals are.
RefusedByAct ==
  \/ copy'.escalation = "invalid_or_consumed_approval_token"
  \/ copy'.escalation = "approval_required" /\ FixtureOf(copy).token # None

\* Decide publishes a request it raises twice, once from _decide and once from
\* run_step; a request that was still pending, and its own refusals, once.
DecideNotices ==
  IF copy'.phase = "paused"
  THEN IF copy'.decideId = copy.decideId THEN 2 ELSE 1
  ELSE IF copy'.phase = "escalated" /\ ~RefusedByAct THEN 1 ELSE 0

\* What a step logs: two entries for an action, a third when a rule took it or
\* its verification failed, one for an insufficient observation.
StepEntries ==
  IF copy'.loops # copy.loops THEN {2, 3}
  ELSE IF copy'.phase = "escalated" /\ Insufficient(copy.obs) THEN {1}
  ELSE {0}

Begin ==
  /\ stage = "idle" /\ log <= MaxLog /\ Len(table) <= MaxRows
  /\ stage' = "worked"
  /\ UNCHANGED session

Step ==
  /\ Begin
  /\ \/ /\ \/ Memory!EscalateObservation
           \/ Memory!EscalateOrientation
           \/ Memory!PauseForCheckpoint
        /\ Publish(1)
     \/ /\ Memory!PauseForReview
        /\ Publish(2)
     \/ /\ Memory!OrientThenDecide \/ Memory!DecideStep
        /\ Publish(DecideNotices)
     \/ /\ \/ Memory!Terminate \/ Memory!AwaitObservation
           \/ Memory!IgcFastPath \/ Memory!Halted
        /\ UNCHANGED stream
  /\ \E n \in StepEntries : Record(n)

\* Every request and observation logs one entry and publishes nothing.
Request ==
  /\ Begin
  /\ Memory!Operator
  /\ Record(1)
  /\ UNCHANGED stream

\* save_session
SaveSession ==
  /\ stage = "worked"
  /\ Save(copy)
  /\ SaveLog
  /\ stage' = IF log = 0 THEN "idle" ELSE "saved"
  /\ UNCHANGED <<ledger, copy, stream>>

\* append_audit, once
AppendAudit ==
  /\ stage = "saved"
  /\ AppendNext
  /\ stage' = IF unwritten' = <<>> THEN "idle" ELSE "saved"
  /\ UNCHANGED <<vars, copy, stream>>

Crash ==
  /\ stage' = "idle"
  /\ copy' = session
  /\ LoseLog
  /\ viewer' = "away" /\ queue' = <<>> /\ UNCHANGED shown
  /\ UNCHANGED vars

Browse ==
  /\ Open \/ Subscribe \/ Read \/ HangUp
  /\ UNCHANGED <<vars, trail, copy, stage>>

Reopen == Open /\ UNCHANGED <<vars, trail, copy, stage>>

ServiceNext ==
  \/ Step \/ Request \/ SaveSession \/ AppendAudit \/ Crash \/ Browse

ServiceSpec == ServiceInit /\ [][ServiceNext]_serviceVars

\* The operator reopens the stream now and then, as the console does after
\* each of its own requests.
AttentiveSpec == ServiceSpec /\ WF_serviceVars(Reopen)

\* The operator stays connected and waits; the server goes on with the call
\* under way and delivers, and a client keeps stepping.
WaitingSpec ==
  /\ ServiceSpec
  /\ WF_serviceVars(Step) /\ WF_serviceVars(SaveSession \/ AppendAudit)
  /\ WF_serviceVars((Subscribe \/ Read) /\ UNCHANGED <<vars, trail, copy, stage>>)
=============================================================================
