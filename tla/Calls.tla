-------------------------------- MODULE Calls --------------------------------
(***************************************************************************)
(* Two calls of the manager at once on one session, over one store: worker *)
(* threads and coroutines of the API (src/schwerpunkt/api/app.py), or      *)
(* processes of the CLI (src/schwerpunkt/cli/main.py).                     *)
(*                                                                         *)
(* A call loads the session, works on its copy and stores the copy; it can *)
(* be overtaken, or die, between any two of these steps.  The work itself  *)
(* is that of Runtime, instantiated for each copy.  consume_approval_token *)
(* reads a row (claim) and then updates it (Mark).  When that update is    *)
(* committed depends on the store and on who shares the connection:        *)
(*   "local"      one server process, SqliteStore                          *)
(*   "files"      a process for each call, SqliteStore                     *)
(*   "server"     one server process, PostgresStore                        *)
(*   "processes"  a process for each call, PostgresStore                   *)
(* SqliteStore commits the update at once.  A PostgresStore connection is  *)
(* still in the transaction that load_session opened, so the update is     *)
(* committed by the next commit on the connection, that of save_session at *)
(* the latest, and undone when the process dies before.                    *)
(*                                                                         *)
(* Here session, live and spent are what is committed.  The audit entries  *)
(* of a call are Service's.                                                *)
(***************************************************************************)
EXTENDS Runtime

CONSTANTS
  Deployments,      \* the deployments to look at
  MaxForgotten      \* bound: deaths after which an approval stands unconsumed

VARIABLES
  deployment,       \* where the calls run, fixed
  first, second,    \* the copies the two calls work on
  at,               \* how far each call is
  claim,            \* the row each call has read as unconsumed
  executed,         \* irreversible actions carried out so far
  forgotten         \* of these, the ones whose consumption was undone

world == <<executed, forgotten, deployment>>
callVars == <<vars, first, second, at, claim, world>>

\* A step that meets a choice nobody offered raises and stores nothing; Abandon
\* stands for it, so the choices here are offered ones.
ASSUME CallsAssumption ==
  /\ Deployments \subseteq {"local", "files", "server", "processes"}
  /\ MaxForgotten \in Nat
  /\ \A id \in CandidateIds : Named(ManualCandidates, id) # {}

Ids == {1, 2}
Stages == {"idle", "loaded", "claimed", "ready"}

OneProcess == deployment \in {"local", "server"}
CommitsAtOnce == deployment \in {"local", "files"}

CallsTypeOK ==
  /\ TypeOK
  /\ deployment \in Deployments
  /\ first \in Session \cup {None} /\ second \in Session \cup {None}
  /\ at \in [Ids -> Stages]
  /\ claim \in [Ids -> SUBSET Rows]
  /\ executed \in Nat /\ forgotten \in Nat

CallsInit ==
  /\ Init
  /\ deployment \in Deployments
  /\ first = None /\ second = None
  /\ at = [i \in Ids |-> "idle"]
  /\ claim = [i \in Ids |-> {}]
  /\ executed = 0 /\ forgotten = 0

\* What a call sees of the rows: the one it has claimed counts as consumed.
First == INSTANCE Runtime WITH
  session <- first, live <- live \ claim[1], spent <- spent \cup claim[1]
Second == INSTANCE Runtime WITH
  session <- second, live <- live \ claim[2], spent <- spent \cup claim[2]

Step(i) ==
  \/ i = 1 /\ First!RunStep /\ UNCHANGED second
  \/ i = 2 /\ Second!RunStep /\ UNCHANGED first

Request(i) ==
  \/ i = 1 /\ First!Operator /\ UNCHANGED second
  \/ i = 2 /\ Second!Operator /\ UNCHANGED first

Held(i) == IF i = 1 THEN first ELSE second

Hold(i, s) ==
  \/ i = 1 /\ first' = s /\ UNCHANGED second
  \/ i = 2 /\ second' = s /\ UNCHANGED first

Reach(i, stage) == at' = [at EXCEPT ![i] = stage]

\* Calls that are over hold nothing.
End(calls) ==
  /\ at' = [i \in Ids |-> IF i \in calls THEN "idle" ELSE at[i]]
  /\ claim' = [i \in Ids |-> IF i \in calls THEN {} ELSE claim[i]]
  /\ first' = IF 1 \in calls THEN None ELSE first
  /\ second' = IF 2 \in calls THEN None ELSE second

---------------------------------------------------------------------------
(* The rows between the update of consume_approval_token and its commit.   *)

\* Updated by call i, and not committed.
Pending(i) == IF at[i] = "ready" THEN claim[i] \cap live ELSE {}

Unsettled(calls) == {i \in calls : Pending(i) # {}}

\* The calls whose statements are committed together with those of call i.
OnConnection(i) == IF OneProcess THEN Ids ELSE {i}

Commit(rows) ==
  /\ live' = live \ rows
  /\ spent' = spent \cup rows

\* The calls die with their processes, and what is pending is undone.
Die(calls) ==
  /\ End(calls)
  /\ forgotten' = forgotten + Cardinality(Unsettled(calls))
  /\ forgotten' <= MaxForgotten
  /\ UNCHANGED <<vars, executed, deployment>>

---------------------------------------------------------------------------
\* get: every call starts from what is stored now.
Load(i) ==
  /\ at[i] = "idle"
  /\ Reach(i, "loaded")
  /\ Hold(i, session)
  /\ UNCHANGED <<vars, claim, world>>

\* From its claim until it is stored a step awaits nothing: in one process no
\* other step runs meanwhile. Requests do, in worker threads.
LoopIsFree(i) == OneProcess => \A j \in Ids \ {i} : claim[j] = {}

\* Fault: the row is not locked; so it is in the deployment "files".
Unlocked(i, row) == TRUE

\* SELECT ... FOR UPDATE: a row that another connection has read is locked until
\* that one commits or dies.
Readable(i, row) ==
  deployment = "processes" => \A j \in Ids \ {i} : row \notin claim[j]

\* run_step on the copy, without an approval.
WorkStep(i) ==
  /\ at[i] = "loaded" /\ LoopIsFree(i)
  /\ Reach(i, "ready")
  /\ UNCHANGED <<vars, claim, world>>
  /\ Step(i)

\* run_step on the copy, up to the update of the row it found.
ClaimStep(i) ==
  /\ at[i] = "loaded" /\ LoopIsFree(i)
  /\ Reach(i, "claimed")
  /\ UNCHANGED <<vars, world>>
  /\ \E row \in live :
       /\ Readable(i, row)
       /\ claim' = [claim EXCEPT ![i] = {row}]
  /\ Step(i)

\* A request or an observation on the copy; approve inserts its row here.
WorkRequest(i) ==
  /\ at[i] = "loaded"
  /\ Reach(i, "ready")
  /\ \E rows \in {{}} \cup {{row} : row \in Rows} : live' = live \cup rows
  /\ UNCHANGED <<session, spent, claim, world>>
  /\ Request(i)

\* Fault: the session is stored whether or not the row could be marked.
MarkNothing(i) ==
  /\ at[i] = "claimed"
  /\ Reach(i, "ready")
  /\ UNCHANGED <<vars, first, second, claim, world>>

\* The claimed row is marked consumed, and the action carried out.
Mark(i) ==
  /\ at[i] = "claimed"
  /\ Reach(i, "ready")
  /\ executed' = executed + 1
  /\ IF CommitsAtOnce THEN Commit(claim[i]) ELSE UNCHANGED ledger
  /\ UNCHANGED <<session, first, second, claim, forgotten, deployment>>

\* Another call on the connection commits: approve's row, or an audit event.  It
\* may have done so since the load; then the mark commits itself.
SharedCommit(i) ==
  /\ deployment = "server" /\ Pending(i) # {}
  /\ Commit(Pending(i))
  /\ UNCHANGED <<session, first, second, at, claim, world>>

\* Fault: the session is saved on a connection of its own.
StoreApart(i) ==
  /\ at[i] = "ready"
  /\ Save(Held(i))
  /\ End({i})
  /\ UNCHANGED <<ledger, world>>

\* save_session: the whole record, whatever was stored since the load, and with
\* it what is pending on the connection.
Store(i) ==
  /\ at[i] = "ready"
  /\ Save(Held(i))
  /\ Commit(UNION {Pending(j) : j \in OnConnection(i)})
  /\ End({i})
  /\ UNCHANGED world

\* The call raises, returns early or dies with a process of its own.
Abandon(i) ==
  /\ at[i] # "idle"
  /\ OneProcess => claim[i] = {}
  /\ Die({i})

Crash ==
  /\ OneProcess
  /\ \E i \in Ids : at[i] # "idle"
  /\ Die(Ids)

CallsNext ==
  \/ \E i \in Ids :
       \/ Load(i) \/ WorkStep(i) \/ ClaimStep(i) \/ WorkRequest(i) \/ Mark(i)
       \/ SharedCommit(i) \/ Store(i) \/ Abandon(i)
  \/ Crash

CallsSpec == CallsInit /\ [][CallsNext]_callVars

---------------------------------------------------------------------------
\* Whatever calls overlap or die, the session on record never claims an
\* irreversible action that was not carried out.
RecordedWasExecuted == session.taken <= executed

\* Nor one whose approval could be used again: the record of an action is not
\* committed before the consumption of its approval, on either store.
RecordIsBacked == session.taken <= Cardinality(spent)

\* The token a session on record holds stands in the store: an approval that
\* the session shows can be looked up, however many calls have overwritten one
\* another's sessions.
HeldIsIssued ==
  session.token # None => \E row \in live \cup spent : row[2] = session.token

\* An approval is claimed only by a call whose session holds it, and for the
\* irreversible candidate the operator chose in that session, however old the
\* session is by now.
ClaimsWereChosen ==
  [][\A i \in Ids : claim'[i] \notin {claim[i], {}} =>
       \E c \in Named(ManualCandidates, Held(i).decideId) :
         c.irreversible /\ claim'[i] = {<<c.hash, Held(i).token>>}]_callVars

\* What calls commit is a ledger of approvals in which each one drives one
\* action, although two calls may work from the same session.  The exceptions
\* are counted: actions whose process died before the commit.
Approvals == INSTANCE ApprovalLedger WITH
  Hash <- Hashes, Token <- Tokens,
  open <- live, consumed <- spent,
  executed <- executed - forgotten - Cardinality(Unsettled(Ids))

CallsImplementLedger == Approvals!Spec

---------------------------------------------------------------------------
\* human-in-the-loop/spec.md: an irreversible action requires a "single-use
\* approval token"; so there are never more actions than tokens were issued.
SingleUse == executed <= Cardinality(live \cup spent)
=============================================================================
