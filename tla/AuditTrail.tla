----------------------------- MODULE AuditTrail -----------------------------
(***************************************************************************)
(* How a session's audit entries reach the table audit_events (_persist in *)
(* src/schwerpunkt/runtime/session.py over save_session and append_audit   *)
(* of src/schwerpunkt/store/): the session is saved with its whole list,   *)
(* then the last three entries of the list are inserted, each in a         *)
(* transaction of its own.                                                 *)
(*                                                                         *)
(* An entry is its position in the session's list.  The table is the       *)
(* sequence of its rows.  Every persist inserts the last three entries,    *)
(* so most entries stand in it several times, behind newer ones too.       *)
(***************************************************************************)
EXTENDS Naturals, Sequences, Functions

VARIABLES
  logged,       \* length of the list in the stored session
  log,          \* length of the list in the copy a call works on
  unwritten,    \* entries _persist has still to insert, in its order
  table,        \* the rows of audit_events, by id
  gaps          \* stored entries a crash kept from being inserted

trail == <<logged, log, unwritten, table, gaps>>

TrailTypeOK ==
  /\ logged \in Nat /\ log \in Nat
  /\ unwritten \in Seq(Nat) /\ table \in Seq(Nat)
  /\ gaps \subseteq Nat

TrailInit ==
  logged = 0 /\ log = 0 /\ unwritten = <<>> /\ table = <<>> /\ gaps = {}

\* The last m of n entries: audit[-m:]
Newest(n, m) ==
  IF n < m THEN [i \in 1..n |-> i] ELSE [i \in 1..m |-> n - m + i]

\* Fault: audit[-2:]
LastTwo(n) == Newest(n, 2)

LastThree(n) == Newest(n, 3)

\* SessionState.log, n times.
Record(n) ==
  /\ log' = log + n
  /\ UNCHANGED <<logged, unwritten, table, gaps>>

SaveLog ==
  /\ logged' = log
  /\ unwritten' = LastThree(log)
  /\ UNCHANGED <<log, table, gaps>>

\* Fault: newest first.
AppendNewest ==
  /\ unwritten # <<>>
  /\ table' = Append(table, unwritten[Len(unwritten)])
  /\ unwritten' = SubSeq(unwritten, 1, Len(unwritten) - 1)
  /\ UNCHANGED <<logged, log, gaps>>

AppendNext ==
  /\ unwritten # <<>>
  /\ table' = Append(table, Head(unwritten))
  /\ unwritten' = Tail(unwritten)
  /\ UNCHANGED <<logged, log, gaps>>

\* The process dies: what it had not saved never was, what it had not inserted
\* is left out.
LoseLog ==
  /\ log' = logged
  /\ gaps' = (gaps \cup Range(unwritten)) \ Range(table)
  /\ unwritten' = <<>>
  /\ UNCHANGED <<logged, table>>

---------------------------------------------------------------------------
\* Without a crash no entry is left out: three is enough for every call.
OnlyCrashesLose ==
  1..logged \subseteq Range(table) \cup Range(unwritten) \cup gaps

\* The table is a transcript of the session on record: entries appear in it for
\* the first time in their order, and only the last three come again.
Log == INSTANCE Transcript WITH made <- logged, rows <- table

ImplementsTranscript == Log!Spec
=============================================================================
