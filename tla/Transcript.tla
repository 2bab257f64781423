----------------------------- MODULE Transcript -----------------------------
(***************************************************************************)
(* What a reader of the audit table can rely on ("Append-only Postgres     *)
(* audit_events", docs/TECHNOLOGY-SELECTION.md): a session's entries are   *)
(* numbered as they are made; rows are only ever appended, and never for   *)
(* an entry that is not part of the session on record.  A row may repeat   *)
(* an entry, but only one of the last three; without these repetitions the *)
(* rows are in the order of the entries.                                   *)
(***************************************************************************)
EXTENDS Naturals, Sequences, Functions

VARIABLES
  made,       \* number of entries of the session on record
  rows        \* the entries in the table, in the order of its rows

Init == made = 0 /\ rows = <<>>

\* A call adds its entries to the session.
Make == made' \in Nat /\ made' >= made /\ UNCHANGED rows

News(k) == \A j \in Range(rows) : j < k

Repeats(k) == k \in Range(rows) /\ made < k + 3

Write(k) ==
  /\ News(k) \/ Repeats(k)
  /\ rows' = Append(rows, k)
  /\ UNCHANGED made

Next == Make \/ \E k \in 1..made : Write(k)

Spec == Init /\ [][Next]_<<made, rows>>
=============================================================================
