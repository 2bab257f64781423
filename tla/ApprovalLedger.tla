--------------------------- MODULE ApprovalLedger ---------------------------
(***************************************************************************)
(* What approvals promise, with no session and no cognition                *)
(* ("Approval tokens for irreversible actions",                            *)
(* openspec/specs/human-in-the-loop/spec.md): an operator issues fresh     *)
(* tokens, each bound to one action hash, and an irreversible action is    *)
(* executed exactly by consuming one of them, once.                        *)
(***************************************************************************)
EXTENDS Naturals

CONSTANTS Hash, Token

VARIABLES
  open,       \* rows <<hash, token>> issued and not yet consumed
  consumed,   \* rows consumed
  executed    \* number of irreversible actions executed

Init == open = {} /\ consumed = {} /\ executed = 0

Issue(hash, token) ==
  /\ \A row \in open \cup consumed : row[2] # token
  /\ open' = open \cup {<<hash, token>>}
  /\ UNCHANGED <<consumed, executed>>

Consume(row) ==
  /\ row \in open
  /\ open' = open \ {row}
  /\ consumed' = consumed \cup {row}
  /\ executed' = executed + 1

Next ==
  \/ \E hash \in Hash, token \in Token : Issue(hash, token)
  \/ \E row \in open : Consume(row)

Spec == Init /\ [][Next]_<<open, consumed, executed>>
=============================================================================
