----------------------------- MODULE CallsProofs -----------------------------
(***************************************************************************)
(* Approvals under overlapping calls, for every set of tokens and hashes,  *)
(* every mode and every fixture table.  What a call does to its copy of    *)
(* the session does not matter here: only the rows it reads and marks, and *)
(* when that is committed.                                                 *)
(***************************************************************************)
EXTENDS Calls, FiniteSetTheorems, TLAPS

\* A call that has read a row holds that one row, which no other call holds,
\* and which is unconsumed until the call updates it.  In one process at most
\* one call holds any.
ClaimsHold ==
  /\ deployment \in Deployments
  /\ executed \in Nat /\ forgotten \in Nat
  /\ at \in [Ids -> Stages]
  /\ claim \in [Ids -> SUBSET Rows]
  /\ live \subseteq Rows
  /\ \A i \in Ids :
       /\ at[i] \in {"idle", "loaded"} => claim[i] = {}
       /\ at[i] = "claimed" => \E row \in live : claim[i] = {row}
       /\ claim[i] # {} => \E row \in live \cup spent : claim[i] = {row}
  /\ \A i, j \in Ids : i # j =>
       /\ claim[i] \cap claim[j] = {}
       /\ OneProcess => claim[i] = {} \/ claim[j] = {}

\* An approval with a fresh token was added to the rows, or nothing was.
Inserts ==
  \/ UNCHANGED ledger
  \/ /\ \E hash \in Hashes, token \in Tokens :
          /\ \A row \in live \cup spent : row[2] # token
          /\ live' = live \cup {<<hash, token>>}
     /\ UNCHANGED spent

---------------------------------------------------------------------------
(* What a request of either call does to the rows.                         *)

LEMMA FirstInserts ==
  ASSUME claim[1] = {}, UNCHANGED claim, UNCHANGED spent, First!Operator
  PROVE  Inserts
<1>1. /\ live \ claim[1] = live /\ spent \cup claim[1] = spent
      /\ live' \ claim'[1] = live' /\ spent' \cup claim'[1] = spent'
  OBVIOUS
<1>2. CASE \E hash \in Hashes : First!Approve(hash)
  <2>1. PICK hash \in Hashes, token \in Tokens : First!Fresh(token) /\ First!Issue(hash, token)
    BY <1>2 DEF First!Approve
  <2> QED BY <1>1, <2>1 DEF First!Fresh, First!Issue, Inserts
<1>3. CASE UNCHANGED First!ledger
  BY <1>1, <1>3 DEF First!ledger, Inserts, ledger
<1>4. First!Operator => (\E hash \in Hashes : First!Approve(hash)) \/ UNCHANGED First!ledger
  BY DEF First!Operator, First!LoadObservation, First!LoadFromMcp,
     First!InjectObservation, First!ResolveContradiction, First!SubmitDecide,
     First!AcknowledgeCheckpoint
<1> QED BY <1>2, <1>3, <1>4

LEMMA SecondInserts ==
  ASSUME claim[2] = {}, UNCHANGED claim, UNCHANGED spent, Second!Operator
  PROVE  Inserts
<1>1. /\ live \ claim[2] = live /\ spent \cup claim[2] = spent
      /\ live' \ claim'[2] = live' /\ spent' \cup claim'[2] = spent'
  OBVIOUS
<1>2. CASE \E hash \in Hashes : Second!Approve(hash)
  <2>1. PICK hash \in Hashes, token \in Tokens : Second!Fresh(token) /\ Second!Issue(hash, token)
    BY <1>2 DEF Second!Approve
  <2> QED BY <1>1, <2>1 DEF Second!Fresh, Second!Issue, Inserts
<1>3. CASE UNCHANGED Second!ledger
  BY <1>1, <1>3 DEF Second!ledger, Inserts, ledger
<1>4. Second!Operator => (\E hash \in Hashes : Second!Approve(hash)) \/ UNCHANGED Second!ledger
  BY DEF Second!Operator, Second!LoadObservation, Second!LoadFromMcp,
     Second!InjectObservation, Second!ResolveContradiction, Second!SubmitDecide,
     Second!AcknowledgeCheckpoint
<1> QED BY <1>2, <1>3, <1>4

LEMMA RequestInserts ==
  ASSUME ClaimsHold, NEW i \in Ids, WorkRequest(i)
  PROVE  Inserts
<1>1. /\ claim[i] = {} /\ UNCHANGED <<claim, spent>>
      /\ (i = 1 /\ First!Operator) \/ (i = 2 /\ Second!Operator)
  BY DEF WorkRequest, Request, ClaimsHold
<1> QED BY <1>1, FirstInserts, SecondInserts

---------------------------------------------------------------------------
(* The claims.                                                             *)

LEMMA ClaimsInit ==
  ASSUME CallsInit
  PROVE  ClaimsHold
BY DEF CallsInit, Init, ClaimsHold, Ids, Stages, Rows

\* A call that neither claims nor marks a row.
LEMMA QuietKeepsClaims ==
  ASSUME ClaimsHold, NEW i \in Ids, NEW stage \in {"loaded", "ready"},
         Reach(i, stage), at[i] \in {"idle", "loaded"},
         UNCHANGED <<claim, world>>, Inserts
  PROVE  ClaimsHold'
<1>1. /\ at' = [at EXCEPT ![i] = stage] /\ claim' = claim
      /\ live \subseteq live' /\ live' \subseteq Rows /\ spent' = spent
      /\ deployment' = deployment /\ executed' = executed /\ forgotten' = forgotten
  BY DEF Reach, Inserts, ledger, ClaimsHold, Rows, world
<1> QED BY <1>1 DEF ClaimsHold, Stages, OneProcess

\* Rows that are committed are no longer claimed by a call before its update.
LEMMA EndKeepsClaims ==
  ASSUME ClaimsHold, NEW calls \in SUBSET Ids, End(calls), NEW rows,
         live' = live \ rows, spent' = spent \cup rows,
         \A j \in Ids : at[j] = "claimed" => claim[j] \cap rows = {},
         deployment' = deployment, executed' = executed, forgotten' \in Nat
  PROVE  ClaimsHold'
<1>1. /\ at' = [i \in Ids |-> IF i \in calls THEN "idle" ELSE at[i]]
      /\ claim' = [i \in Ids |-> IF i \in calls THEN {} ELSE claim[i]]
  BY DEF End
<1>2. \A i \in Ids : at'[i] \in Stages /\ claim'[i] \in SUBSET Rows
  BY <1>1 DEF ClaimsHold, Stages
<1>3. ASSUME NEW i \in Ids
      PROVE  /\ at'[i] \in {"idle", "loaded"} => claim'[i] = {}
             /\ at'[i] = "claimed" => \E row \in live' : claim'[i] = {row}
             /\ claim'[i] # {} => \E row \in live' \cup spent' : claim'[i] = {row}
  BY <1>1, <1>3 DEF ClaimsHold
<1>4. ASSUME NEW i \in Ids, NEW j \in Ids, i # j
      PROVE  /\ claim'[i] \cap claim'[j] = {}
             /\ OneProcess => claim'[i] = {} \/ claim'[j] = {}
  BY <1>1, <1>4 DEF ClaimsHold
<1>5. at' \in [Ids -> Stages] /\ claim' \in [Ids -> SUBSET Rows]
  BY <1>1, <1>2
<1>6. OneProcess' <=> OneProcess
  BY DEF OneProcess
<1> QED BY <1>3, <1>4, <1>5, <1>6 DEF ClaimsHold

\* The lock, or the one event loop, keeps the new claim apart from the others.
LEMMA ClaimKeepsClaims ==
  ASSUME "files" \notin Deployments, ClaimsHold, NEW i \in Ids, ClaimStep(i)
  PROVE  ClaimsHold'
<1>1. PICK row \in live : Readable(i, row) /\ claim' = [claim EXCEPT ![i] = {row}]
  BY DEF ClaimStep
<1>2. /\ at' = [at EXCEPT ![i] = "claimed"] /\ live' = live /\ spent' = spent
      /\ deployment' = deployment /\ executed' = executed /\ forgotten' = forgotten
  BY DEF ClaimStep, Reach, vars, world
<1>3. OneProcess \/ deployment = "processes"
  BY CallsAssumption DEF ClaimsHold, OneProcess
<1>4. \A j \in Ids \ {i} : row \notin claim[j] /\ (OneProcess => claim[j] = {})
  BY <1>1, <1>3 DEF Readable, ClaimStep, LoopIsFree
<1>5. OneProcess' <=> OneProcess
  BY <1>2 DEF OneProcess
<1>6. at' \in [Ids -> Stages] /\ claim' \in [Ids -> SUBSET Rows]
  BY <1>1, <1>2 DEF ClaimsHold, Stages
<1> QED BY <1>1, <1>2, <1>4, <1>5, <1>6 DEF ClaimsHold

\* A row that is committed belongs to no call before its update.
LEMMA CommitKeepsClaims ==
  ASSUME ClaimsHold, NEW i \in Ids, at[i] \in {"claimed", "ready"},
         at' = [at EXCEPT ![i] = "ready"], claim' = claim,
         NEW rows \in SUBSET claim[i],
         live' = live \ rows, spent' = spent \cup rows,
         deployment' = deployment, executed' \in Nat, forgotten' = forgotten
  PROVE  ClaimsHold'
<1>1. ASSUME NEW j \in Ids, at'[j] = "claimed"
      PROVE  \E row \in live' : claim'[j] = {row}
  <2>1. j # i /\ at[j] = "claimed" /\ claim[j] \cap claim[i] = {}
    BY <1>1 DEF ClaimsHold
  <2> QED BY <2>1 DEF ClaimsHold
<1>2. ASSUME NEW j \in Ids
      PROVE  /\ at'[j] \in {"idle", "loaded"} => claim'[j] = {}
             /\ claim'[j] # {} => \E row \in live' \cup spent' : claim'[j] = {row}
  BY <1>2 DEF ClaimsHold
<1>3. OneProcess' <=> OneProcess
  BY DEF OneProcess
<1>4. at' \in [Ids -> Stages] /\ live' \subseteq Rows
  BY DEF ClaimsHold, Stages
<1> QED BY <1>1, <1>2, <1>3, <1>4 DEF ClaimsHold

---------------------------------------------------------------------------
(* The rows that are marked and not committed.                             *)

LEMMA PendingRow ==
  ASSUME ClaimsHold, NEW i \in Ids
  PROVE  /\ Pending(i) \subseteq claim[i]
         /\ Pending(i) # {} =>
              /\ at[i] = "ready"
              /\ \E row \in live : claim[i] = {row} /\ Pending(i) = {row}
BY DEF Pending, ClaimsHold

\* In one process a single call can have marked anything.
LEMMA PendingOnConnection ==
  ASSUME ClaimsHold, NEW i \in Ids
  PROVE  \/ UNION {Pending(j) : j \in OnConnection(i)} = {} /\ Pending(i) = {}
         \/ \E k \in Ids :
              /\ Pending(k) # {} /\ (k = i \/ Pending(i) = {})
              /\ UNION {Pending(j) : j \in OnConnection(i)} = Pending(k)
<1>1. i \in OnConnection(i) /\ OnConnection(i) \subseteq Ids
  BY DEF OnConnection
<1>2. CASE \A j \in OnConnection(i) : Pending(j) = {}
  BY <1>1, <1>2
<1>3. ASSUME NEW k \in OnConnection(i), Pending(k) # {}
      PROVE  /\ k = i \/ Pending(i) = {}
             /\ UNION {Pending(j) : j \in OnConnection(i)} = Pending(k)
  <2>1. ASSUME NEW j \in OnConnection(i), j # k
        PROVE  Pending(j) = {}
    <3>1. OneProcess /\ claim[k] # {}
      BY <1>1, <1>3, <2>1, PendingRow DEF OnConnection
    <3> QED BY <1>1, <2>1, <3>1, PendingRow DEF ClaimsHold
  <2> QED BY <1>1, <1>3, <2>1
<1> QED BY <1>1, <1>2, <1>3

\* No call that has only claimed its row is touched by what others commit.
LEMMA PendingIsNotClaimed ==
  ASSUME ClaimsHold, NEW k \in Ids, NEW j \in Ids, at[j] = "claimed"
  PROVE  claim[j] \cap Pending(k) = {}
BY PendingRow DEF ClaimsHold, Pending

LEMMA StoreKeepsClaims ==
  ASSUME ClaimsHold, NEW i \in Ids, Store(i)
  PROVE  ClaimsHold'
<1> DEFINE rows == UNION {Pending(j) : j \in OnConnection(i)}
<1>1. /\ End({i}) /\ live' = live \ rows /\ spent' = spent \cup rows
      /\ deployment' = deployment /\ executed' = executed /\ forgotten' = forgotten
  BY DEF Store, Commit, world
<1>2. rows = {} \/ \E k \in Ids : rows = Pending(k)
  BY PendingOnConnection
<1> HIDE DEF rows
<1>3. \A j \in Ids : at[j] = "claimed" => claim[j] \cap rows = {}
  BY <1>2, PendingIsNotClaimed
<1>4. forgotten' \in Nat /\ {i} \in SUBSET Ids
  BY <1>1 DEF ClaimsHold
<1> QED BY <1>1, <1>3, <1>4, EndKeepsClaims

LEMMA IdsAreFinite ==
  ASSUME NEW calls \in SUBSET Ids
  PROVE  IsFiniteSet(calls) /\ Cardinality(calls) \in Nat
<1>1. IsFiniteSet({} \cup {1})
  BY FS_EmptySet, FS_AddElement
<1>2. IsFiniteSet(Ids)
  <2>1. IsFiniteSet(({} \cup {1}) \cup {2})
    BY <1>1, FS_AddElement
  <2>2. ({} \cup {1}) \cup {2} = Ids
    BY DEF Ids
  <2> QED BY <2>1, <2>2, Zenon
<1> QED BY <1>2, FS_Subset, FS_CardinalityType

LEMMA DieKeepsClaims ==
  ASSUME ClaimsHold, NEW calls \in SUBSET Ids, Die(calls)
  PROVE  ClaimsHold'
<1>1. /\ End(calls) /\ live' = live \ {} /\ spent' = spent \cup {}
      /\ deployment' = deployment /\ executed' = executed
      /\ forgotten' = forgotten + Cardinality(Unsettled(calls))
  BY DEF Die, vars
<1>2. Cardinality(Unsettled(calls)) \in Nat
  BY IdsAreFinite DEF Unsettled
<1>3. forgotten' \in Nat
  BY <1>1, <1>2 DEF ClaimsHold
<1>4. \A j \in Ids : at[j] = "claimed" => claim[j] \cap {} = {}
  OBVIOUS
<1> QED BY <1>1, <1>3, <1>4, EndKeepsClaims

LEMMA CallsKeepClaims ==
  ASSUME "files" \notin Deployments, ClaimsHold, [CallsNext]_callVars
  PROVE  ClaimsHold'
<1>1. CASE UNCHANGED callVars
  BY <1>1 DEF callVars, vars, world, ClaimsHold, OneProcess
<1>2. ASSUME NEW i \in Ids, Load(i) \/ WorkStep(i)
      PROVE  ClaimsHold'
  BY <1>2, QuietKeepsClaims DEF Load, WorkStep, vars, ledger, Inserts
<1>3. ASSUME NEW i \in Ids, WorkRequest(i)
      PROVE  ClaimsHold'
  BY <1>3, RequestInserts, QuietKeepsClaims DEF WorkRequest
<1>4. ASSUME NEW i \in Ids, Mark(i)
      PROVE  ClaimsHold'
  <2>1. /\ at[i] = "claimed" /\ at' = [at EXCEPT ![i] = "ready"] /\ claim' = claim
        /\ deployment' = deployment /\ executed' = executed + 1
        /\ forgotten' = forgotten
    BY <1>4 DEF Mark, Reach
  <2>2. \E rows \in SUBSET claim[i] : live' = live \ rows /\ spent' = spent \cup rows
    <3>1. \/ live' = live \ claim[i] /\ spent' = spent \cup claim[i]
          \/ live' = live \ {} /\ spent' = spent \cup {}
      BY <1>4 DEF Mark, Commit, ledger
    <3>2. claim[i] \in SUBSET claim[i] /\ {} \in SUBSET claim[i]
      OBVIOUS
    <3> QED BY <3>1, <3>2
  <2>3. executed' \in Nat
    BY <2>1 DEF ClaimsHold
  <2> QED BY <2>1, <2>2, <2>3, CommitKeepsClaims
<1>5. ASSUME NEW i \in Ids, SharedCommit(i)
      PROVE  ClaimsHold'
  <2>1. /\ at[i] = "ready" /\ Pending(i) \in SUBSET claim[i]
        /\ at' = at /\ claim' = claim
        /\ live' = live \ Pending(i) /\ spent' = spent \cup Pending(i)
        /\ deployment' = deployment /\ executed' = executed /\ forgotten' = forgotten
    BY <1>5, PendingRow DEF SharedCommit, Commit, world
  <2>2. at' = [at EXCEPT ![i] = "ready"] /\ executed' \in Nat
    BY <2>1 DEF ClaimsHold
  <2> QED BY <2>1, <2>2, CommitKeepsClaims
<1>6. ASSUME NEW i \in Ids, Abandon(i)
      PROVE  ClaimsHold'
  BY <1>6, DieKeepsClaims DEF Abandon
<1>7. CASE Crash
  BY <1>7, DieKeepsClaims DEF Crash
<1> QED BY <1>1, <1>2, <1>3, <1>4, <1>5, <1>6, <1>7, ClaimKeepsClaims, StoreKeepsClaims
        DEF CallsNext

---------------------------------------------------------------------------
(* The ledger.  The calls that have marked a row and not committed it are  *)
(* the difference between what was executed and what the ledger counts.    *)

Debtors == Unsettled(Ids)

Counted == executed - forgotten - Cardinality(Debtors)

LEMMA DebtorsCount ==
  ASSUME NEW calls \in SUBSET Ids, NEW i \in Ids
  PROVE  /\ Cardinality(calls) \in Nat
         /\ i \notin calls => Cardinality(calls \cup {i}) = Cardinality(calls) + 1
         /\ i \in calls => Cardinality(calls \ {i}) = Cardinality(calls) - 1
<1>1. IsFiniteSet(calls)
  BY IdsAreFinite
<1> QED BY <1>1, FS_CardinalityType, FS_AddElement, FS_RemoveElement

\* One pending row, that of call k, is committed.
Settles(k) ==
  /\ k \in Debtors /\ Debtors' = Debtors \ {k}
  /\ Commit(Pending(k))
  /\ executed' = executed /\ forgotten' = forgotten

LEMMA SettlingConsumes ==
  ASSUME ClaimsHold, NEW k \in Ids, Settles(k)
  PROVE  Approvals!Next
<1>1. PICK row \in live : Pending(k) = {row}
  BY PendingRow DEF Settles, Debtors, Unsettled
<1>2. live' = live \ {row} /\ spent' = spent \cup {row}
  BY <1>1 DEF Settles, Commit
<1>3. Cardinality(Debtors') = Cardinality(Debtors) - 1 /\ Cardinality(Debtors) \in Nat
  BY DebtorsCount DEF Settles, Debtors, Unsettled
<1>4. Counted' = Counted + 1
  BY <1>3 DEF Settles, Counted, ClaimsHold
<1> QED BY <1>2, <1>4 DEF Counted, Debtors, Approvals!Next, Approvals!Consume

\* Nothing is committed, and what is executed is owed or forgotten.
LEMMA OwingStutters ==
  ASSUME UNCHANGED ledger, Counted' = Counted
  PROVE  [Approvals!Next]_<<live, spent, Counted>>
BY DEF ledger

\* The debtors are told by the calls that are ready and the rows they hold.
LEMMA SameDebtors ==
  ASSUME NEW i \in Ids, \A j \in Ids \ {i} : Pending(j)' = Pending(j)
  PROVE  /\ Pending(i)' = {} => Debtors' = Debtors \ {i}
         /\ Pending(i)' # {} => Debtors' = Debtors \cup {i}
<1>1. Debtors' = {j \in Ids : Pending(j)' # {}} /\ Debtors = {j \in Ids : Pending(j) # {}}
  BY DEF Debtors, Unsettled
<1> QED BY <1>1

\* A call that has not claimed moves on: whatever rows are inserted, fresh as
\* their tokens are, none of them is claimed.
LEMMA QuietKeepsDebtors ==
  ASSUME ClaimsHold, NEW i \in Ids, claim[i] = {}, Inserts, claim' = claim,
         \A j \in Ids \ {i} : at'[j] = at[j], executed' = executed, forgotten' = forgotten
  PROVE  Counted' = Counted
<1>1. \A j \in Ids : claim[j] \cap live' = claim[j] \cap live
  <2>1. CASE UNCHANGED ledger
    BY <2>1 DEF ledger
  <2>2. ASSUME NEW hash, NEW token, \A row \in live \cup spent : row[2] # token,
               live' = live \cup {<<hash, token>>}
        PROVE  \A j \in Ids : claim[j] \cap live' = claim[j] \cap live
    <3>1. <<hash, token>>[2] = token
      OBVIOUS
    <3>2. \A j \in Ids : <<hash, token>> \notin claim[j]
      BY <2>2, <3>1 DEF ClaimsHold
    <3> QED BY <2>2, <3>2
  <2> QED BY <2>1, <2>2 DEF Inserts
<1>2. \A j \in Ids \ {i} : Pending(j)' = Pending(j)
  BY <1>1 DEF Pending
<1>3. Pending(i)' = {} /\ Pending(i) = {}
  BY DEF Pending
<1>4. Debtors' = Debtors
  BY <1>2, <1>3, SameDebtors DEF Debtors, Unsettled
<1> QED BY <1>4 DEF Counted

LEMMA ClaimKeepsDebtors ==
  ASSUME ClaimsHold, NEW i \in Ids, ClaimStep(i)
  PROVE  UNCHANGED ledger /\ Counted' = Counted
<1>1. /\ at' = [at EXCEPT ![i] = "claimed"] /\ live' = live /\ spent' = spent
      /\ executed' = executed /\ forgotten' = forgotten /\ at[i] = "loaded"
      /\ \E row \in live : claim' = [claim EXCEPT ![i] = {row}]
  BY DEF ClaimStep, Reach, vars, world
<1>2. \A j \in Ids \ {i} : at'[j] = at[j] /\ claim'[j] = claim[j]
  BY <1>1 DEF ClaimsHold
<1>3. at'[i] = "claimed"
  BY <1>1 DEF ClaimsHold
<1>4. \A j \in Ids \ {i} : Pending(j)' = Pending(j)
  BY <1>1, <1>2 DEF Pending
<1>5. Pending(i)' = {} /\ Pending(i) = {}
  BY <1>1, <1>3 DEF Pending
<1>6. Debtors' = Debtors
  BY <1>4, <1>5, SameDebtors DEF Debtors, Unsettled
<1> QED BY <1>1, <1>6 DEF Counted, ledger

\* The update: committed at once, it consumes the row; otherwise it is owed.
LEMMA MarkRefines ==
  ASSUME ClaimsHold, NEW i \in Ids, Mark(i)
  PROVE  [Approvals!Next]_<<live, spent, Counted>>
<1>1. /\ at[i] = "claimed" /\ at' = [at EXCEPT ![i] = "ready"] /\ claim' = claim
      /\ executed' = executed + 1 /\ forgotten' = forgotten
      /\ executed \in Nat /\ forgotten \in Nat
  BY DEF Mark, Reach, ClaimsHold
<1>2. PICK row \in live : claim[i] = {row}
  BY <1>1 DEF ClaimsHold
<1>3. /\ at'[i] = "ready" /\ \A j \in Ids \ {i} : at'[j] = at[j]
      /\ \A j \in Ids \ {i} : row \notin claim[j]
  BY <1>1, <1>2 DEF ClaimsHold
<1>4. i \notin Debtors /\ Pending(i) = {} /\ Debtors \subseteq Ids
  BY <1>1 DEF Debtors, Unsettled, Pending
<1>5. CASE CommitsAtOnce
  <2>1. live' = live \ {row} /\ spent' = spent \cup {row}
    BY <1>2, <1>5 DEF Mark, Commit
  <2>2. \A j \in Ids \ {i} : Pending(j)' = Pending(j)
    BY <1>1, <1>3, <2>1 DEF Pending
  <2>3. Pending(i)' = {}
    BY <1>1, <1>2, <2>1 DEF Pending
  <2>4. Debtors' = Debtors
    BY <1>4, <2>2, <2>3, SameDebtors
  <2>5. Cardinality(Debtors) \in Nat
    BY <1>4, IdsAreFinite
  <2>6. Cardinality(Debtors') = Cardinality(Debtors)
    BY <2>4
  <2>7. Counted' = Counted + 1
    BY <1>1, <2>5, <2>6 DEF Counted
  <2> QED BY <2>1, <2>7 DEF Counted, Debtors, Approvals!Next, Approvals!Consume
<1>6. CASE ~CommitsAtOnce
  <2>1. UNCHANGED ledger
    BY <1>6 DEF Mark
  <2>2. \A j \in Ids \ {i} : Pending(j)' = Pending(j)
    BY <1>1, <1>3, <2>1 DEF Pending, ledger
  <2>3. Pending(i)' = {row}
    BY <1>1, <1>2, <1>3, <2>1 DEF Pending, ledger
  <2>4. Debtors' = Debtors \cup {i}
    BY <2>2, <2>3, SameDebtors
  <2>5. Counted' = Counted
    BY <1>1, <1>4, <2>4, DebtorsCount DEF Counted
  <2> QED BY <2>1, <2>5, OwingStutters
<1> QED BY <1>5, <1>6

\* A call that ends takes its debt with it; what others have claimed and is not
\* in rows stays as it is.
LEMMA EndedDebtors ==
  ASSUME ClaimsHold, NEW calls \in SUBSET Ids, End(calls), NEW rows,
         live' = live \ rows, NEW j \in Ids
  PROVE  /\ j \in calls => Pending(j)' = {}
         /\ j \notin calls => Pending(j)' = Pending(j) \ rows
<1>1. /\ at'[j] = IF j \in calls THEN "idle" ELSE at[j]
      /\ claim'[j] = IF j \in calls THEN {} ELSE claim[j]
  BY DEF End
<1> QED BY <1>1 DEF Pending

LEMMA StoreRefines ==
  ASSUME ClaimsHold, NEW i \in Ids, Store(i)
  PROVE  [Approvals!Next]_<<live, spent, Counted>>
<1> DEFINE rows == UNION {Pending(j) : j \in OnConnection(i)}
<1>1. /\ End({i}) /\ Commit(rows) /\ live' = live \ rows /\ spent' = spent \cup rows
      /\ executed' = executed /\ forgotten' = forgotten
  BY DEF Store, Commit, world
<1>2. CASE rows = {} /\ Pending(i) = {}
  <2>1. ASSUME NEW j \in Ids
        PROVE  Pending(j)' = Pending(j)
    <3>1. {i} \in SUBSET Ids
      OBVIOUS
    <3>2. live' = live \ {}
      BY <1>1, <1>2
    <3>3. /\ j \in {i} => Pending(j)' = {}
          /\ j \notin {i} => Pending(j)' = Pending(j) \ {}
      BY <1>1, <3>1, <3>2, EndedDebtors
    <3> QED BY <1>2, <3>3
  <2>2. Debtors' = Debtors
    BY <2>1 DEF Debtors, Unsettled
  <2>3. UNCHANGED ledger
    BY <1>1, <1>2 DEF ledger
  <2> QED BY <1>1, <2>2, <2>3, OwingStutters DEF Counted
<1>3. ASSUME NEW k \in Ids, Pending(k) # {}, k = i \/ Pending(i) = {}, rows = Pending(k)
      PROVE  Approvals!Next
  <2> HIDE DEF rows
  <2>1. \A j \in Ids \ {k} : Pending(j) \cap rows = {}
    BY <1>3, PendingRow DEF ClaimsHold
  <2>2. \A j \in Ids : Pending(j)' = IF j = i THEN {} ELSE Pending(j) \ rows
    BY <1>1, EndedDebtors
  <2>3. \A j \in Ids \ {k} : Pending(j)' = Pending(j)
    BY <1>3, <2>1, <2>2
  <2>4. Pending(k)' = {}
    BY <1>3, <2>2
  <2>5. Debtors' = Debtors \ {k} /\ k \in Debtors
    BY <1>3, <2>3, <2>4, SameDebtors DEF Debtors, Unsettled
  <2>6. Settles(k)
    BY <1>1, <1>3, <2>5 DEF Settles
  <2> QED BY <2>6, SettlingConsumes
<1> QED BY <1>2, <1>3, PendingOnConnection

LEMMA DieRefines ==
  ASSUME ClaimsHold, NEW calls \in SUBSET Ids, Die(calls),
         calls = Ids \/ \E i \in Ids : calls = {i}
  PROVE  UNCHANGED ledger /\ Counted' = Counted
<1>1. /\ End(calls) /\ live' = live \ {} /\ UNCHANGED ledger
      /\ executed' = executed /\ executed \in Nat /\ forgotten \in Nat
      /\ forgotten' = forgotten + Cardinality(Unsettled(calls))
  BY DEF Die, vars, ledger, ClaimsHold
<1>2. ASSUME NEW j \in Ids
      PROVE  Pending(j)' = IF j \in calls THEN {} ELSE Pending(j)
  <2>1. /\ j \in calls => Pending(j)' = {}
        /\ j \notin calls => Pending(j)' = Pending(j) \ {}
    BY <1>1, EndedDebtors
  <2> QED BY <2>1
<1>3. Debtors' = Debtors \ calls /\ Unsettled(calls) = Debtors \cap calls
  BY <1>2 DEF Debtors, Unsettled
<1>4. Cardinality(Debtors) \in Nat /\ Debtors \subseteq Ids
  BY IdsAreFinite DEF Debtors, Unsettled
<1>5. Cardinality(Debtors') + Cardinality(Unsettled(calls)) = Cardinality(Debtors)
  <2>1. CASE calls = Ids
    <3>1. Debtors' = {} /\ Unsettled(calls) = Debtors
      BY <1>3, <1>4, <2>1
    <3> QED BY <1>4, <3>1, FS_EmptySet
  <2>2. ASSUME NEW i \in Ids, calls = {i}
        PROVE  Cardinality(Debtors') + Cardinality(Unsettled(calls)) = Cardinality(Debtors)
    <3>1. CASE i \in Debtors
      <4>1. Debtors' = Debtors \ {i} /\ Unsettled(calls) = {} \cup {i}
        BY <1>3, <2>2, <3>1
      <4>2. Cardinality({} \cup {i}) = 0 + 1
        BY DebtorsCount, FS_EmptySet
      <4> QED BY <1>4, <3>1, <4>1, <4>2, DebtorsCount
    <3>2. CASE i \notin Debtors
      <4>1. Debtors' = Debtors /\ Unsettled(calls) = {}
        BY <1>3, <2>2, <3>2
      <4> QED BY <1>4, <4>1, FS_EmptySet
    <3> QED BY <3>1, <3>2
  <2> QED BY <2>1, <2>2
<1>6. Cardinality(Debtors') \in Nat /\ Cardinality(Unsettled(calls)) \in Nat
  BY <1>3, <1>4, IdsAreFinite
<1> QED BY <1>1, <1>4, <1>5, <1>6 DEF Counted

---------------------------------------------------------------------------
\* Without SQLite files shared by processes the calls, however they overlap or
\* die, implement the ledger of approvals: each committed consumption stands
\* for one action, and beyond these there are only the actions of calls that
\* have not committed, or died before they could.
THEOREM OverlappingCallsKeepTheLedger ==
  ASSUME "files" \notin Deployments
  PROVE  CallsSpec => CallsImplementLedger
<1>1. CallsInit => ClaimsHold /\ Approvals!Init
  <2> SUFFICES ASSUME CallsInit PROVE ClaimsHold /\ Approvals!Init
    OBVIOUS
  <2>1. live = {} /\ spent = {} /\ executed = 0 /\ forgotten = 0
    BY DEF CallsInit, Init
  <2>2. Unsettled(Ids) = {}
    BY DEF CallsInit, Unsettled, Pending
  <2> QED BY <2>1, <2>2, ClaimsInit, FS_EmptySet DEF Approvals!Init
<1>2. ClaimsHold /\ [CallsNext]_callVars => ClaimsHold'
  BY CallsKeepClaims
<1>3. ClaimsHold /\ [CallsNext]_callVars => [Approvals!Next]_<<live, spent, Counted>>
  <2> SUFFICES ASSUME ClaimsHold, [CallsNext]_callVars
               PROVE  [Approvals!Next]_<<live, spent, Counted>>
    OBVIOUS
  <2>1. CASE UNCHANGED callVars
    BY <2>1 DEF callVars, vars, world, Counted, Debtors, Unsettled, Pending
  <2>2. ASSUME NEW i \in Ids, Load(i) \/ WorkStep(i)
        PROVE  [Approvals!Next]_<<live, spent, Counted>>
    <3>1. /\ UNCHANGED ledger /\ Inserts /\ claim[i] = {} /\ claim' = claim
          /\ \A j \in Ids \ {i} : at'[j] = at[j]
          /\ executed' = executed /\ forgotten' = forgotten
      BY <2>2 DEF Load, WorkStep, Reach, vars, world, ledger, Inserts, ClaimsHold
    <3> QED BY <3>1, QuietKeepsDebtors, OwingStutters
  <2>3. ASSUME NEW i \in Ids, WorkRequest(i)
        PROVE  [Approvals!Next]_<<live, spent, Counted>>
    <3>1. /\ Inserts /\ claim[i] = {} /\ claim' = claim
          /\ \A j \in Ids \ {i} : at'[j] = at[j]
          /\ executed' = executed /\ forgotten' = forgotten
      BY <2>3, RequestInserts DEF WorkRequest, Reach, world, ClaimsHold
    <3>2. Counted' = Counted
      BY <3>1, QuietKeepsDebtors
    <3> QED BY <3>1, <3>2 DEF Inserts, ledger, Counted, Debtors,
                               Approvals!Next, Approvals!Issue
  <2>4. ASSUME NEW i \in Ids, ClaimStep(i)
        PROVE  [Approvals!Next]_<<live, spent, Counted>>
    BY <2>4, ClaimKeepsDebtors, OwingStutters
  <2>5. ASSUME NEW i \in Ids, SharedCommit(i)
        PROVE  [Approvals!Next]_<<live, spent, Counted>>
    <3>1. /\ Pending(i) # {} /\ Commit(Pending(i)) /\ at' = at /\ claim' = claim
          /\ executed' = executed /\ forgotten' = forgotten
      BY <2>5 DEF SharedCommit, world
    <3>2. live' = live \ Pending(i)
      BY <3>1 DEF Commit
    <3>3. \A j \in Ids \ {i} : Pending(j)' = Pending(j)
      <4>1. \A j \in Ids \ {i} : claim[j] \cap Pending(i) = {}
        BY PendingRow DEF ClaimsHold
      <4> QED BY <3>1, <3>2, <4>1 DEF Pending
    <3>4. Pending(i)' = {}
      BY <3>1, <3>2 DEF Pending
    <3>5. i \in Debtors /\ Debtors' = Debtors \ {i}
      BY <3>1, <3>3, <3>4, SameDebtors DEF Debtors, Unsettled
    <3> QED BY <3>1, <3>5, SettlingConsumes DEF Settles
  <2>6. ASSUME NEW i \in Ids, Abandon(i)
        PROVE  [Approvals!Next]_<<live, spent, Counted>>
    <3>1. Die({i}) /\ {i} \in SUBSET Ids
      BY <2>6 DEF Abandon
    <3> QED BY <3>1, DieRefines, OwingStutters
  <2>7. CASE Crash
    BY <2>7, DieRefines, OwingStutters DEF Crash
  <2> QED BY <2>1, <2>2, <2>3, <2>4, <2>5, <2>6, <2>7, MarkRefines, StoreRefines
          DEF CallsNext
<1>4. Approvals!Spec <=>
        Approvals!Init /\ [][Approvals!Next]_<<live, spent, Counted>>
  BY DEF Approvals!Spec, Counted, Debtors
<1> QED BY <1>1, <1>2, <1>3, <1>4, PTL DEF CallsSpec, CallsImplementLedger
=============================================================================
