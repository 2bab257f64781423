# A TLA+ model of Schwerpunkt

Schwerpunkt runs an agent through Observe, Orient, Decide and Act, and stops
for a human where confidence, contradictions, the risk budget or an irreversible
action ask for one. This directory models that runtime in TLA+, checks it with
TLC and proves its safety properties with TLAPS. Source paths below are relative to
`src/schwerpunkt/`; documents are named from the repository's root.

## The system

| component | state | operations | interacts with |
|---|---|---|---|
| Session runtime, `runtime/session.py` | one `SessionState` per session in the store; manual flow in `pending_operator`, `operator_decide_id`, `operator_approval_token` | create, load / inject an observation, resolve, submit_decide, approve, acknowledge_checkpoint, run_step and its loops | loads and saves the whole session around every call; calls every other component |
| Orientation, `orient/engine.py` | none (pure over the world model) | detect contradictions, impose human resolutions, orient | run_step, resolve_contradiction, stub and live cognition |
| Risk gate and Act, `act/executor.py` | none of its own | decide_with_risk, execute_action | reads the last orientation, changes the session, consumes approval rows |
| Cognition, `cognition/` | fixtures; a model behind HTTP | orient, decide | awaited inside run_step |
| IG&C, `igc/engine.py` | rule table read at start | evaluate | run_step, past Decide and the gate |
| Store, `store/` | sessions, approval rows, audit events | save / load, issue / consume, append | `SqliteStore` commits each of its calls; `PostgresStore` commits consumed approvals only with the next save or insert, on one connection per process |
| Operator API and console, `api/` | an event bus with bounded queues | one manager call per request, an SSE stream | requests in worker threads, steps in the event loop |
| MCP bridge, `mcp/bridge.py` | none | call_tool | awaited between load and save of a session |
| CLI, `cli/main.py` | none | `start`, `run`, `step`, `resolve`, `decide`, `approve`: one manager call (or a sequence of steps) per process | the same store as a running API |

What makes each correct:

- **Approvals**: an irreversible action consumes exactly one approval bound to
  its hash, whatever is retried, refused or approved twice.
- **Beliefs**: no observation silently replaces a protected belief; what a human
  resolved is what later decisions rest on.
- **Choices**: one choice drives at most one action; the irreversible action is
  taken only for an operator who chose it; no choice disappears without an
  action, a refusal or a request.
- **Budget and checkpoints**: a cycle that starts at Observe acts through Decide
  only with budget left, and high-stakes cycles stop at the checkpoint.
- **Termination**: completion is final; stub runs end.
- **Overlapping calls and crashes**: a consumption that is committed stands for
  one action; only a process that dies after an action and before its commit
  leaves an approval good for another. The record never claims an action nobody
  carried out, or one whose consumption is not committed.
- **Audit**: the table repeats entries, but first appearances are in the order of
  the session's list, only the last three come again, and gaps are only where the
  process died.
- **Events**: an operator whose browser reconnects now and then ends up looking
  at what the session waits for.

Two things are hard here. One is the freedom of the operator: every request is
accepted in every phase, and most of them move the session straight to Decide
with an orientation, a choice or a token left over from earlier. The other is
that a call is a load, some work (with awaits, in live mode) and several separate
writes, with nothing that keeps another call, another process or a crash from
coming in between. `PROJECT.json` lists these hazards with the line where each
bites.

## Modules

| module | models |
|---|---|
| `WorldModel` | facts, contradictions, resolutions and one orientation, as operators |
| `RiskGate` | candidates, decisions, `decide_with_risk`, the stub's and the model's choice, IG&C rules; an operator returns the set of decisions the code can take |
| `Runtime` | one session, `session`, and the approval rows of the store, `live` and `spent`; one action per manager call, `run_step` split by its way out |
| `ApprovalLedger` | abstract: what approvals promise, without sessions or phases |
| `Calls` | two calls of the manager at once, in one process or two, on either store: load, work on a copy, claim and mark the approval row, store the copy; what is committed when; calls and processes may die |
| `AuditTrail` | how `_persist` brings audit entries into their table |
| `Transcript` | abstract: what the rows of the audit table promise |
| `EscalationStream` | the event bus, its bounded queue, the SSE route and one browser |
| `Service` | one server: a call's work, its publications, its save and its audit inserts as separate steps, with crashes and a browser |
| `MCRuntime`, `MCCalls`, `MCService` | instances for TLC: keys, values, scenarios |
| `WorldModelProofs`, `RiskGateProofs`, `RuntimeProofs`, `BeliefProofs`, `GuardProofs`, `CallsProofs`, `CopyProofs`, `ServiceProofs` | theorems |

`Runtime` extends `RiskGate`, which extends `WorldModel`; `Runtime` instantiates
`ApprovalLedger` with `open <- live`, `consumed <- spent` and
`executed <- session.taken`. `Calls` extends `Runtime` and instantiates it again
for the copy of each call (`First`, `Second`); `Service` extends
`EscalationStream` (which extends `Runtime`) and `AuditTrail`, and instantiates
`Runtime` for the copy of the call under way (`Memory`).

How state and actions correspond to the code. The record `session` holds the
fields of `SessionState` and its `WorldModel` that some call reads back:
`decideId` is `operator_decide_id`, `token` is `operator_approval_token`,
`orientation` the last `OrientationResult` (its confidence and the facts and
budget of its `updated_model`, which stay as they were while the session moves
on), `taken` counts `irreversible_actions_taken`. `live` and `spent` are the
unconsumed and consumed rows of `approval_tokens` of this session. An operator
with a parameter `s` (`Oriented`, `Decide`, `Execute`) works on the in-memory
copy of the session, `Save` persists it; so a run_step that orients, decides and
acts is one action, as it is one persist in the code. Phases `orient` and `act`
exist only inside a call and are never stored.

In `Calls`, `Service` and `EscalationStream` the variable `session` is the
stored session only. `Calls` keeps the copies in `first` and `second`, how far
each call is in `at`, the row it has read in `claim`, and the irreversible
actions carried out in `executed`: what happened in the world, whatever is on
record. The instance of `Runtime` for a copy sees its claimed row as consumed, so
that the whole of `run_step` is reused; `ClaimStep` is the path that finds a row,
`Mark` its UPDATE together with the action, `Store` the save of the whole record.

`deployment` says where the calls run: in one server process or in a process for
each (`OneProcess`), on SQLite or on Postgres (`CommitsAtOnce`). `live` and
`spent` are what is committed. `SqliteStore.consume_approval_token` commits its
UPDATE. On a `PostgresStore` connection the SELECT of `load_session` has opened
a transaction, so the UPDATE is `Pending` until somebody commits on that
connection: `save_session` at the latest (`Store`), another call of the same
process before that (`SharedCommit`). When the process dies first (`Abandon`
where it serves one call, `Crash` where it serves all), the row is live again
although the action was carried out; `forgotten` counts these. `SELECT ... FOR
UPDATE` keeps two connections from reading one row (`Readable`). Within one
process there is no such lock, but no await either between the claim and the
save, so no two steps overlap there (`LoopIsFree`); requests do, in worker threads.

In
`Service`, `copy`, `log` and the subscription are in memory and lost by `Crash`;
`session`, `live`, `spent` and `table` are in the store. Its approval rows are
`SqliteStore`'s, consumed within the call's work; when a `PostgresStore` commits
them is left to `Calls`. An audit entry is its position in the session's list,
`table` the sequence of the rows: every persist appends the last three entries
(1; 1, 2; 1, 2, 3; 2, 3, 4), so it repeats them and holds older ones behind newer
ones. A call logs as many as `StepEntries` says and
publishes as often as `Step` says, always from the stored session, which is
still the one before the call. `viewer` tells whether the browser is away, has
been sent the snapshot, or is subscribed.

Abstractions: keys, values and names are members of small sets; confidences are
whole percents (per mille for orientations), costs half units, the tolerance of
0.05 is exact arithmetic in hundredths; a contradiction keeps key and severity;
the list of human resolutions keeps its last value per key, which is what
applying it in order leaves; `confidence_factor`, which no fixture sets, is 1.
A language model is a choice among all answers the code accepts; an MCP result
is any member of `Sensed`, whose missing fields `McpObservation` fills in as
`observation_from_mcp_result` does. High stakes and the checkpoint interval are fixed for
a session, since no call changes them. A call that raises persists nothing and
is a stuttering step.

Definitions marked "fault" belong to no behaviour of the model. Each is a
plausible mistake in the definition after it (a missing reset, a dropped check);
substituting it must make a property fail, and `PROJECT.json` pairs them up.

## Runs

Every run is one session; its bounds are in its `.cfg`. The first six pass.

| run | question | bounds |
|---|---|---|
| `manual_approvals` | approvals, choices and steps in any order | candidates A, B, C and one nobody offered; a right and a wrong hash; two tokens; one budget too small for B and one that B nearly exhausts in two; three actions |
| `manual_facts` | resolutions, drift and IG&C | text and numeric values at, within and beyond the tolerance; five scenarios: protected facts, drift, a faint reading, an IG&C pattern; candidates A and B; one action |
| `stub` | the stub's scenarios, switched and resolved at any time | eight scenarios: the committed ones, faint and blind sensors, approvals nobody gave, unexpected effects; one token an operator may be given for the irreversible action |
| `live` | any answer of a model, MCP readings, high stakes | confidences on both sides of the floor, interval 2, one token an operator may be given |
| `overlap` | two calls at once, in a server or in processes on Postgres, that may die | one quiet scenario, the irreversible candidate B, two tokens, one action per session, one death that forgets a consumption |
| `service` | crashes between the writes of a call; a browser that comes, goes and reads late | candidate A, a scenario under review and a blind one, a queue of two, no call starts on more than three entries or six rows |

Two tokens are the least with which one can be live while another is spent
and a mismatched one is held; three loops let a choice be used, repeated and
refused, and an interval of 2 fall due. Tokens are symmetric in
`manual_approvals`, which checks no liveness. `MaxLoops` bounds the action count
in `Perform`, the only unbounded counter of a session. In `overlap` one action per
session is enough, because a copy loaded before the action can act again: the
counter that shows it is `executed`, not the session's. The deployment "local"
(one process, SQLite) behaves as "server" does with fewer steps; the run leaves
it out for its time, and the theorems cover it. `MaxForgotten` is 1: a second
death that forgets repeats the first. With a queue of two, one
review, published twice, fills it (the code's bound is 32). Lists of up to
six entries (three, and one more call) are longer than the three that are
inserted, so an entry can be left out for good; a table of six rows holds an
older entry behind newer ones, and a call adds three more.

Overlapping calls lose updates: the later save overwrites the earlier, and a
stale save may bring back a choice that was used. Nothing in the repository
promises otherwise, so `ActsOnOneChoice` and the like are properties of calls
taken whole; `overlap` checks what survives: the ledger, a record that claims
nothing undone (`RecordedWasExecuted`) or still approved (`RecordIsBacked`),
requests on display that are still open (`RequestsAreOpen`), and approvals claimed
only for what was chosen in the session the call holds (`ClaimsWereChosen`). The
ledger counts committed consumptions: an action whose call has not committed yet,
or whose process died before it could, is not in it. `single_use` shows that this
exception is real. In the fourth deployment, "files", two processes on one SQLite
file read one row before either updates it and act on it twice; the fault
`Unlocked` gives the same behaviour to Postgres. The documents name one `uvicorn`
process for that profile.

The remaining six runs look for statements of the documents that the code
does not keep, and TLC finds a counterexample to each:

- `zero_budget`: a choice submitted after an action is weighed against the
  budget of the last orientation, and IG&C reads none, so a session with budget
  0 acts (`openspec/specs/ooda-runtime/spec.md`).
- `resolution_clears`: resolving with a value other than the current reading
  stores the contradiction again (`openspec/specs/human-in-the-loop/spec.md`).
- `single_use`: a process dies after the action and before the save; the
  consumption is undone with its transaction and the retry acts on the same
  approval, which should be single-use (the same document).
- `chosen_action`: a choice beyond the budget is answered by another action
  (`openspec/specs/operator-console/spec.md`).
- `approval_resumes`: after the approval it waited for, a paused session stays
  paused (`docs/OPERATOR-AND-RUN-MODES.md`; the console advances right after
  approving). This run allows no text value, hence no resolution, which would
  move the session.
- `stream_delivers`: events are built from the stored session, before the call
  that publishes them is saved; an operator who stays subscribed is never told of
  the pause (`openspec/specs/human-in-the-loop/spec.md`, which calls the stream a
  channel for escalations and checkpoints).

One more divergence needs no run, as it stands in a guard: only manual mode pauses
for the review of an orientation (`MustReview`), where
`openspec/specs/human-in-the-loop/spec.md` excepts no mode. And a request that
moves a session at its velocity checkpoint straight to Decide passes it by, which
`CheckpointsHold` excepts.

**Fairness.** `FairSpec` is weak fairness of `RunStep` alone: a client calls
`step` or `advance` again and again, as `run_full_stub`, `run_until_pause` and
the console do. Nothing obliges an operator, a sensor or a model to act, so no
other action is fair. It serves `StubRunsEnd`, which excepts observations that
IG&C matches, because that path neither looks at the budget nor, with the
committed rule, completes, and `ApprovalResumes`, which fails even so.
`AttentiveSpec`, for `PendingIsShown`, makes the operator's reopening of the
stream fair: every button of the console ends in `refresh()`, which opens it
again. The server owes nothing there. `WaitingSpec`, for `PendingIsStreamed`,
grants more than the code needs to fail it: a client that keeps stepping, a
server that finishes and saves its calls, a bus that subscribes and delivers.

## What is proved

For every set of keys, values, names, tokens and fixtures, every mode, budget
and loop bound that satisfies the named assumptions, TLAPS checks:

- `TypeCorrect`, `EveryApprovalAccounted`, `RuntimeImplementsLedger`, `OnlyManualModeSpends`, `CompletionIsFinal`
  (`RuntimeProofs`);
- `HumanFactsAlwaysPrevail` and `ProtectedBeliefsStand`, for manual and live mode
  (`BeliefProofs`);
- `FreshCyclesAreFunded`, `CheckpointsAlwaysHold`,
  `IrreversibleActionsWereChosen`, `RequestsStayOpen`, `NoChoiceDisappears` and, for manual mode
  without IG&C, `EveryActionWasChosen` (`GuardProofs`);
- `OverlappingCallsKeepTheLedger`, for every deployment but SQLite files shared by
  processes (`CallsProofs`);
- `CallsTypeCorrect`, `NothingIsRecordedUndone`, `RecordedActionsAreBacked`,
  `HeldTokensAreIssued`, `ApprovalsServeTheChosen`, `OverlapLeavesRequestsOpen` and,
  for manual and live mode, `OverlapKeepsHumanFacts`, in every deployment
  (`CopyProofs`);
- `CrashesAloneLoseEntries`, `TableIsATranscript`, `ServiceTypeCorrect`,
  `CrashesLeaveRequestsOpen` and, for manual and live mode,
  `CrashesKeepHumanFacts` (`ServiceProofs`);
- `OrientKeepsResolutions` (`WorldModelProofs`), the step that
  `HumanFactsAlwaysPrevail` rests on;
- `TheGateDecides` (`RiskGateProofs`): for any orientation, candidates, token and
  choice, `decide_with_risk` comes to exactly one decision, and an action it
  passes is one of the candidates, within the orientation's budget, above the
  confidence floor and, if irreversible, with a token.

The assumptions say that constants have their types, that `None` is none of the
values it stands in for, that a fixture's token is never one `approve` issues,
and that `Names` holds the literals in the code; TLC evaluates them on every run.

The argument. A call takes one of many paths, but to the ledger it can do only
three things: leave it alone and keep the session's token (`Kept`), issue a
fresh token that the session then holds (`Grants`), or consume the row of the
session's token for one action and clear it (`Spends`, in manual mode only).
The lemmas named `...Outcome` establish this bottom-up, from `Execute` through
`Settle` and `Decide` to `NextOutcome`, together with type correctness;
`RiskGateProofs` supplies that a decision handed to Act is well-formed and
carries the token it was asked with. `ApprovalsAccounted` alone is not
inductive: that consuming a row makes `spent` larger needs it to be absent from
`spent`, which rests on the freshness of `secrets.token_hex` that `Fresh`
assumes, on the unique rows that follow, and on the finiteness of `spent`;
`LedgerInv` conjoins them. `HumanFactsPrevail` needs to
know that an orientation always comes with an observation, because a resolution
re-orients only then; `Grounded` adds it.

`ProtectedBeliefsStand` follows one signal: if it contradicts a belief
held above 0.8, detection makes a high contradiction of it, and then nothing is
merged (`OrientRespects`). What the last signal on a key is needs an
induction over lengths; it is obtained from the well-foundedness of the naturals
instead.

`GuardProofs` first reduces a step that acts to three paths (`HowToAct`), then
reads off each what it rests on: the orientation's budget (which on a cycle that
starts at Observe is the session's), the checkpoint test, the choice.
`IrreversibleActionsWereChosen` needs that the fallback is never the irreversible
candidate: that is the dearest of the three, so when it is viable so is
whatever was chosen (`IrreversibleIsNoFallback`). `RequestsStayOpen` is inductive as
it stands; its one hard case is a choice that is used up while a request is on
display, which would have to be the request that very choice has met. `NoChoiceDisappears`
says where a choice may go: Decide drops it when it has read it, and what
follows is an action, a refusal, or a request that was pending and takes
precedence.

`OverlappingCallsKeepTheLedger` rests on `ClaimsHold`: the row a call has read is
held by no other call and is unconsumed until the call updates it; the row lock,
or the one event loop, keeps the claims apart. The calls that have updated a row
and not committed it are `Debtors`. What the ledger counts as executed
(`Counted`) is the actions less the forgotten ones and those of debtors, and each
step either leaves that and the rows alone, or settles one debt by consuming one
row (`SettlingConsumes`); a death moves its debtors to the forgotten (`DieRefines`).

`TableIsATranscript` and `CrashesAloneLoseEntries` rest on two facts about each
stage of a call. What is still to be inserted is an end of the session's list, in
order, of at most three entries, and every entry before it is in the table or a
gap; the largest entry in the table bounds what it can miss. So an insertion is
news to the table or repeats one of the last three, and a gap older than these is
never filled behind newer rows. `StepLogsFew` keeps a call from logging more than
three.

The operators of `RiskGate` return sets, so an operator that came out empty would
silently take away a step and with it whatever that step could break.
`TheGateDecides` and the lemmas beside it (`BestIsOne`, `NamedIsOne`,
`TheStubDecides`, `OneRuleMatches`) rule this out, and show that the sets hold one
member wherever the code computes one value. The maximum over the viable candidates
exists by the least prefix of the list without one.

`Calls` and `Service` work on copies of the session, so what is proved of one
call taken whole (`CallOutcome`) has to be said of a copy. A proof cannot be
instantiated, but a theorem can: `One`, `Two` and `Worked` are instances of
`GuardProofs` with the substitutions of `First`, `Second` and `Memory`. The
lemmas `FirstIsOne`, `SecondIsTwo` and `MemoryIsWorked` unfold both sides to the
same formula, and `OneAssumptions` and its like discharge the assumptions the
instantiated theorems carry. `FirstOutcome`, `SecondOutcome` and `MemoryOutcome`
are what comes of it: a copy that was `Coherent` (a well-formed session whose
request is open and whose orientation respects the operator) still is, and a
call has kept, gained or used an approval in what it sees of the rows.

For two calls four invariants follow. `CopiesInv` says that every session held
or stored is coherent and that only a call past its SELECT has a claim.
`RecordedWasExecuted` is not inductive: a copy counts an action when it claims the
approval, one step before the action is carried out, and any copy may be the next
session on record. `ExecutedInv` bounds each copy by the actions carried out and
the one it still owes. `IssuedInv` asks of each copy what `HeldIsIssued` asks of
the session on record; rows are never deleted (`RowsStay`). `BackedInv` bounds
each copy's count by the rows consumed together with its own claim: a claim adds
a row that is not among them, a commit by anybody only moves rows into them, and
a copy is stored together with what its call has pending. None of the four looks
at what the other call does with the same session, so the row lock plays no part
in them; it is needed for the ledger alone.

For one server under crashes, `SessionsInv` says that the session on record and
the copy are both coherent and are the same unless a call is at work. So wherever
a crash strikes, the store holds a session some whole call left behind.
`StreamTypeOK` is inductive together with it: an event describes the session on
record, and `PutType` shows that the bus keeps its bound whatever is published.

**Only model-checked.** `StubRunsEnd` and `PendingIsShown` are liveness, out of TLAPS' reach. Every invariant and every action property that a
passing run checks is also a theorem, under the hypotheses on the mode named
above. The violated properties are, of course, not theorems.

## Not modelled

- Correlation ids: nothing in the repository reads them back.
- HTTP transports, the client and the prompts of the language model, the MCP
  wire format: I/O whose content is arbitrary to the runtime. What a call may
  receive, and that it may raise, is modelled.
- The console's markup and rendering, health, audit and static routes: they only
  read.
- Configuration parsing: mode, IG&C switch and store are constants.
- Several sessions, and more than one browser per session: sessions share no
  state but the tables, in which every row names its session, and each
  subscriber has a queue of its own.
- A bus per process: a step run by the CLI publishes to nobody. `EscalationStream`
  has one process.
- More than two calls at once. Every claim in `Calls` is about one call and what
  another one can do between two of its steps.
