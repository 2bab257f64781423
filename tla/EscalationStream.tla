-------------------------- MODULE EscalationStream --------------------------
(***************************************************************************)
(* What an operator's browser is told of a session: the escalation bus     *)
(* (src/schwerpunkt/api/events.py), the events route of                    *)
(* src/schwerpunkt/api/app.py and the payload SessionManager builds, for   *)
(* one viewer.                                                             *)
(*                                                                         *)
(* An event is what the console shows of it: the pending request and the   *)
(* last escalation.  The payload is always built from the STORED session.  *)
(* Correlation ids, which nothing reads back, are left out.                *)
(***************************************************************************)
EXTENDS Runtime

CONSTANT Capacity   \* asyncio.Queue(maxsize=32)

ASSUME StreamAssumption == Capacity \in Nat

VARIABLES
  viewer,           \* "away", "greeted" (sent the snapshot) or "streaming"
  queue,            \* the events the bus holds for the viewer
  shown             \* the last event the viewer was sent

stream == <<viewer, queue, shown>>

Event == [pending : Requests \cup {None}, escalation : Reasons \cup {None}]
Blank == [pending |-> None, escalation |-> None]

StreamTypeOK ==
  /\ viewer \in {"away", "greeted", "streaming"}
  /\ queue \in Seq(Event) /\ Len(queue) <= Capacity
  /\ viewer # "streaming" => queue = <<>>
  /\ shown \in Event

StreamInit == viewer = "away" /\ queue = <<>> /\ shown = Blank

\* Fault: only escalations are described.
DescribeEscalation(s) == [Blank EXCEPT !.escalation = s.escalation]

\* build_escalation_payload; Blank when there is nothing to tell.
Describe(s) == [pending |-> s.pending, escalation |-> s.escalation]

\* Fault: the queue has no bound.
PutAll(events, event, n) == events \o [i \in 1..n |-> event]

\* put_nowait, n times: what does not fit is dropped.
Put(events, event, n) ==
  LET all == events \o [i \in 1..n |-> event]
  IN  SubSeq(all, 1, Lesser(Len(all), Capacity))

\* A call publishes n times while the stored session is still the old one.
Publish(n) ==
  /\ queue' = IF viewer = "streaming" /\ Describe(session) # Blank
              THEN Put(queue, Describe(session), n) ELSE queue
  /\ UNCHANGED <<viewer, shown>>

\* The browser (re)opens the stream: it is sent a snapshot of what the stored
\* session waits for, or is subscribed at once when that is nothing.
Open ==
  /\ queue' = <<>>
  /\ IF Describe(session) = Blank
     THEN viewer' = "streaming" /\ UNCHANGED shown
     ELSE viewer' = "greeted" /\ shown' = Describe(session)

\* The bus learns of the viewer only after the snapshot was sent.
Subscribe ==
  /\ viewer = "greeted"
  /\ viewer' = "streaming"
  /\ UNCHANGED <<queue, shown>>

Read ==
  /\ queue # <<>>
  /\ shown' = Head(queue)
  /\ queue' = Tail(queue)
  /\ UNCHANGED viewer

\* The browser leaves, or the server does: the subscription is dropped.
HangUp ==
  /\ viewer # "away"
  /\ viewer' = "away"
  /\ queue' = <<>>
  /\ UNCHANGED shown

---------------------------------------------------------------------------
\* A viewer who reopens the stream now and then ends up looking at what the
\* session waits for: nothing stale is left in a queue to come up later.
PendingIsShown ==
  \A request \in Requests :
    <>[](session.pending = request) => <>[](shown.pending = request)

\* human-in-the-loop/spec.md: the event stream is a channel "for operator
\* escalations and checkpoints"; a viewer who stays connected is told what the
\* session waits for.
PendingIsStreamed ==
  \A request \in Requests :
    (session.pending = request /\ viewer = "streaming")
      ~> (session.pending # request \/ shown.pending = request
          \/ viewer # "streaming")
=============================================================================
