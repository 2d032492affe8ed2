------------------------------- MODULE Webhooks -------------------------------
(***************************************************************************)
(* internal/webhook: the event log delivered to subscribers.  A tailer     *)
(* reads the events table from a cursor kept in the meta table and inserts *)
(* one row per event and interested subscription in the outbox; a second   *)
(* goroutine posts the rows that are due and records the answers; a third  *)
(* purges settled rows.  Meanwhile every component records events,         *)
(* maintenance of the sender drops the oldest ones, and administrators     *)
(* create, change and delete subscriptions.  Any statement may fail, all   *)
(* of them do once the context is canceled, and the process may end        *)
(* between any two.                                                        *)
(***************************************************************************)
EXTENDS Integers, Sequences, FiniteSets

CONSTANTS Hook,         \* subscriptions
          EventType,    \* types of events
          Batch,        \* tailBatch: events read at a time
          DeliverBatch, \* deliverBatch: rows taken at a time
          Workers,      \* webhooks.workers
          MaxAttempts,  \* webhooks.max_attempts
          Keep,         \* events PurgeEvents keeps (50000 in the code)
          MaxEvents,    \* bound: events recorded
          MaxRows,      \* bound: rows inserted in the outbox
          MaxRequests,  \* bound: requests of administrators
          MaxFaults,    \* bound: database errors injected
          MaxStops      \* bound: times the process ends

ASSUME WebhooksAssumption ==
  /\ Batch \in Nat \ {0} /\ DeliverBatch \in Nat \ {0} /\ Workers \in Nat \ {0}
  /\ MaxAttempts \in Nat \ {0} /\ Keep \in Nat \ {0}
  /\ MaxEvents \in Nat /\ MaxRows \in Nat /\ MaxRequests \in Nat
  /\ MaxFaults \in Nat /\ MaxStops \in Nat

VARIABLES
  types,    \* the events recorded so far, oldest first; the id is the index
  floor,    \* the events up to this id are purged
  hooks,    \* [Hook -> HookRow]: the webhooks table
  saved,    \* meta row webhook.cursor, None before the first run
  outbox,   \* [Row -> Delivery]: the webhook_deliveries table
  rows,     \* rows inserted so far (AUTOINCREMENT)
  tail,     \* where the tailer is
  cursor,   \* the tailer's position
  read,     \* the events the tailer has read
  todo,     \* the <<event, subscription>> pairs it has still to insert
  work,     \* where the delivery loop is
  job,      \* [Row -> where the worker of the row is]
  ctx,      \* the context of the process
  requests, faults, stops,
  first,    \* history: the cursor of the first run
  touched,  \* history: subscriptions an administrator changed
  overrun,  \* history: events purged before the tailer was past them
  again,    \* history: events the tailer read and did not finish with
  posts,    \* history: [Row -> requests sent], capped at MaxAttempts + 1
  unsure    \* history: rows with a request whose end was not recorded

logVars  == <<types, floor>>
boxVars  == <<outbox, rows>>
tailVars == <<tail, cursor, read, todo, first, again>>
workVars == <<work, job, posts, unsure>>
procVars == <<ctx, stops>>
vars == <<logVars, hooks, saved, boxVars, tailVars, workVars, procVars,
          requests, faults, touched, overrun>>

None == -1
Row  == 1..MaxRows
Event == 1..MaxEvents

HookRow == [exists : BOOLEAN, enabled : BOOLEAN, events : SUBSET EventType]

\* Why a row was given up on, and the job that is about to write it
Reason == {"gone", "disabled", "refused", "spent"}

Delivery == [hook : Hook \cup {None}, event : 0..MaxEvents,
             status : {"none", "pending", "delivered", "failed", "purged"},
             tries : 0..MaxAttempts, due : BOOLEAN, why : Reason \cup {"none"}]

TailAt == {"down", "start", "head", "mark", "idle", "list", "fanout", "save", "dead"}
Job  == {"none", "taken", "post", "done", "again"} \cup Reason

\* No row yet
NoDelivery == [hook |-> None, event |-> 0, status |-> "none",
               tries |-> 0, due |-> FALSE, why |-> "none"]

TypeOK ==
  /\ types \in Seq(EventType) /\ Len(types) <= MaxEvents
  /\ floor \in 0..MaxEvents
  /\ hooks \in [Hook -> HookRow]
  /\ saved \in {None} \cup (0..MaxEvents)
  /\ outbox \in [Row -> Delivery] /\ rows \in 0..MaxRows
  /\ tail \in TailAt /\ cursor \in 0..MaxEvents
  /\ read \subseteq Event /\ todo \subseteq Event \X Hook
  /\ work \in {"down", "idle", "busy"} /\ job \in [Row -> Job]
  /\ ctx \in {"live", "done"}
  /\ requests \in 0..MaxRequests /\ faults \in 0..MaxFaults /\ stops \in 0..MaxStops
  /\ first \in 0..MaxEvents /\ touched \subseteq Hook
  /\ overrun \subseteq Event /\ again \subseteq Event
  /\ posts \in [Row -> 0..MaxAttempts + 1] /\ unsure \subseteq Row

\* Some subscriptions made while the dispatcher was off, an empty log, no cursor
Init ==
  /\ types = <<>> /\ floor = 0
  /\ hooks \in [Hook -> {r \in HookRow : r.enabled /\ (r.exists \/ r.events = {})}]
  /\ saved = None
  /\ outbox = [r \in Row |-> NoDelivery]
  /\ rows = 0
  /\ tail = "down" /\ cursor = 0 /\ read = {} /\ todo = {}
  /\ work = "down" /\ job = [r \in Row |-> "none"]
  /\ ctx = "live" /\ requests = 0 /\ faults = 0 /\ stops = 0
  /\ first = 0 /\ touched = {} /\ overrun = {} /\ again = {}
  /\ posts = [r \in Row |-> 0] /\ unsure = {}

-----------------------------------------------------------------------------
(* A statement succeeds, or fails and changes nothing.                     *)

Succeeds == ctx = "live" /\ UNCHANGED faults
Fails == IF ctx = "done" THEN UNCHANGED faults
                         ELSE faults < MaxFaults /\ faults' = faults + 1

Running == tail # "down"

-----------------------------------------------------------------------------
(* The event log and the subscriptions.                                    *)

\* RecordEvent, by any component
RecordEvent(t) ==
  /\ Running /\ Len(types) < MaxEvents
  /\ types' = Append(types, t)
  /\ UNCHANGED <<floor, hooks, saved, boxVars, tailVars, workVars, procVars,
                 requests, faults, touched, overrun>>

\* PurgeEvents, by maintenance of the sender
PurgeEvents ==
  /\ Running /\ ctx = "live" /\ Len(types) - Keep > floor
  /\ floor' = Len(types) - Keep
  /\ overrun' = overrun \cup {e \in Event : e <= floor' /\ e > saved}
  /\ UNCHANGED <<types, hooks, saved, boxVars, tailVars, workVars, procVars,
                 requests, faults, touched>>

\* A request; the event it is audited with afterwards, in a statement of its own
\* that may fail, is one of those of RecordEvent
Request(h) ==
  /\ Running /\ requests < MaxRequests
  /\ requests' = requests + 1
  /\ touched' = touched \cup {h}
  /\ UNCHANGED <<logVars, saved, rows, tailVars, workVars, procVars, faults, overrun>>

\* POST /webhooks; an id is used once
CreateWebhook(h, enabled, F) ==
  /\ h \notin touched /\ ~hooks[h].exists
  /\ Request(h)
  /\ hooks' = [hooks EXCEPT ![h] = [exists |-> TRUE, enabled |-> enabled, events |-> F]]
  /\ UNCHANGED outbox

\* PATCH /webhooks/:id
UpdateWebhook(h, enabled, F) ==
  /\ Request(h)
  /\ hooks[h].exists
  /\ hooks' = [hooks EXCEPT ![h].enabled = enabled, ![h].events = F]
  /\ UNCHANGED outbox

\* DELETE /webhooks/:id, with its deliveries by cascade
DeleteWebhook(h) ==
  /\ Request(h)
  /\ hooks[h].exists
  /\ hooks' = [hooks EXCEPT ![h].exists = FALSE]
  /\ outbox' = [r \in Row |-> IF outbox[r].hook = h /\ outbox[r].status # "none"
                              THEN [outbox[r] EXCEPT !.status = "purged"] ELSE outbox[r]]

Wants(h, t) == /\ hooks[h].exists /\ hooks[h].enabled
               /\ hooks[h].events = {} \/ t \in hooks[h].events

-----------------------------------------------------------------------------
(* The tailer.                                                             *)

TailRest == UNCHANGED <<logVars, hooks, workVars, procVars, requests, touched, overrun>>

\* startCursor: resume where the last run stopped ...
StartCursor ==
  /\ tail = "start"
  /\ \/ /\ Succeeds /\ saved # None
        /\ cursor' = saved /\ tail' = "idle"
     \/ /\ Succeeds /\ saved = None
        /\ tail' = "head" /\ UNCHANGED cursor
     \/ Fails /\ tail' = "dead" /\ UNCHANGED cursor
  /\ UNCHANGED <<saved, boxVars, read, todo, first, again>> /\ TailRest

\* ... or at the head of the log, the first time ...
StartHead ==
  /\ tail = "head"
  /\ \/ Succeeds /\ cursor' = Len(types) /\ tail' = "mark"
     \/ Fails /\ tail' = "dead" /\ UNCHANGED cursor
  /\ UNCHANGED <<saved, boxVars, read, todo, first, again>> /\ TailRest

\* ... which is recorded; any error and the tailer is never started
StartMark ==
  /\ tail = "mark"
  /\ \/ Succeeds /\ saved' = cursor /\ first' = cursor /\ tail' = "idle"
     \/ Fails /\ tail' = "dead" /\ UNCHANGED <<saved, first>>
  /\ UNCHANGED <<boxVars, cursor, read, todo, again>> /\ TailRest

\* Mutant: EventsSince from one past the cursor
SinceNext == {e \in Event : e <= Len(types) /\ e > floor /\ e > cursor + 1}

\* drain at every tick: EventsSince(cursor, Batch), the oldest first; a read that
\* finds nothing, or fails, changes nothing
Since == {e \in Event : e <= Len(types) /\ e > floor /\ e > cursor}

Oldest(S) == {e \in S : Cardinality({f \in S : f < e}) < Batch}

Drain ==
  /\ tail = "idle" /\ Succeeds
  /\ read' = Oldest(Since)
  /\ tail' = IF Since = {} THEN "idle" ELSE "list"
  /\ UNCHANGED <<saved, boxVars, cursor, todo, first, again>> /\ TailRest

\* What the events read mean to the subscriptions of this moment
TailPairs == {p \in read \X Hook : Wants(p[2], types[p[1]])}

\* An error ends the round; the cursor stays where it was
GiveUp == tail' = "idle" /\ read' = {} /\ todo' = {}

\* ListWebhooks
DrainList ==
  /\ tail = "list"
  /\ \/ /\ Succeeds
        /\ todo' = TailPairs /\ tail' = "fanout" /\ UNCHANGED read
     \/ Fails /\ GiveUp
  /\ UNCHANGED <<saved, boxVars, cursor, first, again>> /\ TailRest

\* Mutant: a failed insertion is skipped
EnqueueSkips(p) == todo' = todo \ {p} /\ UNCHANGED <<tail, read, again>>

\* An insertion fails: the round ends, what was inserted stays
EnqueueFails(p) == GiveUp /\ again' = again \cup read

\* EnqueueDelivery for the next pair, events in order; it fails when the
\* subscription was deleted since it was listed
EnqueueDelivery(p) ==
  /\ tail = "fanout" /\ p \in todo /\ \A q \in todo : p[1] <= q[1]
  /\ rows < MaxRows
  /\ \/ /\ Succeeds /\ hooks[p[2]].exists
        /\ rows' = rows + 1
        /\ outbox' = [outbox EXCEPT ![rows + 1] =
                        [hook |-> p[2], event |-> p[1], status |-> "pending",
                         tries |-> 0, due |-> TRUE, why |-> "none"]]
        /\ todo' = todo \ {p} /\ UNCHANGED <<tail, read, again>>
     \/ /\ (Succeeds /\ ~hooks[p[2]].exists) \/ Fails
        /\ EnqueueFails(p) /\ UNCHANGED boxVars
  /\ UNCHANGED <<saved, cursor, first>> /\ TailRest

DrainDone ==
  /\ tail = "fanout" /\ todo = {}
  /\ tail' = "save"
  /\ UNCHANGED <<saved, boxVars, cursor, read, todo, first, again, faults>> /\ TailRest

\* Mutant: the cursor is set at the first event of the batch
IsLastFirst(e) == e \in read /\ \A f \in read : f >= e

IsLast(e) == e \in read /\ \A f \in read : f <= e

\* SetMetaInt; if it fails the same events are read again
DrainSave ==
  /\ tail = "save"
  /\ \/ /\ Succeeds /\ UNCHANGED again
        /\ \E e \in read : IsLast(e) /\ saved' = e /\ cursor' = e
     \/ Fails /\ again' = again \cup read /\ UNCHANGED <<saved, cursor>>
  /\ GiveUp
  /\ UNCHANGED <<boxVars, first>> /\ TailRest

-----------------------------------------------------------------------------
(* The delivery loop.                                                      *)

WorkRest == UNCHANGED <<logVars, hooks, saved, rows, tailVars, procVars, requests,
                        touched, overrun>>

Due == {r \in Row : outbox[r].status = "pending" /\ outbox[r].due}

\* DueDeliveries at every tick; the same holds of this read
DeliverDue ==
  /\ work = "idle" /\ Succeeds
  /\ \E S \in SUBSET Due :
       /\ IF Cardinality(Due) <= DeliverBatch THEN S = Due
                                              ELSE Cardinality(S) = DeliverBatch
       /\ job' = [r \in Row |-> IF r \in S THEN "taken" ELSE "none"]
  /\ work' = IF Due = {} THEN "idle" ELSE "busy"
  /\ UNCHANGED <<outbox, posts, unsure>> /\ WorkRest

\* wg.Wait returns
DeliverDone ==
  /\ work = "busy" /\ \A r \in Row : job[r] = "none"
  /\ work' = "idle"
  /\ UNCHANGED <<outbox, job, posts, unsure, faults>> /\ WorkRest

\* A row no worker was given before the context was canceled
Skip(r) ==
  /\ job[r] = "taken" /\ ctx = "done"
  /\ job' = [job EXCEPT ![r] = "none"]
  /\ UNCHANGED <<work, outbox, posts, unsure, faults>> /\ WorkRest

\* attempt: any error of the lookup counts as a missing subscription
Lookup(r) ==
  /\ job[r] = "taken"
  /\ Cardinality({s \in Row : job[s] \notin {"none", "taken"}}) < Workers
  /\ LET h == outbox[r].hook
     IN \/ /\ Succeeds
           /\ job' = [job EXCEPT ![r] = IF ~hooks[h].exists THEN "gone"
                                        ELSE IF ~hooks[h].enabled THEN "disabled" ELSE "post"]
        \/ Fails /\ job' = [job EXCEPT ![r] = "gone"]
  /\ UNCHANGED <<work, outbox, posts, unsure>> /\ WorkRest

\* Mutant: the attempt under way is counted twice
AfterErrorEarly(r, retryable) ==
  IF ~retryable THEN "refused"
  ELSE IF outbox[r].tries + 2 >= MaxAttempts THEN "spent" ELSE "again"

\* A refusal for good (4xx but 408 and 429), the last attempt, or a retry
AfterError(r, retryable) ==
  IF ~retryable THEN "refused"
  ELSE IF outbox[r].tries + 1 >= MaxAttempts THEN "spent" ELSE "again"

\* post: the endpoint answers 2xx, an error for good (a signing secret that cannot
\* be read counts as one), or one to be retried (no answer at all included)
Post(r, answer) ==
  /\ job[r] = "post"
  /\ posts' = [posts EXCEPT ![r] = IF @ <= MaxAttempts THEN @ + 1 ELSE @]
  /\ job' = [job EXCEPT ![r] = IF answer = "ok" THEN "done"
                               ELSE AfterError(r, answer = "retry")]
  /\ UNCHANGED <<work, outbox, unsure, faults>> /\ WorkRest

\* MarkDeliverySucceeded, RescheduleDelivery or MarkDeliveryFailed: the columns
\* of the row, if it is still there
Settle(d, j) ==
  CASE j = "done"  -> [d EXCEPT !.status = "delivered", !.tries = d.tries + 1]
    [] j = "again" -> [d EXCEPT !.due = FALSE, !.tries = d.tries + 1]
    [] OTHER       -> [d EXCEPT !.status = "failed", !.tries = d.tries + 1, !.why = j]

\* An error is only logged: the row stays pending and due
Write(r) ==
  /\ job[r] \in {"done", "again"} \cup Reason
  /\ \/ /\ Succeeds
        /\ outbox' = [outbox EXCEPT ![r] = IF @.status = "purged" THEN @ ELSE Settle(@, job[r])]
        /\ UNCHANGED unsure
     \/ Fails /\ UNCHANGED outbox /\ unsure' = unsure \cup {r}
  /\ job' = [job EXCEPT ![r] = "none"]
  /\ UNCHANGED <<work, posts>> /\ WorkRest

\* next_attempt_at passes
BackoffElapses(r) ==
  /\ outbox[r].status = "pending" /\ ~outbox[r].due
  /\ outbox' = [outbox EXCEPT ![r].due = TRUE]
  /\ UNCHANGED <<workVars, faults>> /\ WorkRest

\* PurgeDeliveries: settled rows older than the retention
PurgeDeliveries(r) ==
  /\ Running /\ ctx = "live" /\ outbox[r].status \in {"delivered", "failed"}
  /\ outbox' = [outbox EXCEPT ![r].status = "purged"]
  /\ UNCHANGED <<workVars, faults>> /\ WorkRest

-----------------------------------------------------------------------------
(* The process.                                                            *)

Start ==
  /\ tail = "down" /\ work = "down"
  /\ tail' = "start" /\ work' = "idle" /\ ctx' = "live"
  /\ UNCHANGED <<logVars, hooks, saved, boxVars, cursor, read, todo, first, again,
                 job, posts, unsure, stops, requests, faults, touched, overrun>>

Signal ==
  /\ Running /\ ctx = "live" /\ stops < MaxStops
  /\ ctx' = "done"
  /\ UNCHANGED <<logVars, hooks, saved, boxVars, tailVars, workVars, stops,
                 requests, faults, touched, overrun>>

\* The process ends, whatever its goroutines were doing
Stop ==
  /\ Running /\ stops < MaxStops
  /\ stops' = stops + 1
  /\ tail' = "down" /\ read' = {} /\ todo' = {} /\ cursor' = 0
  /\ work' = "down" /\ job' = [r \in Row |-> "none"] /\ ctx' = "live"
  /\ again' = again \cup read
  /\ unsure' = unsure \cup {r \in Row : job[r] \notin {"none", "taken"}}
  /\ UNCHANGED <<logVars, hooks, saved, boxVars, first, posts, requests, faults,
                 touched, overrun>>

Tailer == \/ StartCursor \/ StartHead \/ StartMark
          \/ Drain \/ DrainList \/ (\E p \in todo : EnqueueDelivery(p)) \/ DrainDone \/ DrainSave

Worker(r) == \/ Skip(r) \/ Lookup(r) \/ Write(r)
             \/ \E answer \in {"ok", "no", "retry"} : Post(r, answer)

Administrator ==
  \E h \in Hook :
    \/ \E enabled \in BOOLEAN, F \in SUBSET EventType :
         CreateWebhook(h, enabled, F) \/ UpdateWebhook(h, enabled, F)
    \/ DeleteWebhook(h)

LogNext == (\E t \in EventType : RecordEvent(t)) \/ PurgeEvents \/ Administrator \/ Tailer

Deliver == \/ DeliverDue \/ DeliverDone
           \/ \E r \in Row : Worker(r) \/ BackoffElapses(r) \/ PurgeDeliveries(r)

Process == Start \/ Signal \/ Stop

Next == LogNext \/ Deliver \/ Process

Spec == Init /\ [][Next]_vars

\* What is fair: goroutines are scheduled, tickers keep firing, times pass, a
\* process told to end does and is started again.  Nothing is assumed of the
\* endpoints.
Delivers == DeliverDue \/ DeliverDone
Restarts == Start \/ (ctx = "done" /\ Stop)

-----------------------------------------------------------------------------
(* Properties.                                                             *)

Queued(h, e) == \E r \in Row : /\ outbox[r].status # "none"
                               /\ outbox[r].hook = h /\ outbox[r].event = e

\* "an event recorded while it was down is still delivered" (CHANGELOG.md): an
\* event that a subscription nobody changed wants has its row, or is still in
\* the log beyond the saved cursor, unless PurgeEvents outran the tailer; no
\* failed statement, restart or deletion of another subscription skips one.
NoEventMissed ==
  \A h \in Hook \ touched : \A e \in 1..Len(types) :
    Wants(h, types[e]) /\ saved # None /\ e > first
      => Queued(h, e) \/ e > saved \/ e \in overrun

\* The outbox repeats nothing and follows the log: of two rows for a subscription
\* the later one is for a later event, unless that event was read in a round of
\* drain that did not save its cursor.
OutboxInOrder ==
  \A q, r \in Row :
    /\ q < r /\ outbox[q].hook = outbox[r].hook
    /\ outbox[q].status # "none" /\ outbox[r].status # "none"
    => outbox[q].event < outbox[r].event \/ outbox[r].event \in again

\* "a bounded attempt count" (CHANGELOG.md): a row is posted at most MaxAttempts
\* times, and given up as spent only after as many, unless the end of a request
\* could not be recorded.
AttemptsAreCounted ==
  \A r \in Row \ unsure :
    /\ posts[r] <= MaxAttempts
    /\ outbox[r].why = "spent" => posts[r] = MaxAttempts

\* Every row is settled in the end, whatever the endpoint answers and across a
\* restart.
DeliveriesSettle ==
  \A r \in Row : outbox[r].status = "pending" ~> outbox[r].status # "pending"

\* The tailer gets past every event, unless it could not establish where to start.
TailerCatchesUp ==
  \A e \in Event : e <= Len(types) ~> saved >= e \/ tail = "dead"

-----------------------------------------------------------------------------
(* Why the cursor is safe: the inductive invariant of WebhookProofs.       *)

\* Positions are in the log, and what was purged beyond the cursor is known.
PositionInv ==
  /\ saved <= Len(types) /\ cursor <= Len(types) /\ floor <= Len(types)
  /\ \A e \in Event : e <= floor /\ e > saved => e \in overrun
  /\ tail \in {"head", "mark"} => saved = None
  /\ tail \in {"idle", "list", "fanout", "save"} => cursor = saved /\ saved # None

Holding == tail \in {"list", "fanout", "save"}

\* A round of drain has read everything from the cursor to its last event, unless
\* it was purged.
RoundInv ==
  Holding => /\ \A e \in read : e > saved /\ e <= Len(types)
             /\ \A e \in Event, f \in read :
                  e > saved /\ e <= f => e \in read \/ e \in overrun

\* What the round read is in the outbox or is still to be inserted.
PairsInv ==
  /\ tail \in {"fanout", "save"} =>
       \A h \in Hook \ touched : \A e \in read :
         Wants(h, types[e]) => Queued(h, e) \/ <<e, h>> \in todo
  /\ tail = "save" => todo = {}

\* Whatever drain has in hand it read beyond the saved cursor without a gap, and
\* what it is not to insert any more is in the outbox; so saving the cursor after
\* the insertions (internal/webhook/webhook.go) skips nothing.
CursorInv == PositionInv /\ RoundInv /\ PairsInv

-----------------------------------------------------------------------------
(* Why attempts are counted right: the inductive invariant for that.       *)

Sent == {"done", "again", "refused", "spent"}
Unsent == {"taken", "post", "gone", "disabled"}

\* Between the requests of a row and its attempts column there is the request of
\* the worker that has it, and no other: nobody else writes the column, no two
\* workers have the row, and a worker that is to reschedule it may do so.
AttemptInv ==
  /\ work # "busy" => \A r \in Row : job[r] = "none"
  /\ \A r \in Row :
       /\ r > rows => outbox[r] = NoDelivery /\ job[r] = "none" /\ posts[r] = 0
       /\ job[r] # "none" => outbox[r].status \in {"pending", "purged"}
       /\ outbox[r].status = "pending" \/ job[r] # "none"
            => outbox[r].tries < MaxAttempts /\ outbox[r].why = "none"
       /\ job[r] = "again" => outbox[r].tries + 1 < MaxAttempts
       /\ job[r] = "spent" => outbox[r].tries + 1 = MaxAttempts
  /\ \A r \in Row \ unsure :
       /\ job[r] \in Sent => posts[r] = outbox[r].tries + 1
       /\ job[r] \in Unsent \/ (job[r] = "none" /\ outbox[r].status = "pending")
            => posts[r] = outbox[r].tries
       /\ posts[r] <= MaxAttempts
       /\ outbox[r].why = "spent" => posts[r] = MaxAttempts

-----------------------------------------------------------------------------
(* Why the outbox follows the log: the inductive invariant for that.       *)

\* A row is for an event the cursor is past, one that is read again, or one of
\* the round under way.
PlaceInv ==
  \A r \in Row : outbox[r].status # "none" =>
    \/ outbox[r].event <= saved \/ outbox[r].event \in again
    \/ tail \in {"fanout", "save"} /\ outbox[r].event \in read

\* Rounds start at the cursor: what is read again, or in hand, has nothing before
\* it that could be read for the first time later.
AgainInv ==
  /\ \A e \in again, f \in Event : saved < f /\ f <= e => f \in again \/ f <= floor
  /\ ~Holding => read = {}
  /\ Holding => /\ \A e \in read : saved < e
                /\ \A e \in read, f \in Event : saved < f /\ f <= e => f \in read \/ f <= floor
                /\ \A e \in again, f \in read : f <= e => f \in again

\* What is still to be inserted comes after what its subscription has.
TodoInv ==
  /\ tail # "fanout" => todo = {}
  /\ \A p \in todo :
       /\ p[1] \in read
       /\ \A r \in Row : outbox[r].status # "none" /\ outbox[r].hook = p[2]
                           => outbox[r].event < p[1] \/ p[1] \in again

OrderInv == OutboxInOrder /\ PlaceInv /\ AgainInv /\ TodoInv
=============================================================================
