----------------------------- MODULE WebhookProofs -----------------------------
(* Machine-checked proofs about Webhooks, for every value of the constants. *)
EXTENDS Webhooks, FiniteSetTheorems, TLAPS

-----------------------------------------------------------------------------
(* Types, and the attempts column, which needs AttemptInv to stay in range. *)

\* The columns MarkDeliverySucceeded, RescheduleDelivery and MarkDeliveryFailed write
LEMMA SettleWrites ==
  ASSUME NEW d \in Delivery, NEW j \in {"done", "again"} \cup Reason,
         d.tries < MaxAttempts
  PROVE  /\ Settle(d, j) \in Delivery
         /\ Settle(d, j).hook = d.hook /\ Settle(d, j).event = d.event
         /\ Settle(d, j).tries = d.tries + 1
         /\ j = "again" => Settle(d, j).status = d.status /\ Settle(d, j).why = d.why
         /\ j = "done" => Settle(d, j).status = "delivered" /\ Settle(d, j).why = d.why
         /\ j \in Reason => Settle(d, j).status = "failed" /\ Settle(d, j).why = j
<1>1. d.tries + 1 \in 0..MaxAttempts
  BY WebhooksAssumption DEF Delivery
<1>2. CASE j = "done"
  BY <1>1, <1>2 DEF Settle, Delivery, Reason
<1>3. CASE j = "again"
  BY <1>1, <1>3 DEF Settle, Delivery, Reason
<1>4. CASE j \in Reason
  BY <1>1, <1>4 DEF Settle, Delivery, Reason
<1> QED
  BY <1>2, <1>3, <1>4

\* The row EnqueueDelivery inserts, the absence of one, and a row that is deleted
LEMMA RowTypes ==
  /\ NoDelivery \in Delivery
  /\ \A h \in Hook, e \in Event :
       [hook |-> h, event |-> e, status |-> "pending", tries |-> 0, due |-> TRUE,
        why |-> "none"] \in Delivery
  /\ \A d \in Delivery : /\ [d EXCEPT !.status = "purged"] \in Delivery
                         /\ [d EXCEPT !.due = TRUE] \in Delivery
<1>1. NoDelivery \in Delivery
  BY WebhooksAssumption DEF NoDelivery, Delivery
<1>2. ASSUME NEW h \in Hook, NEW e \in Event
      PROVE  [hook |-> h, event |-> e, status |-> "pending", tries |-> 0, due |-> TRUE,
              why |-> "none"] \in Delivery
  BY WebhooksAssumption DEF Delivery, Event
<1>3. ASSUME NEW d \in Delivery
      PROVE  [d EXCEPT !.status = "purged"] \in Delivery /\ [d EXCEPT !.due = TRUE] \in Delivery
  BY DEF Delivery
<1> QED
  BY <1>1, <1>2, <1>3

\* Recording and purging events keep the types
LEMMA LogTypes ==
  ASSUME TypeOK,
         (\E t \in EventType : RecordEvent(t)) \/ PurgeEvents
  PROVE  TypeOK'
<1>1. ASSUME NEW t \in EventType, RecordEvent(t) PROVE TypeOK'
  <2>1. types' \in Seq(EventType) /\ Len(types') <= MaxEvents
    BY <1>1, WebhooksAssumption DEF TypeOK, RecordEvent
  <2> QED
    BY <1>1, <2>1 DEF TypeOK, RecordEvent, boxVars, tailVars, workVars, procVars
<1>2. CASE PurgeEvents
  <2>1. floor' \in 0..MaxEvents
    BY <1>2, WebhooksAssumption DEF TypeOK, PurgeEvents
  <2>2. overrun' \subseteq Event
    BY <1>2 DEF TypeOK, PurgeEvents
  <2> QED
    BY <1>2, <2>1, <2>2 DEF TypeOK, PurgeEvents, boxVars, tailVars, workVars, procVars
<1> QED
  BY <1>1, <1>2

\* So do the requests of administrators
LEMMA AdministratorTypes ==
  ASSUME TypeOK, Administrator
  PROVE  TypeOK'
<1>1. PICK h \in Hook :
        \/ \E enabled \in BOOLEAN, F \in SUBSET EventType :
             CreateWebhook(h, enabled, F) \/ UpdateWebhook(h, enabled, F)
        \/ DeleteWebhook(h)
  BY DEF Administrator
<1>2. Request(h)
  BY <1>1 DEF CreateWebhook, UpdateWebhook, DeleteWebhook
<1>3. hooks' \in [Hook -> HookRow]
  <2>1. ASSUME NEW enabled \in BOOLEAN, NEW F \in SUBSET EventType,
               CreateWebhook(h, enabled, F) \/ UpdateWebhook(h, enabled, F)
        PROVE  hooks' \in [Hook -> HookRow]
    <3>1. CASE CreateWebhook(h, enabled, F)
      <4>1. [exists |-> TRUE, enabled |-> enabled, events |-> F] \in HookRow
        BY DEF HookRow
      <4> QED
        BY <3>1, <4>1 DEF CreateWebhook, TypeOK
    <3>2. CASE UpdateWebhook(h, enabled, F)
      <4>1. [hooks[h] EXCEPT !.enabled = enabled, !.events = F] \in HookRow
        BY DEF TypeOK, HookRow
      <4>2. hooks' = [hooks EXCEPT ![h] = [hooks[h] EXCEPT !.enabled = enabled, !.events = F]]
        BY <3>2, <4>1 DEF UpdateWebhook, TypeOK, HookRow
      <4> QED
        BY <4>1, <4>2 DEF TypeOK
    <3> QED
      BY <2>1, <3>1, <3>2
  <2>2. CASE DeleteWebhook(h)
    BY <2>2 DEF DeleteWebhook, TypeOK, HookRow
  <2> QED
    BY <1>1, <2>1, <2>2
<1>4. outbox' \in [Row -> Delivery]
  BY <1>1, RowTypes DEF CreateWebhook, UpdateWebhook, DeleteWebhook, TypeOK
<1>5. requests' \in 0..MaxRequests /\ touched' \subseteq Hook
  BY <1>2, WebhooksAssumption DEF Request, TypeOK
<1> QED
  BY <1>2, <1>3, <1>4, <1>5 DEF Request, TypeOK, logVars, tailVars, workVars, procVars

\* A statement that succeeds or fails keeps the count of faults in its range
LEMMA FaultTypes ==
  ASSUME TypeOK, Succeeds \/ Fails
  PROVE  faults' \in 0..MaxFaults
BY WebhooksAssumption DEF TypeOK, Succeeds, Fails

\* So does every step of the tailer
LEMMA TailerTypes ==
  ASSUME TypeOK, Tailer
  PROVE  TypeOK'
<1> USE DEF TypeOK, TailRest, logVars, boxVars, workVars, procVars, TailAt
<1>1. CASE StartCursor
  BY <1>1, FaultTypes DEF StartCursor, None
<1>2. CASE StartHead
  BY <1>2, FaultTypes DEF StartHead
<1>3. CASE StartMark
  BY <1>3, FaultTypes DEF StartMark
<1>4. CASE Drain
  BY <1>4, FaultTypes DEF Drain, Since, Oldest
<1>5. CASE DrainList
  BY <1>5, FaultTypes DEF DrainList, TailPairs, GiveUp
<1>6. ASSUME NEW p \in todo, EnqueueDelivery(p) PROVE TypeOK'
  <2>1. p[1] \in Event /\ p[2] \in Hook
    OBVIOUS
  <2>2. outbox' \in [Row -> Delivery]
    BY <1>6, <2>1, RowTypes DEF EnqueueDelivery
  <2>3. rows' \in 0..MaxRows
    BY <1>6, WebhooksAssumption DEF EnqueueDelivery
  <2>4. faults' \in 0..MaxFaults
    BY <1>6, FaultTypes DEF EnqueueDelivery
  <2> QED
    BY <1>6, <2>2, <2>3, <2>4 DEF EnqueueDelivery, EnqueueFails, GiveUp
<1>7. CASE DrainDone
  BY <1>7 DEF DrainDone
<1>8. CASE DrainSave
  <2>1. saved' \in {None} \cup (0..MaxEvents) /\ cursor' \in 0..MaxEvents
    <3>1. CASE UNCHANGED <<saved, cursor>>
      BY <3>1
    <3>2. ASSUME NEW e \in read, saved' = e, cursor' = e
          PROVE  saved' \in 0..MaxEvents /\ cursor' \in 0..MaxEvents
      BY <3>2, WebhooksAssumption DEF Event
    <3> QED
      BY <1>8, <3>1, <3>2 DEF DrainSave
  <2>2. faults' \in 0..MaxFaults /\ again' \subseteq Event
    BY <1>8, FaultTypes DEF DrainSave
  <2> QED
    BY <1>8, <2>1, <2>2 DEF DrainSave, GiveUp
<1> QED
  BY <1>1, <1>2, <1>3, <1>4, <1>5, <1>6, <1>7, <1>8 DEF Tailer

\* The delivery loop keeps the types: an attempt is recorded only on a row whose
\* attempts column is below its limit
LEMMA DeliverTypes ==
  ASSUME TypeOK, AttemptInv, Deliver
  PROVE  TypeOK'
<1> USE DEF TypeOK, WorkRest, logVars, tailVars, procVars, Job
<1>1. CASE DeliverDue
  BY <1>1, FaultTypes DEF DeliverDue
<1>2. CASE DeliverDone
  BY <1>2 DEF DeliverDone
<1>3. ASSUME NEW r \in Row, Skip(r) PROVE TypeOK'
  BY <1>3 DEF Skip
<1>4. ASSUME NEW r \in Row, Lookup(r) PROVE TypeOK'
  <2>1. job' \in [Row -> Job]
    BY <1>4 DEF Lookup, Reason
  <2> QED
    BY <1>4, <2>1, FaultTypes DEF Lookup
<1>5. ASSUME NEW r \in Row, NEW answer \in {"ok", "no", "retry"}, Post(r, answer)
      PROVE  TypeOK'
  <2>1. job' \in [Row -> Job]
    BY <1>5 DEF Post, AfterError, Reason
  <2>2. posts' \in [Row -> 0..MaxAttempts + 1]
    BY <1>5, WebhooksAssumption DEF Post
  <2> QED
    BY <1>5, <2>1, <2>2 DEF Post
<1>6. ASSUME NEW r \in Row, Write(r) PROVE TypeOK'
  <2>1. outbox[r].tries < MaxAttempts
    BY <1>6 DEF Write, AttemptInv, Reason
  <2>2. Settle(outbox[r], job[r]) \in Delivery
    BY <1>6, <2>1, SettleWrites DEF Write
  <2>3. outbox' \in [Row -> Delivery]
    BY <1>6, <2>2 DEF Write
  <2> QED
    BY <1>6, <2>3, FaultTypes DEF Write
<1>7. ASSUME NEW r \in Row, BackoffElapses(r) PROVE TypeOK'
  <2>1. outbox' \in [Row -> Delivery]
    BY <1>7, RowTypes DEF BackoffElapses
  <2> QED
    BY <1>7, <2>1 DEF BackoffElapses, workVars
<1>8. ASSUME NEW r \in Row, PurgeDeliveries(r) PROVE TypeOK'
  <2>1. outbox' \in [Row -> Delivery]
    BY <1>8, RowTypes DEF PurgeDeliveries
  <2> QED
    BY <1>8, <2>1 DEF PurgeDeliveries, workVars
<1> QED
  BY <1>1, <1>2, <1>3, <1>4, <1>5, <1>6, <1>7, <1>8 DEF Deliver, Worker

\* Starting, signalling and ending the process keep the types
LEMMA ProcessTypes ==
  ASSUME TypeOK, Process
  PROVE  TypeOK'
<1> USE DEF TypeOK, TailAt, Job
<1>1. CASE Start
  BY <1>1 DEF Start, logVars, boxVars
<1>2. CASE Signal
  BY <1>2 DEF Signal, logVars, boxVars, tailVars, workVars
<1>3. CASE Stop
  <2>1. stops' \in 0..MaxStops /\ 0 \in 0..MaxEvents
    BY <1>3, WebhooksAssumption DEF Stop
  <2> QED
    BY <1>3, <2>1 DEF Stop, logVars, boxVars
<1> QED
  BY <1>1, <1>2, <1>3 DEF Process

\* A step that leaves the rows and the workers alone cannot disturb the count
LEMMA AttemptFrame ==
  ASSUME AttemptInv, UNCHANGED <<work, job, posts, unsure, outbox, rows>>
  PROVE  AttemptInv'
BY DEF AttemptInv

\* Administrators and the tailer keep the count: a deletion only takes rows away,
\* and an insertion is a fresh row no worker has
LEMMA LogAttempts ==
  ASSUME TypeOK, AttemptInv, LogNext
  PROVE  AttemptInv'
<1>1. CASE (\E t \in EventType : RecordEvent(t)) \/ PurgeEvents
  BY <1>1, AttemptFrame DEF RecordEvent, PurgeEvents, boxVars, workVars
<1>2. CASE Administrator
  <2>1. ASSUME NEW h \in Hook, DeleteWebhook(h) PROVE AttemptInv'
    <3>1. UNCHANGED <<work, job, posts, unsure, rows>>
      BY <2>1 DEF DeleteWebhook, Request, workVars
    <3>2. \A r \in Row :
            \/ outbox'[r] = outbox[r]
            \/ /\ outbox[r].status # "none" /\ outbox'[r].status = "purged"
               /\ outbox'[r].tries = outbox[r].tries /\ outbox'[r].why = outbox[r].why
      BY <2>1 DEF DeleteWebhook, TypeOK, Delivery
    <3>3. NoDelivery.status = "none"
      BY DEF NoDelivery
    <3> QED
      BY <3>1, <3>2, <3>3 DEF AttemptInv
  <2> QED
    BY <1>2, <2>1, AttemptFrame DEF Administrator, CreateWebhook, UpdateWebhook, Request, workVars
<1>3. CASE Tailer
  <2>1. ASSUME NEW p \in todo, EnqueueDelivery(p), rows' = rows + 1 PROVE AttemptInv'
    <3>1. UNCHANGED <<work, job, posts, unsure>> /\ rows \in Nat /\ rows + 1 \in Row
      BY <2>1, WebhooksAssumption DEF EnqueueDelivery, TailRest, workVars, TypeOK, Row
    <3>2. \A r \in Row : r # rows + 1 => outbox'[r] = outbox[r]
      BY <2>1, <3>1 DEF EnqueueDelivery, boxVars, TypeOK
    <3>3. /\ outbox'[rows + 1].status = "pending" /\ outbox'[rows + 1].tries = 0
          /\ outbox'[rows + 1].why = "none"
      BY <2>1, <3>1 DEF EnqueueDelivery, boxVars, TypeOK
    <3>4. job[rows + 1] = "none" /\ posts[rows + 1] = 0
      BY <3>1 DEF AttemptInv, Row
    <3>5. 0 < MaxAttempts
      BY WebhooksAssumption
    <3>6. \A r \in Row : r > rows + 1 => r > rows
      BY <3>1 DEF Row
    <3> QED
      BY <2>1, <3>1, <3>2, <3>3, <3>4, <3>5, <3>6 DEF AttemptInv, Sent, Row
  <2>2. ASSUME NEW p \in todo, EnqueueDelivery(p), UNCHANGED boxVars PROVE AttemptInv'
    BY <2>2, AttemptFrame DEF EnqueueDelivery, TailRest, workVars, boxVars
  <2>3. ASSUME NEW p \in todo, EnqueueDelivery(p) PROVE rows' = rows + 1 \/ UNCHANGED boxVars
    BY <2>3 DEF EnqueueDelivery
  <2> QED
    BY <1>3, <2>1, <2>2, <2>3, AttemptFrame
    DEF Tailer, StartCursor, StartHead, StartMark, Drain, DrainList, DrainDone, DrainSave,
        TailRest, workVars, boxVars
<1> QED
  BY <1>1, <1>2, <1>3 DEF LogNext

\* One row of AttemptInv: what it says of the rows other than the one a worker
\* has is untouched by that worker
AttemptRow(r) ==
  /\ r > rows => outbox[r] = NoDelivery /\ job[r] = "none" /\ posts[r] = 0
  /\ job[r] # "none" => outbox[r].status \in {"pending", "purged"}
  /\ outbox[r].status = "pending" \/ job[r] # "none"
       => outbox[r].tries < MaxAttempts /\ outbox[r].why = "none"
  /\ job[r] = "again" => outbox[r].tries + 1 < MaxAttempts
  /\ job[r] = "spent" => outbox[r].tries + 1 = MaxAttempts
  /\ r \notin unsure =>
       /\ job[r] \in Sent => posts[r] = outbox[r].tries + 1
       /\ job[r] \in Unsent \/ (job[r] = "none" /\ outbox[r].status = "pending")
            => posts[r] = outbox[r].tries
       /\ posts[r] <= MaxAttempts
       /\ outbox[r].why = "spent" => posts[r] = MaxAttempts

\* AttemptInv is a statement about each row, and no worker outside a batch
LEMMA AttemptByRow ==
  /\ AttemptInv <=> /\ work # "busy" => \A r \in Row : job[r] = "none"
                    /\ \A r \in Row : AttemptRow(r)
  /\ AttemptInv' <=> /\ work' # "busy" => \A r \in Row : job'[r] = "none"
                     /\ \A r \in Row : AttemptRow(r)'
BY DEF AttemptInv, AttemptRow

\* A worker's step touches its own row and its own position only
LEMMA AttemptLocal ==
  ASSUME TypeOK, AttemptInv, NEW r \in Row, work = "busy", UNCHANGED <<work, rows>>,
         \A q \in Row \ {r} : /\ outbox'[q] = outbox[q] /\ job'[q] = job[q]
                              /\ posts'[q] = posts[q] /\ (q \in unsure' <=> q \in unsure),
         AttemptRow(r)'
  PROVE  AttemptInv'
<1>1. \A q \in Row \ {r} : AttemptRow(q)'
  BY AttemptByRow DEF AttemptRow
<1> QED
  BY <1>1, AttemptByRow

\* The delivery loop keeps the count
LEMMA DeliverAttempts ==
  ASSUME TypeOK, AttemptInv, Deliver
  PROVE  AttemptInv'
<1>a. ASSUME NEW r \in Row PROVE AttemptRow(r)
  BY <1>a, AttemptByRow
<1>b. ASSUME NEW r \in Row, job[r] # "none" PROVE work = "busy" /\ r <= rows
  <2>1. r \in Int /\ rows \in Int
    BY DEF TypeOK, Row
  <2> QED
    BY <1>b, <2>1, <1>a DEF AttemptInv, AttemptRow
<1>1. CASE DeliverDue
  <2>1. PICK S \in SUBSET Due : job' = [r \in Row |-> IF r \in S THEN "taken" ELSE "none"]
    BY <1>1 DEF DeliverDue
  <2>2. \A r \in Row : job[r] = "none"
    BY <1>1 DEF DeliverDue, AttemptInv
  <2>3. UNCHANGED <<outbox, posts, unsure, rows>>
    BY <1>1 DEF DeliverDue, WorkRest
  <2>4. ASSUME NEW r \in Row PROVE AttemptRow(r)'
    <3>1. CASE r \in S
      <4>1. outbox[r].status = "pending" /\ job'[r] = "taken"
        BY <3>1, <2>1 DEF Due
      <4>2. NoDelivery.status = "none"
        BY DEF NoDelivery
      <4> QED
        BY <4>1, <4>2, <2>2, <2>3, <1>a DEF AttemptRow, Sent
    <3>2. CASE r \notin S
      BY <3>2, <2>1, <2>2, <2>3, <1>a DEF AttemptRow
    <3> QED
      BY <3>1, <3>2
  <2>5. work' # "busy" => \A r \in Row : job'[r] = "none"
    BY <1>1, <2>1 DEF DeliverDue
  <2> QED
    BY <2>4, <2>5, AttemptByRow
<1>2. CASE DeliverDone
  BY <1>2 DEF DeliverDone, WorkRest, AttemptInv
<1>3. ASSUME NEW r \in Row, Skip(r) PROVE AttemptInv'
  <2>1. AttemptRow(r)'
    BY <1>3, <1>a DEF Skip, WorkRest, TypeOK, AttemptRow, Sent, Unsent
  <2> QED
    BY <1>3, <1>b, <2>1, AttemptLocal DEF Skip, WorkRest, TypeOK
<1>4. ASSUME NEW r \in Row, Lookup(r) PROVE AttemptInv'
  <2>1. job'[r] \in Unsent \ {"taken"} /\ job[r] = "taken"
    BY <1>4 DEF Lookup, Unsent, TypeOK
  <2>2. UNCHANGED <<outbox, posts, unsure, rows, work>>
    BY <1>4 DEF Lookup, WorkRest
  <2>3. AttemptRow(r)'
    BY <2>1, <2>2, <1>a, <1>b DEF AttemptRow, Sent, Unsent
  <2>4. \A q \in Row \ {r} : job'[q] = job[q]
    BY <1>4 DEF Lookup, TypeOK
  <2> QED
    BY <2>1, <2>2, <2>3, <2>4, <1>b, AttemptLocal
<1>5. ASSUME NEW r \in Row, NEW answer \in {"ok", "no", "retry"}, Post(r, answer)
      PROVE  AttemptInv'
  <2>1. job[r] = "post" /\ UNCHANGED <<outbox, unsure, rows, work>>
    BY <1>5 DEF Post, WorkRest
  <2>2. /\ job'[r] \in Sent
        /\ job'[r] = "again" => outbox[r].tries + 1 < MaxAttempts
        /\ job'[r] = "spent" => outbox[r].tries + 1 >= MaxAttempts
    BY <1>5, WebhooksAssumption DEF Post, AfterError, Sent, TypeOK, Delivery
  <2>3. outbox[r].tries \in 0..MaxAttempts /\ posts[r] \in Nat /\ outbox[r].tries < MaxAttempts
    BY <2>1, <1>a DEF TypeOK, Delivery, AttemptRow
  <2>4. posts[r] <= MaxAttempts => posts'[r] = posts[r] + 1
    BY <1>5 DEF Post, TypeOK
  <2>5. r \notin unsure => posts'[r] = outbox[r].tries + 1
    BY <2>1, <2>3, <2>4, <1>a, WebhooksAssumption DEF AttemptRow, Unsent
  <2>6. ~(r > rows) /\ outbox[r].status \in {"pending", "purged"} /\ outbox[r].why = "none"
    BY <2>1, <1>a DEF AttemptRow
  <2>7. AttemptRow(r)'
    BY <2>1, <2>2, <2>3, <2>5, <2>6, WebhooksAssumption DEF AttemptRow, Sent, Unsent
  <2>8. \A q \in Row \ {r} : job'[q] = job[q] /\ posts'[q] = posts[q]
    BY <1>5 DEF Post, TypeOK
  <2> QED
    BY <2>1, <2>7, <2>8, <1>b, AttemptLocal
<1>6. ASSUME NEW r \in Row, Write(r) PROVE AttemptInv'
  <2>1. job[r] \in {"done", "again"} \cup Reason /\ job'[r] = "none"
        /\ UNCHANGED <<posts, rows, work>>
    BY <1>6 DEF Write, WorkRest, TypeOK
  <2>2. ~(r > rows) /\ outbox[r].status \in {"pending", "purged"} /\ outbox[r].why = "none"
        /\ outbox[r].tries < MaxAttempts /\ outbox[r] \in Delivery
    BY <2>1, <1>a DEF AttemptRow, Reason, TypeOK
  <2>3. outbox'[r] \in {outbox[r], Settle(outbox[r], job[r])}
    BY <1>6 DEF Write, TypeOK
  <2>4. ASSUME UNCHANGED outbox, r \in unsure' PROVE AttemptRow(r)'
    BY <2>1, <2>2, <2>4 DEF AttemptRow, Sent, Unsent
  <2>5. ASSUME outbox'[r] = outbox[r], UNCHANGED unsure, outbox[r].status = "purged"
        PROVE  AttemptRow(r)'
    BY <2>1, <2>2, <2>5, <1>a, WebhooksAssumption
    DEF AttemptRow, Sent, Unsent, Reason, Delivery
  <2>6. ASSUME outbox'[r] = Settle(outbox[r], job[r]), UNCHANGED unsure,
               outbox[r].status = "pending"
        PROVE  AttemptRow(r)'
    <3> DEFINE d == Settle(outbox[r], job[r])
    <3>1. /\ d.tries = outbox[r].tries + 1
          /\ job[r] = "again" => d.status = "pending" /\ d.why = "none"
          /\ job[r] = "done" => d.status = "delivered" /\ d.why = "none"
          /\ job[r] \in Reason => d.status = "failed" /\ d.why = job[r]
      BY <2>1, <2>2, <2>6, SettleWrites
    <3>2. AttemptRow(r) /\ outbox[r].tries \in Nat /\ d.tries <= MaxAttempts
      BY <1>a, <2>2, <3>1, WebhooksAssumption DEF Delivery
    <3>3. r \notin unsure =>
            /\ posts[r] <= MaxAttempts
            /\ job[r] = "again" => posts[r] = d.tries
            /\ job[r] = "spent" => posts[r] = MaxAttempts
      BY <3>1, <3>2, <2>1 DEF AttemptRow, Sent
    <3>4. job[r] = "again" => d.tries < MaxAttempts
      BY <3>1, <3>2 DEF AttemptRow
    <3>5. outbox'[r] = d
      BY <2>6
    <3> HIDE DEF d
    <3>6. job'[r] = "none" /\ UNCHANGED <<posts, rows, unsure>> /\ ~(r > rows)
      BY <2>1, <2>2, <2>6
    <3>7. CASE job[r] = "again"
      BY <3>1, <3>3, <3>4, <3>5, <3>6, <3>7 DEF AttemptRow, Sent, Unsent
    <3>8. CASE job[r] = "done"
      BY <3>1, <3>3, <3>5, <3>6, <3>8 DEF AttemptRow, Sent, Unsent
    <3>9. CASE job[r] \in Reason
      BY <3>1, <3>3, <3>5, <3>6, <3>9 DEF AttemptRow, Sent, Unsent
    <3> QED
      BY <2>1, <3>7, <3>8, <3>9
  <2>7. \A q \in Row \ {r} : /\ job'[q] = job[q] /\ outbox'[q] = outbox[q]
                             /\ (q \in unsure' <=> q \in unsure)
    BY <1>6 DEF Write, TypeOK
  <2>8. AttemptRow(r)'
    BY <1>6, <2>2, <2>4, <2>5, <2>6 DEF Write, TypeOK
  <2>9. work = "busy"
    BY <2>1, <1>b DEF Reason
  <2> QED
    BY <2>1, <2>7, <2>8, <2>9, AttemptLocal
<1>7. ASSUME NEW r \in Row, BackoffElapses(r) \/ PurgeDeliveries(r) PROVE AttemptInv'
  <2>1. UNCHANGED <<work, job, posts, unsure, rows>>
    BY <1>7 DEF BackoffElapses, PurgeDeliveries, WorkRest, workVars
  <2>2. \A q \in Row \ {r} : outbox'[q] = outbox[q]
    BY <1>7 DEF BackoffElapses, PurgeDeliveries, TypeOK
  <2>3. /\ outbox'[r].tries = outbox[r].tries /\ outbox'[r].why = outbox[r].why
        /\ outbox[r].status # "none"
        /\ \/ outbox'[r].status = outbox[r].status
           \/ outbox'[r].status = "purged"
    BY <1>7 DEF BackoffElapses, PurgeDeliveries, TypeOK, Delivery
  <2>4. NoDelivery.status = "none"
    BY DEF NoDelivery
  <2>5. \A q \in Row : AttemptRow(q)'
    BY <2>1, <2>2, <2>3, <2>4, <1>a DEF AttemptRow
  <2> QED
    BY <2>1, <2>5, AttemptByRow
<1> QED
  BY <1>1, <1>2, <1>3, <1>4, <1>5, <1>6, <1>7 DEF Deliver, Worker

\* Starting, signalling and ending the process keep the count: what the end of the
\* process cuts short is in unsure
LEMMA ProcessAttempts ==
  ASSUME TypeOK, AttemptInv, Process
  PROVE  AttemptInv'
<1>1. CASE Start
  <2>1. UNCHANGED <<job, posts, unsure, outbox, rows>>
    BY <1>1 DEF Start, boxVars
  <2>2. \A r \in Row : job[r] = "none"
    BY <1>1 DEF AttemptInv, Start
  <2> QED
    BY <1>1, <2>1, <2>2, AttemptByRow DEF Start, AttemptInv
<1>2. CASE Signal
  BY <1>2, AttemptFrame DEF Signal, boxVars, workVars
<1>3. CASE Stop
  <2>1. \A r \in Row : /\ job'[r] = "none"
                       /\ r \in unsure' <=> r \in unsure \/ job[r] \notin {"none", "taken"}
    BY <1>3 DEF Stop
  <2>2. UNCHANGED <<posts, outbox, rows>>
    BY <1>3 DEF Stop, boxVars
  <2>3. \A r \in Row : AttemptRow(r)'
    BY <2>1, <2>2, AttemptByRow DEF AttemptRow, Sent, Unsent
  <2> QED
    BY <2>1, <2>3, AttemptByRow
<1> QED
  BY <1>1, <1>2, <1>3 DEF Process

\* What the type invariant and the count need of each other
TypedAttempts == TypeOK /\ AttemptInv

\* A new installation satisfies both
LEMMA InitTypedAttempts == Init => TypedAttempts
<1> SUFFICES ASSUME Init PROVE TypedAttempts
  OBVIOUS
<1>1. TypeOK
  <2>1. types \in Seq(EventType) /\ Len(types) = 0
    BY DEF Init
  <2>2. hooks \in [Hook -> HookRow]
    BY DEF Init
  <2>3. outbox \in [Row -> Delivery]
    BY RowTypes DEF Init
  <2> QED
    BY <2>1, <2>2, <2>3, WebhooksAssumption DEF Init, TypeOK, TailAt, Job, None
<1>2. AttemptInv
  BY WebhooksAssumption DEF Init, AttemptInv, NoDelivery, Sent, Unsent
<1> QED
  BY <1>1, <1>2 DEF TypedAttempts

\* Every step keeps both
LEMMA NextTypedAttempts == TypedAttempts /\ [Next]_vars => TypedAttempts'
<1> SUFFICES ASSUME TypeOK, AttemptInv, [Next]_vars PROVE TypeOK' /\ AttemptInv'
  BY DEF TypedAttempts
<1>1. CASE LogNext
  BY <1>1, LogTypes, AdministratorTypes, TailerTypes, LogAttempts DEF LogNext
<1>2. CASE Deliver
  BY <1>2, DeliverTypes, DeliverAttempts
<1>3. CASE Process
  BY <1>3, ProcessTypes, ProcessAttempts
<1>4. CASE UNCHANGED vars
  BY <1>4, AttemptFrame
  DEF vars, logVars, boxVars, tailVars, workVars, procVars, TypeOK
<1> QED
  BY <1>1, <1>2, <1>3, <1>4 DEF Next

\* The log, the outbox, the tailer and the workers keep their types, the attempts
\* column included, for every number of subscriptions, workers and attempts.
THEOREM WebhookTypes == Spec => []TypeOK
<1>1. TypedAttempts => TypeOK
  BY DEF TypedAttempts
<1> QED
  BY InitTypedAttempts, NextTypedAttempts, <1>1, PTL DEF Spec

\* The count of attempts and its relation to the requests under way is an
\* invariant of every behaviour.
THEOREM AttemptInvariant == Spec => []AttemptInv
<1>1. TypedAttempts => AttemptInv
  BY DEF TypedAttempts
<1> QED
  BY InitTypedAttempts, NextTypedAttempts, <1>1, PTL DEF Spec

\* No row is posted more often than webhooks.max_attempts, or given up as spent
\* before, unless the end of a request could not be recorded.
THEOREM AttemptsBounded == Spec => []AttemptsAreCounted
<1>1. AttemptInv => AttemptsAreCounted
  BY DEF AttemptInv, AttemptsAreCounted
<1> QED
  BY AttemptInvariant, <1>1, PTL

-----------------------------------------------------------------------------
(* The cursor.                                                             *)

\* No row of the outbox is taken back or given to another event
OutboxKept ==
  \A r \in Row : outbox[r].status # "none" =>
    /\ outbox'[r].status # "none"
    /\ outbox'[r].hook = outbox[r].hook /\ outbox'[r].event = outbox[r].event

\* Deletions and the workers change the state of rows only
LEMMA RowsKept ==
  ASSUME TypeOK, AttemptInv, [Next]_vars
  PROVE  OutboxKept
<1>1. CASE UNCHANGED outbox
  BY <1>1 DEF OutboxKept
<1>2. ASSUME NEW h \in Hook, DeleteWebhook(h) PROVE OutboxKept
  BY <1>2 DEF DeleteWebhook, OutboxKept, TypeOK, Delivery
<1>3. ASSUME NEW p \in todo, EnqueueDelivery(p) PROVE OutboxKept
  <2>1. CASE UNCHANGED boxVars
    BY <2>1 DEF boxVars, OutboxKept
  <2>2. CASE rows' = rows + 1 /\ ~ UNCHANGED boxVars
    <3>1. rows \in Nat /\ rows + 1 \in Row
      BY <1>3, WebhooksAssumption DEF EnqueueDelivery, TypeOK, Row
    <3>2. outbox[rows + 1].status = "none"
      BY <3>1 DEF AttemptInv, NoDelivery, Row
    <3>3. \A r \in Row : r # rows + 1 => outbox'[r] = outbox[r]
      BY <1>3, <2>2, <3>1 DEF EnqueueDelivery, TypeOK
    <3> QED
      BY <3>2, <3>3 DEF OutboxKept
  <2> QED
    BY <1>3, <2>1, <2>2 DEF EnqueueDelivery
<1>4. ASSUME NEW r \in Row, Write(r) PROVE OutboxKept
  <2>1. outbox[r] \in Delivery /\ outbox[r].tries < MaxAttempts
        /\ job[r] \in {"done", "again"} \cup Reason
        /\ outbox[r].status \in {"pending", "purged"}
    BY <1>4 DEF Write, AttemptInv, TypeOK, Reason
  <2>2. Settle(outbox[r], job[r]).hook = outbox[r].hook
        /\ Settle(outbox[r], job[r]).event = outbox[r].event
        /\ Settle(outbox[r], job[r]).status # "none"
    BY <2>1, SettleWrites
  <2>3. \A q \in Row \ {r} : outbox'[q] = outbox[q]
    BY <1>4 DEF Write, TypeOK
  <2>4. outbox'[r] \in {outbox[r], Settle(outbox[r], job[r])}
    BY <1>4 DEF Write, TypeOK
  <2> QED
    BY <2>2, <2>3, <2>4 DEF OutboxKept
<1>5. ASSUME NEW r \in Row, BackoffElapses(r) \/ PurgeDeliveries(r) PROVE OutboxKept
  <2>1. \A q \in Row \ {r} : outbox'[q] = outbox[q]
    BY <1>5 DEF BackoffElapses, PurgeDeliveries, TypeOK
  <2>2. outbox'[r].hook = outbox[r].hook /\ outbox'[r].event = outbox[r].event
        /\ outbox'[r].status \in {outbox[r].status, "purged"}
    BY <1>5 DEF BackoffElapses, PurgeDeliveries, TypeOK, Delivery
  <2> QED
    BY <2>1, <2>2 DEF OutboxKept
<1>6. CASE LogNext
  BY <1>6, <1>1, <1>2, <1>3
  DEF LogNext, RecordEvent, PurgeEvents, Administrator, CreateWebhook, UpdateWebhook, Tailer,
      StartCursor, StartHead, StartMark, Drain, DrainList, DrainDone, DrainSave, boxVars
<1>7. CASE Deliver
  BY <1>7, <1>1, <1>4, <1>5
  DEF Deliver, DeliverDue, DeliverDone, Worker, Skip, Lookup, Post
<1>8. CASE Process
  BY <1>8, <1>1 DEF Process, Start, Signal, Stop, boxVars
<1>9. CASE UNCHANGED vars
  BY <1>9, <1>1 DEF vars, boxVars
<1> QED
  BY <1>6, <1>7, <1>8, <1>9 DEF Next

\* What saving the cursor promises, and why it may
LogInv == CursorInv /\ NoEventMissed

\* A row once queued stays queued
LEMMA QueuedKept ==
  ASSUME OutboxKept, NEW h \in Hook, NEW e, Queued(h, e)
  PROVE  Queued(h, e)'
BY DEF OutboxKept, Queued

\* A step that changes neither the log, the subscriptions nor the tailer
LEMMA LogFrame ==
  ASSUME LogInv, OutboxKept,
         UNCHANGED <<types, floor, hooks, saved, tail, cursor, read, todo, first, touched, overrun>>
  PROVE  LogInv'
<1>1. PositionInv'
  BY DEF LogInv, CursorInv, PositionInv
<1>2. RoundInv'
  BY DEF LogInv, CursorInv, RoundInv, Holding
<1>3. PairsInv'
  BY QueuedKept DEF LogInv, CursorInv, PairsInv, Wants
<1>4. NoEventMissed'
  BY QueuedKept DEF LogInv, NoEventMissed, Wants
<1> QED
  BY <1>1, <1>2, <1>3, <1>4 DEF LogInv, CursorInv

\* RecordEvent adds an event beyond every position
LEMMA RecordKeeps ==
  ASSUME TypeOK, LogInv, OutboxKept, NEW t \in EventType, RecordEvent(t)
  PROVE  LogInv'
<1>1. Len(types) \in Nat /\ Len(types') = Len(types) + 1
  BY DEF RecordEvent, TypeOK
<1>2. \A e \in 1..Len(types) : types'[e] = types[e]
  BY DEF RecordEvent, TypeOK
<1>3. UNCHANGED <<floor, hooks, saved, tail, cursor, read, todo, first, touched, overrun>>
  BY DEF RecordEvent, tailVars
<1>4. saved \in Int /\ cursor \in Int /\ floor \in Int /\ read \subseteq Event
  BY DEF TypeOK, None
<1>5. PositionInv'
  BY <1>1, <1>3, <1>4 DEF LogInv, CursorInv, PositionInv
<1>6. RoundInv'
  BY <1>1, <1>3, <1>4 DEF LogInv, CursorInv, RoundInv, Holding, Event
<1>7. PairsInv'
  <2>1. \A e \in read : tail \in {"fanout", "save"} => e \in 1..Len(types)
    BY <1>1, <1>4 DEF LogInv, CursorInv, RoundInv, Holding, Event
  <2> QED
    BY <1>2, <1>3, <2>1, QueuedKept DEF LogInv, CursorInv, PairsInv, Wants
<1>8. NoEventMissed'
  <2> SUFFICES ASSUME NEW h \in Hook \ touched, NEW e \in 1..Len(types'),
                      Wants(h, types[e])', saved # None, e > first
               PROVE  Queued(h, e)' \/ e > saved \/ e \in overrun
    BY <1>3 DEF NoEventMissed
  <2>1. CASE e = Len(types) + 1
    BY <2>1, <1>1, <1>4 DEF LogInv, CursorInv, PositionInv
  <2>2. CASE e \in 1..Len(types)
    <3>1. Wants(h, types[e])
      BY <2>2, <1>2, <1>3 DEF Wants
    <3> QED
      BY <2>2, <3>1, QueuedKept DEF LogInv, NoEventMissed
  <2> QED
    BY <1>1, <2>1, <2>2
<1> QED
  BY <1>5, <1>6, <1>7, <1>8 DEF LogInv, CursorInv

\* PurgeEvents beyond the cursor is what overrun is about
LEMMA PurgeKeeps ==
  ASSUME TypeOK, LogInv, OutboxKept, PurgeEvents
  PROVE  LogInv'
<1>1. UNCHANGED <<types, hooks, saved, tail, cursor, read, todo, first, touched>>
      /\ overrun \subseteq overrun'
  BY DEF PurgeEvents, tailVars
<1>2. PositionInv'
  <2>1. floor' <= Len(types)
    BY WebhooksAssumption DEF PurgeEvents, TypeOK
  <2>2. \A e \in Event : e <= floor' /\ e > saved => e \in overrun'
    BY DEF PurgeEvents
  <2> QED
    BY <1>1, <2>1, <2>2 DEF LogInv, CursorInv, PositionInv
<1>3. RoundInv'
  BY <1>1 DEF LogInv, CursorInv, RoundInv, Holding
<1>4. PairsInv'
  BY <1>1, QueuedKept DEF LogInv, CursorInv, PairsInv, Wants
<1>5. NoEventMissed'
  BY <1>1, QueuedKept DEF LogInv, NoEventMissed, Wants
<1> QED
  BY <1>2, <1>3, <1>4, <1>5 DEF LogInv, CursorInv

\* A request changes the subscription it names, and nothing is promised to that one
LEMMA AdministratorKeeps ==
  ASSUME TypeOK, LogInv, OutboxKept, Administrator
  PROVE  LogInv'
<1>1. PICK h \in Hook : /\ Request(h)
                        /\ \A g \in Hook \ {h} : hooks'[g] = hooks[g]
  BY DEF Administrator, CreateWebhook, UpdateWebhook, DeleteWebhook, TypeOK
<1>2. UNCHANGED <<types, floor, saved, tail, cursor, read, todo, first, overrun>>
      /\ touched' = touched \cup {h}
  BY <1>1 DEF Request, logVars, tailVars
<1>3. PositionInv' /\ RoundInv'
  BY <1>2 DEF LogInv, CursorInv, PositionInv, RoundInv, Holding
<1>4. \A g \in Hook \ touched' : \A t : Wants(g, t)' <=> Wants(g, t)
  BY <1>1, <1>2 DEF Wants
<1>5. PairsInv'
  BY <1>2, <1>4, QueuedKept DEF LogInv, CursorInv, PairsInv
<1>6. NoEventMissed'
  BY <1>2, <1>4, QueuedKept DEF LogInv, NoEventMissed
<1> QED
  BY <1>3, <1>5, <1>6 DEF LogInv, CursorInv

\* startCursor resumes at the saved cursor or records the head of the log
LEMMA StartKeeps ==
  ASSUME TypeOK, LogInv, OutboxKept, StartCursor \/ StartHead \/ StartMark
  PROVE  LogInv'
<1> USE DEF LogInv, CursorInv
<1>1. UNCHANGED <<types, floor, hooks, read, todo, touched, overrun>>
  BY DEF StartCursor, StartHead, StartMark, TailRest, logVars
<1>2. tail' \in {"idle", "head", "mark", "dead"} /\ ~Holding'
  BY DEF StartCursor, StartHead, StartMark, Holding
<1>3. RoundInv' /\ PairsInv'
  BY <1>2 DEF RoundInv, PairsInv
<1>4. Len(types) \in Nat /\ saved \in Int /\ cursor \in Nat
  BY DEF TypeOK, None
<1>5. CASE StartCursor
  <2>1. UNCHANGED <<saved, first>>
    BY <1>5 DEF StartCursor
  <2>2. PositionInv'
    BY <1>1, <1>5, <2>1 DEF StartCursor, PositionInv
  <2>3. NoEventMissed'
    BY <1>1, <2>1, QueuedKept DEF NoEventMissed, Wants
  <2> QED
    BY <1>3, <2>2, <2>3
<1>6. CASE StartHead
  <2>1. UNCHANGED <<saved, first>>
    BY <1>6 DEF StartHead
  <2>2. PositionInv'
    BY <1>1, <1>4, <1>6, <2>1 DEF StartHead, PositionInv
  <2>3. NoEventMissed'
    BY <1>1, <2>1, QueuedKept DEF NoEventMissed, Wants
  <2> QED
    BY <1>3, <2>2, <2>3
<1>7. CASE StartMark
  <2>1. CASE UNCHANGED <<saved, first>> /\ tail' = "dead"
    <3>1. PositionInv'
      BY <1>1, <1>7, <2>1 DEF StartMark, PositionInv
    <3>2. NoEventMissed'
      BY <1>1, <2>1, QueuedKept DEF NoEventMissed, Wants
    <3> QED
      BY <1>3, <3>1, <3>2
  <2>2. CASE saved' = cursor /\ first' = cursor /\ tail' = "idle"
    <3>1. UNCHANGED cursor /\ saved = None
      BY <1>7 DEF StartMark, PositionInv
    <3>2. \A e \in Event : e > saved' => e > saved
      BY <1>4, <2>2, <3>1 DEF Event, None
    <3>3. PositionInv'
      BY <1>1, <1>4, <2>2, <3>1, <3>2 DEF PositionInv, None
    <3>4. NoEventMissed'
      <4>1. first' = saved'
        BY <2>2
      <4> QED
        BY <4>1 DEF NoEventMissed
    <3> QED
      BY <1>3, <3>3, <3>4
  <2> QED
    BY <1>7, <2>1, <2>2 DEF StartMark
<1> QED
  BY <1>5, <1>6, <1>7

\* A batch of EventsSince is a prefix of what follows the cursor
LEMMA OldestIsPrefix ==
  ASSUME NEW e \in Since, NEW f \in Oldest(Since), e <= f
  PROVE  e \in Oldest(Since)
<1> DEFINE Below(g) == {k \in Since : k < g}
<1>1. \A k \in Since : k \in Int
  BY DEF Since, Event
<1>2. Below(e) \subseteq Below(f)
  BY <1>1 DEF Oldest
<1>3. IsFiniteSet(Below(f)) /\ IsFiniteSet(Below(e))
  <2>1. IsFiniteSet(1..MaxEvents)
    BY FS_Interval, WebhooksAssumption
  <2>2. Below(f) \subseteq 1..MaxEvents /\ Below(e) \subseteq 1..MaxEvents
    BY DEF Since, Event
  <2> QED
    BY <2>1, <2>2, FS_Subset
<1>4. Cardinality(Below(e)) <= Cardinality(Below(f))
      /\ Cardinality(Below(e)) \in Nat /\ Cardinality(Below(f)) \in Nat
  BY <1>2, <1>3, FS_Subset, FS_CardinalityType
<1>5. Cardinality(Below(f)) < Batch
  BY DEF Oldest
<1>6. Cardinality(Below(e)) < Batch
  BY <1>4, <1>5, WebhooksAssumption
<1> QED
  BY <1>6 DEF Oldest

\* A round reads without a gap from the saved cursor
LEMMA DrainKeeps ==
  ASSUME TypeOK, LogInv, OutboxKept, Drain
  PROVE  LogInv'
<1> USE DEF LogInv, CursorInv
<1>1. UNCHANGED <<types, floor, hooks, saved, cursor, todo, first, touched, overrun>>
  BY DEF Drain, TailRest, logVars
<1>2. tail = "idle" /\ cursor = saved /\ saved # None
  BY DEF Drain, PositionInv
<1>3. tail' \in {"idle", "list"} /\ read' = Oldest(Since)
  BY DEF Drain
<1>4. PositionInv'
  BY <1>1, <1>2, <1>3 DEF PositionInv
<1>5. RoundInv'
  <2>1. \A e \in read' : e > saved /\ e <= Len(types)
    BY <1>2, <1>3 DEF Oldest, Since
  <2>2. ASSUME NEW e \in Event, NEW f \in read', e > saved, e <= f
        PROVE  e \in read' \/ e \in overrun
    <3>1. CASE e <= floor
      BY <2>2, <3>1 DEF PositionInv
    <3>2. CASE e > floor
      <4>1. f \in Int /\ f <= Len(types) /\ Len(types) \in Nat
        BY <1>3 DEF Oldest, Since, Event, TypeOK
      <4>2. e \in Since
        BY <1>2, <2>2, <3>2, <4>1 DEF Since, Event
      <4> QED
        BY <1>3, <2>2, <4>2, OldestIsPrefix
    <3>3. e \in Int /\ floor \in Int
      BY DEF Event, TypeOK
    <3> QED
      BY <3>1, <3>2, <3>3
  <2> QED
    BY <1>1, <2>1, <2>2 DEF RoundInv
<1>6. PairsInv'
  BY <1>3 DEF PairsInv
<1>7. NoEventMissed'
  BY <1>1, QueuedKept DEF NoEventMissed, Wants
<1> QED
  BY <1>4, <1>5, <1>6, <1>7

\* Abandoning a round leaves the cursor where it was
LEMMA GiveUpKeeps ==
  ASSUME TypeOK, LogInv, OutboxKept, GiveUp, tail \in {"list", "fanout", "save"},
         UNCHANGED <<types, floor, hooks, saved, cursor, first, touched, overrun>>
  PROVE  LogInv'
<1>1. PositionInv'
  BY DEF LogInv, CursorInv, PositionInv, GiveUp
<1>2. RoundInv' /\ PairsInv'
  BY DEF RoundInv, PairsInv, Holding, GiveUp
<1>3. NoEventMissed'
  BY QueuedKept DEF LogInv, NoEventMissed, Wants
<1> QED
  BY <1>1, <1>2, <1>3 DEF LogInv, CursorInv

\* A round inserts what it read before it saves where it got to
LEMMA RoundKeeps ==
  ASSUME TypeOK, LogInv, OutboxKept,
         DrainList \/ (\E p \in todo : EnqueueDelivery(p)) \/ DrainDone \/ DrainSave
  PROVE  LogInv'
<1> USE DEF LogInv, CursorInv
<1>1. UNCHANGED <<types, floor, hooks, first, touched, overrun>>
  BY DEF DrainList, EnqueueDelivery, DrainDone, DrainSave, TailRest, logVars
<1>2. CASE DrainList /\ ~GiveUp
  <2>1. tail = "list" /\ tail' = "fanout" /\ todo' = TailPairs /\ UNCHANGED <<read, saved, cursor>>
    BY <1>2 DEF DrainList
  <2>2. PositionInv' /\ RoundInv'
    BY <1>1, <2>1 DEF PositionInv, RoundInv, Holding
  <2>3. PairsInv'
    BY <1>1, <2>1 DEF PairsInv, TailPairs, Wants
  <2>4. NoEventMissed'
    BY <1>1, <2>1, QueuedKept DEF NoEventMissed, Wants
  <2> QED
    BY <2>2, <2>3, <2>4
<1>3. ASSUME NEW p \in todo, EnqueueDelivery(p), ~GiveUp PROVE LogInv'
  <2>1. /\ tail = "fanout" /\ todo' = todo \ {p}
        /\ UNCHANGED <<tail, read, saved, cursor>>
        /\ rows + 1 \in Row
        /\ outbox'[rows + 1].hook = p[2] /\ outbox'[rows + 1].event = p[1]
        /\ outbox'[rows + 1].status = "pending"
    BY <1>3, WebhooksAssumption DEF EnqueueDelivery, EnqueueFails, TypeOK, Row
  <2>2. PositionInv' /\ RoundInv'
    BY <1>1, <2>1 DEF PositionInv, RoundInv, Holding
  <2>3. PairsInv'
    <3>1. ASSUME NEW h \in Hook, NEW e, <<e, h>> = p PROVE Queued(h, e)'
      BY <2>1, <3>1 DEF Queued
    <3> QED
      BY <1>1, <2>1, <3>1, QueuedKept DEF PairsInv, Wants
  <2>4. NoEventMissed'
    BY <1>1, <2>1, QueuedKept DEF NoEventMissed, Wants
  <2> QED
    BY <2>2, <2>3, <2>4
<1>4. CASE DrainDone
  <2>1. tail = "fanout" /\ tail' = "save" /\ todo = {} /\ UNCHANGED <<read, todo, saved, cursor>>
    BY <1>4 DEF DrainDone
  <2>2. PositionInv' /\ RoundInv'
    BY <1>1, <2>1 DEF PositionInv, RoundInv, Holding
  <2>3. PairsInv'
    BY <1>1, <2>1, QueuedKept DEF PairsInv, Wants
  <2>4. NoEventMissed'
    BY <1>1, <2>1, QueuedKept DEF NoEventMissed, Wants
  <2> QED
    BY <2>2, <2>3, <2>4
<1>5. ASSUME NEW e \in read, IsLast(e), saved' = e, cursor' = e, DrainSave PROVE LogInv'
  <2>1. tail = "save" /\ tail' = "idle" /\ todo = {}
    BY <1>5 DEF DrainSave, GiveUp, PairsInv
  <2>2. e \in Event /\ e \in Nat /\ e > saved /\ e <= Len(types) /\ saved \in Int
    BY <2>1 DEF TypeOK, None, Event, RoundInv, Holding
  <2>3. PositionInv'
    <3>1. \A f \in Event : f > e => f > saved
      BY <2>2 DEF Event
    <3> QED
      BY <1>1, <1>5, <2>1, <2>2, <3>1 DEF PositionInv, None
  <2>4. RoundInv' /\ PairsInv'
    BY <2>1 DEF RoundInv, PairsInv, Holding
  <2>5. NoEventMissed'
    <3> SUFFICES ASSUME NEW h \in Hook \ touched, NEW f \in 1..Len(types),
                        Wants(h, types[f]), f > first
                 PROVE  Queued(h, f)' \/ f > e \/ f \in overrun
      BY <1>1, <1>5 DEF NoEventMissed, Wants
    <3>1. CASE f <= saved
      <4>1. saved # None /\ ~(f > saved)
        BY <2>1, <2>2, <3>1 DEF PositionInv
      <4> QED
        BY <4>1, QueuedKept DEF NoEventMissed
    <3>2. CASE f > saved /\ f <= e
      <4>1. f \in Event
        BY WebhooksAssumption DEF TypeOK, Event
      <4>2. f \in read \/ f \in overrun
        BY <2>1, <3>2, <4>1 DEF RoundInv, Holding
      <4> QED
        BY <2>1, <4>2, QueuedKept DEF PairsInv
    <3> QED
      BY <2>2, <3>1, <3>2
  <2> QED
    BY <2>3, <2>4, <2>5
<1>6. CASE GiveUp /\ UNCHANGED <<saved, cursor>>
  <2>1. tail \in {"list", "fanout", "save"}
    BY DEF DrainList, EnqueueDelivery, DrainDone, DrainSave
  <2> QED
    BY <1>1, <1>6, <2>1, GiveUpKeeps
<1>7. CASE DrainSave
  BY <1>5, <1>6, <1>7 DEF DrainSave
<1>8. (DrainList \/ \E p \in todo : EnqueueDelivery(p)) => UNCHANGED <<saved, cursor>>
  BY DEF DrainList, EnqueueDelivery
<1> QED
  BY <1>2, <1>3, <1>4, <1>6, <1>7, <1>8

\* Starting, signalling and ending the process lose nothing that was saved
LEMMA ProcessKeeps ==
  ASSUME TypeOK, LogInv, OutboxKept, Process
  PROVE  LogInv'
<1> USE DEF LogInv, CursorInv
<1>1. UNCHANGED <<types, floor, hooks, saved, first, touched, overrun>>
  BY DEF Process, Start, Signal, Stop, logVars, tailVars
<1>2. CASE Signal
  BY <1>2, <1>1, LogFrame DEF Signal, tailVars
<1>3. CASE Start \/ Stop
  <2>1. tail' \in {"start", "down"} /\ cursor' \in {cursor, 0}
    BY <1>3 DEF Start, Stop
  <2>2. Len(types) \in Nat
    BY DEF TypeOK
  <2>3. PositionInv'
    BY <1>1, <2>1, <2>2 DEF PositionInv
  <2>4. RoundInv' /\ PairsInv'
    BY <2>1 DEF RoundInv, PairsInv, Holding
  <2>5. NoEventMissed'
    BY <1>1, QueuedKept DEF NoEventMissed, Wants
  <2> QED
    BY <2>3, <2>4, <2>5
<1> QED
  BY <1>2, <1>3 DEF Process

\* CursorInv and NoEventMissed together are inductive over the typed states
LEMMA NextLog == TypedAttempts /\ LogInv /\ [Next]_vars => LogInv'
<1> SUFFICES ASSUME TypeOK, AttemptInv, LogInv, [Next]_vars PROVE LogInv'
  BY DEF TypedAttempts
<1>1. OutboxKept
  BY RowsKept
<1>2. CASE LogNext
  BY <1>1, <1>2, RecordKeeps, PurgeKeeps, AdministratorKeeps, StartKeeps, DrainKeeps, RoundKeeps
  DEF LogNext, Tailer
<1>3. CASE Deliver
  <2>1. UNCHANGED <<types, floor, hooks, saved, tail, cursor, read, todo, first, touched, overrun>>
    BY <1>3 DEF Deliver, DeliverDue, DeliverDone, Worker, Skip, Lookup, Post, Write,
                BackoffElapses, PurgeDeliveries, WorkRest, logVars, tailVars
  <2> QED
    BY <1>1, <2>1, LogFrame
<1>4. CASE Process
  BY <1>1, <1>4, ProcessKeeps
<1>5. CASE UNCHANGED vars
  BY <1>1, <1>5, LogFrame DEF vars, logVars, tailVars
<1> QED
  BY <1>2, <1>3, <1>4, <1>5 DEF Next

\* An empty log misses nothing
LEMMA InitLog == Init => LogInv
<1> SUFFICES ASSUME Init PROVE LogInv
  OBVIOUS
<1>1. Len(types) = 0
  BY DEF Init
<1>2. PositionInv
  BY <1>1 DEF Init, PositionInv, None, Event
<1>3. RoundInv /\ PairsInv
  BY DEF Init, RoundInv, PairsInv, Holding
<1>4. NoEventMissed
  BY <1>1 DEF NoEventMissed
<1> QED
  BY <1>2, <1>3, <1>4 DEF LogInv, CursorInv

\* What the tailer has in hand lies beyond the saved cursor without a gap, and is
\* in the outbox or still to be inserted, in every behaviour.
THEOREM CursorInvariant == Spec => []CursorInv
<1>1. TypedAttempts /\ LogInv => CursorInv
  BY DEF LogInv
<1> QED
  BY InitTypedAttempts, NextTypedAttempts, InitLog, NextLog, <1>1, PTL DEF Spec

\* No failed statement, restart or deletion of another subscription makes the
\* tailer skip an event that a subscription wants.
THEOREM EventsKept == Spec => []NoEventMissed
<1>1. TypedAttempts /\ LogInv => NoEventMissed
  BY DEF LogInv
<1> QED
  BY InitTypedAttempts, NextTypedAttempts, InitLog, NextLog, <1>1, PTL DEF Spec

-----------------------------------------------------------------------------
(* The order of the outbox.                                                *)

\* The rows are those that were there, for the same events
RowsSame ==
  \A r \in Row : /\ outbox'[r].status # "none" <=> outbox[r].status # "none"
                 /\ outbox[r].status # "none" => /\ outbox'[r].hook = outbox[r].hook
                                                 /\ outbox'[r].event = outbox[r].event

\* Only EnqueueDelivery inserts a row
LEMMA NoOtherRow ==
  ASSUME TypeOK, AttemptInv, [Next]_vars, ~\E p \in todo : EnqueueDelivery(p) /\ rows' = rows + 1
  PROVE  RowsSame
<1>k. OutboxKept
  BY RowsKept
<1> SUFFICES ASSUME NEW r \in Row, outbox[r].status = "none" PROVE outbox'[r].status = "none"
  BY <1>k DEF OutboxKept, RowsSame
<1>1. CASE UNCHANGED outbox
  BY <1>1
<1>2. ASSUME NEW h \in Hook, DeleteWebhook(h) PROVE outbox'[r] = outbox[r]
  BY <1>2 DEF DeleteWebhook
<1>3. ASSUME NEW p \in todo, EnqueueDelivery(p) PROVE UNCHANGED outbox
  BY <1>3 DEF EnqueueDelivery, boxVars
<1>4. ASSUME NEW q \in Row, Write(q) \/ BackoffElapses(q) \/ PurgeDeliveries(q)
      PROVE  outbox'[r] = outbox[r]
  <2>1. outbox[q].status # "none"
    BY <1>4 DEF Write, BackoffElapses, PurgeDeliveries, AttemptInv, Reason
  <2> QED
    BY <1>4, <2>1 DEF Write, BackoffElapses, PurgeDeliveries, TypeOK
<1>5. CASE LogNext
  BY <1>5, <1>1, <1>2, <1>3
  DEF LogNext, RecordEvent, PurgeEvents, Administrator, CreateWebhook, UpdateWebhook, Tailer,
      StartCursor, StartHead, StartMark, Drain, DrainList, DrainDone, DrainSave, boxVars
<1>6. CASE Deliver
  BY <1>6, <1>1, <1>4 DEF Deliver, DeliverDue, DeliverDone, Worker, Skip, Lookup, Post
<1>7. CASE Process \/ UNCHANGED vars
  BY <1>7, <1>1 DEF Process, Start, Signal, Stop, vars, boxVars
<1> QED
  BY <1>5, <1>6, <1>7 DEF Next

\* The numbers the order is about
LEMMA OrderTypes ==
  TypeOK => /\ saved \in Int /\ floor \in Int /\ read \subseteq Event /\ again \subseteq Event
            /\ Event \subseteq Int /\ \A r \in Row : outbox[r].event \in Int
BY DEF TypeOK, None, Event, Delivery

\* Outside a round the cursor may move on, and the log may lose its oldest events
LEMMA OrderFrame ==
  ASSUME TypeOK, TypeOK', OrderInv, RowsSame, floor <= floor', saved <= saved',
         UNCHANGED <<again, read, todo>>,
         UNCHANGED <<tail, saved>> \/ (~Holding /\ ~Holding')
  PROVE  OrderInv'
<1>t. /\ saved \in Int /\ saved' \in Int /\ floor \in Int /\ floor' \in Int /\ Event \subseteq Int
      /\ \A r \in Row : outbox[r].event \in Int
  <2>0. saved' \in {None} \cup (0..MaxEvents) /\ floor' \in 0..MaxEvents
    BY DEF TypeOK
  <2>1. saved' \in Int /\ floor' \in Int
    BY <2>0 DEF None
  <2> QED
    BY <2>1, OrderTypes
<1>1. OutboxInOrder'
  BY DEF OrderInv, OutboxInOrder, RowsSame
<1>2. PlaceInv'
  BY <1>t DEF OrderInv, PlaceInv, RowsSame, Holding
<1>3. AgainInv'
  <2>1. \A f \in Event : (saved' < f => saved < f) /\ (f <= floor => f <= floor')
    BY <1>t
  <2> QED
    BY <2>1 DEF OrderInv, AgainInv, Holding
<1>4. TodoInv'
  BY DEF OrderInv, TodoInv, RowsSame, Holding
<1> QED
  BY <1>1, <1>2, <1>3, <1>4 DEF OrderInv

\* A round that is given up is read again from where it started
LEMMA OrderAgain ==
  ASSUME TypeOK, OrderInv, RowsSame, UNCHANGED <<saved, floor>>, ~Holding', read' = {}, todo' = {},
         again' = again \cup read \/ (tail = "list" /\ UNCHANGED again)
  PROVE  OrderInv'
<1>1. OutboxInOrder'
  BY DEF OrderInv, OutboxInOrder, RowsSame
<1>2. PlaceInv'
  BY DEF OrderInv, PlaceInv, RowsSame
<1>3. AgainInv'
  BY DEF OrderInv, AgainInv
<1>4. TodoInv'
  BY DEF TodoInv
<1> QED
  BY <1>1, <1>2, <1>3, <1>4 DEF OrderInv

\* A round reads on from the cursor
LEMMA DrainOrder ==
  ASSUME TypeOK, PositionInv, OrderInv, RowsSame, Drain
  PROVE  OrderInv'
<1>0. /\ UNCHANGED <<saved, floor, again, todo>> /\ tail = "idle" /\ cursor = saved
      /\ read' = Oldest(Since) /\ tail' \in {"idle", "list"}
      /\ tail' = "idle" => Since = {}
  BY DEF Drain, TailRest, logVars, PositionInv
<1>t. /\ saved \in Int /\ floor \in Int /\ Event \subseteq Int /\ again \subseteq Event
      /\ Len(types) \in Nat
  BY OrderTypes DEF TypeOK
<1>r. \A e \in read' : e \in Event /\ e > floor /\ e > saved /\ e <= Len(types)
  BY <1>0 DEF Oldest, Since
<1>1. OutboxInOrder'
  BY <1>0 DEF OrderInv, OutboxInOrder, RowsSame
<1>2. PlaceInv'
  BY <1>0 DEF OrderInv, PlaceInv, RowsSame
<1>3. AgainInv'
  <2>1. ~Holding' => read' = {}
    BY <1>0 DEF Holding, Oldest
  <2>2. ASSUME NEW e \in read', NEW f \in Event, saved < f, f <= e
        PROVE  f \in read' \/ f <= floor
    <3>1. CASE f > floor
      <4>1. f \in Since
        <5>1. e \in Int /\ f \in Int /\ e <= Len(types)
          BY <1>r, <1>t
        <5> QED
          BY <1>0, <1>t, <2>2, <3>1, <5>1 DEF Since
      <4> QED
        BY <1>0, <2>2, <4>1, OldestIsPrefix
    <3>2. f \in Int
      BY <1>t
    <3> QED
      BY <1>t, <3>1, <3>2
  <2>3. ASSUME NEW e \in again, NEW f \in read', f <= e PROVE f \in again
    <3>1. f \in again \/ f <= floor
      BY <1>r, <1>t, <2>3 DEF OrderInv, AgainInv
    <3>2. f \in Int /\ f > floor
      BY <1>r, <1>t
    <3> QED
      BY <1>t, <3>1, <3>2
  <2>4. \A e \in read' : saved < e
    BY <1>r, <1>t
  <2> QED
    BY <1>0, <2>1, <2>2, <2>3, <2>4 DEF OrderInv, AgainInv
<1>4. TodoInv'
  BY <1>0 DEF OrderInv, TodoInv
<1> QED
  BY <1>1, <1>2, <1>3, <1>4 DEF OrderInv

\* The pairs to insert come after what is there, or are read again
LEMMA ListOrder ==
  ASSUME TypeOK, OrderInv, RowsSame, tail = "list", tail' = "fanout", todo' = TailPairs,
         UNCHANGED <<saved, floor, again, read>>
  PROVE  OrderInv'
<1>t. /\ saved \in Int /\ Event \subseteq Int /\ again \subseteq Event /\ read \subseteq Event
      /\ \A r \in Row : outbox[r].event \in Int
  BY OrderTypes
<1>1. OutboxInOrder'
  BY DEF OrderInv, OutboxInOrder, RowsSame
<1>2. PlaceInv'
  BY DEF OrderInv, PlaceInv, RowsSame
<1>3. AgainInv'
  BY DEF OrderInv, AgainInv, Holding
<1>4. TodoInv'
  <2>1. ASSUME NEW p \in todo', NEW r \in Row, outbox[r].status # "none"
        PROVE  p[1] \in read /\ (outbox[r].event < p[1] \/ p[1] \in again)
    <3>1. p[1] \in read
      BY DEF TailPairs
    <3>2. saved < p[1] /\ \A e \in again : p[1] <= e => p[1] \in again
      BY <3>1 DEF OrderInv, AgainInv, Holding
    <3>3. outbox[r].event <= saved \/ outbox[r].event \in again
      BY <2>1 DEF OrderInv, PlaceInv
    <3>4. p[1] \in Int /\ outbox[r].event \in Int
      BY <1>t, <3>1
    <3>5. CASE outbox[r].event <= saved
      BY <1>t, <3>1, <3>2, <3>4, <3>5
    <3>6. CASE outbox[r].event \in again
      BY <3>1, <3>2, <3>4, <3>6
    <3> QED
      BY <3>3, <3>5, <3>6
  <2>2. \A p \in todo' : p[1] \in read
    BY DEF TailPairs
  <2> QED
    BY <2>1, <2>2 DEF TodoInv, RowsSame
<1> QED
  BY <1>1, <1>2, <1>3, <1>4 DEF OrderInv

\* A row is inserted for the first of the pairs
LEMMA EnqueueOrder ==
  ASSUME TypeOK, AttemptInv, OrderInv, NEW p \in todo, EnqueueDelivery(p), rows' = rows + 1
  PROVE  OrderInv'
<1>0. /\ tail = "fanout" /\ UNCHANGED <<tail, saved, read, again>> /\ todo' = todo \ {p}
      /\ \A q \in todo : p[1] <= q[1]
      /\ rows \in Nat /\ rows + 1 \in Row
  BY WebhooksAssumption DEF EnqueueDelivery, boxVars, TypeOK, Row
<1>f. UNCHANGED floor
  BY DEF EnqueueDelivery, TailRest, logVars
<1>t. /\ todo \subseteq Event \X Hook /\ Event \subseteq Int
      /\ \A r \in Row : outbox[r].event \in Int
  BY OrderTypes DEF TypeOK
<1>n. /\ outbox'[rows + 1].hook = p[2] /\ outbox'[rows + 1].event = p[1]
      /\ \A r \in Row : r # rows + 1 => outbox'[r] = outbox[r]
  BY <1>0 DEF EnqueueDelivery, boxVars, TypeOK
<1>o. \A r \in Row : r > rows => outbox[r].status = "none"
  BY DEF AttemptInv, NoDelivery
<1>p. /\ p[1] \in read /\ \A r \in Row : outbox[r].status # "none" /\ outbox[r].hook = p[2]
                                           => outbox[r].event < p[1] \/ p[1] \in again
  BY DEF OrderInv, TodoInv
<1>1. OutboxInOrder'
  <2> SUFFICES ASSUME NEW q \in Row, NEW r \in Row, q < r, outbox'[q].hook = outbox'[r].hook,
                      outbox'[q].status # "none", outbox'[r].status # "none"
               PROVE  outbox'[q].event < outbox'[r].event \/ outbox'[r].event \in again
    BY <1>0 DEF OutboxInOrder
  <2>0. q \in Int /\ r \in Int
    BY DEF Row
  <2>1. CASE r = rows + 1
    BY <1>n, <1>p, <2>0, <2>1
  <2>2. CASE r # rows + 1
    <3>1. r <= rows /\ q # rows + 1
      BY <1>0, <1>n, <1>o, <2>0, <2>2
    <3> QED
      BY <1>n, <2>2, <3>1 DEF OrderInv, OutboxInOrder
  <2> QED
    BY <2>1, <2>2
<1>2. PlaceInv'
  <2>1. ASSUME NEW r \in Row, outbox'[r].status # "none"
        PROVE  outbox'[r].event <= saved \/ outbox'[r].event \in again \/ outbox'[r].event \in read
    BY <1>n, <1>p, <2>1 DEF OrderInv, PlaceInv
  <2> QED
    BY <1>0, <2>1 DEF PlaceInv
<1>3. AgainInv'
  BY <1>0, <1>f DEF OrderInv, AgainInv, Holding
<1>4. TodoInv'
  <2>1. ASSUME NEW q \in todo', NEW r \in Row, outbox'[r].status # "none", outbox'[r].hook = q[2]
        PROVE  outbox'[r].event < q[1] \/ q[1] \in again
    <3>1. CASE r = rows + 1
      <4>1. p[1] # q[1]
        BY <1>0, <1>n, <1>t, <2>1, <3>1
      <4>2. p[1] \in Int /\ q[1] \in Int /\ p[1] <= q[1]
        BY <1>0, <1>t
      <4> QED
        BY <1>n, <3>1, <4>1, <4>2
    <3>2. CASE r # rows + 1
      BY <1>0, <1>n, <2>1, <3>2 DEF OrderInv, TodoInv
    <3> QED
      BY <3>1, <3>2
  <2>2. \A q \in todo' : q[1] \in read
    BY <1>0 DEF OrderInv, TodoInv
  <2> QED
    BY <1>0, <2>1, <2>2 DEF TodoInv
<1> QED
  BY <1>1, <1>2, <1>3, <1>4 DEF OrderInv

\* The cursor is saved past what was inserted
LEMMA SaveOrder ==
  ASSUME TypeOK, OrderInv, RowsSame, tail = "save", tail' = "idle", read' = {}, todo' = {},
         NEW e \in read, IsLast(e), saved' = e, UNCHANGED <<floor, again>>
  PROVE  OrderInv'
<1>t. /\ saved \in Int /\ Event \subseteq Int /\ again \subseteq Event /\ read \subseteq Event
      /\ \A r \in Row : outbox[r].event \in Int
  BY OrderTypes
<1>0. saved < e /\ \A f \in read : f <= e
  BY DEF OrderInv, AgainInv, Holding, IsLast
<1>1. OutboxInOrder'
  BY DEF OrderInv, OutboxInOrder, RowsSame
<1>2. PlaceInv'
  <2>1. ASSUME NEW r \in Row, outbox[r].status # "none"
        PROVE  outbox[r].event <= e \/ outbox[r].event \in again
    BY <1>t, <1>0, <2>1 DEF OrderInv, PlaceInv
  <2> QED
    BY <2>1 DEF PlaceInv, RowsSame
<1>3. AgainInv'
  <2>0. e \in Int
    BY <1>t
  <2>1. \A f \in Event : e < f => saved < f
    BY <1>t, <1>0, <2>0
  <2> QED
    BY <2>1 DEF OrderInv, AgainInv, Holding
<1>4. TodoInv'
  BY DEF TodoInv
<1> QED
  BY <1>1, <1>2, <1>3, <1>4 DEF OrderInv

\* OrderInv is inductive over the typed states
LEMMA NextOrder == TypedAttempts /\ TypedAttempts' /\ LogInv /\ OrderInv /\ [Next]_vars => OrderInv'
<1> SUFFICES ASSUME TypeOK, TypeOK', AttemptInv, PositionInv, OrderInv, [Next]_vars PROVE OrderInv'
  BY DEF TypedAttempts, LogInv, CursorInv
<1>t. saved \in Int /\ floor \in Int
  BY OrderTypes
<1>1. ASSUME NEW p \in todo, EnqueueDelivery(p), rows' = rows + 1 PROVE OrderInv'
  BY <1>1, EnqueueOrder
<1>2. CASE ~\E p \in todo : EnqueueDelivery(p) /\ rows' = rows + 1
  <2>s. RowsSame
    BY <1>2, NoOtherRow
  <2>1. CASE UNCHANGED <<saved, tail, again, read, todo>> /\ floor <= floor'
    BY <1>t, <2>s, <2>1, OrderFrame
  <2>2. CASE (\E t \in EventType : RecordEvent(t)) \/ PurgeEvents \/ Administrator
    <3>1. UNCHANGED <<saved, tail, again, read, todo>>
      BY <2>2
      DEF RecordEvent, PurgeEvents, Administrator, CreateWebhook, UpdateWebhook, DeleteWebhook, Request,
          logVars, tailVars
    <3>2. floor <= floor'
      <4>1. CASE PurgeEvents
        <5>1. floor' \in Int
          BY DEF TypeOK
        <5> QED
          BY <1>t, <4>1, <5>1 DEF PurgeEvents
      <4>2. CASE ~PurgeEvents
        <5>1. UNCHANGED floor
          BY <2>2, <4>2
          DEF RecordEvent, Administrator, CreateWebhook, UpdateWebhook, DeleteWebhook, Request, logVars
        <5> QED
          BY <1>t, <5>1
      <4> QED
        BY <4>1, <4>2
    <3> QED
      BY <2>1, <3>1, <3>2
  <2>3. CASE StartCursor \/ StartHead \/ StartMark
    <3>1. UNCHANGED <<again, read, todo, floor>> /\ ~Holding /\ ~Holding'
      BY <2>3 DEF StartCursor, StartHead, StartMark, TailRest, logVars, Holding
    <3>2. saved <= saved'
      <4>1. CASE StartMark
        <5>1. saved = None /\ cursor \in Nat
          BY <4>1 DEF StartMark, PositionInv, TypeOK
        <5> QED
          BY <1>t, <4>1, <5>1 DEF StartMark, None
      <4>2. CASE StartCursor \/ StartHead
        BY <1>t, <4>2 DEF StartCursor, StartHead
      <4> QED
        BY <2>3, <4>1, <4>2
    <3> QED
      BY <1>t, <2>s, <3>1, <3>2, OrderFrame
  <2>4. CASE Drain
    BY <2>s, <2>4, DrainOrder
  <2>5. CASE DrainList
    <3>1. UNCHANGED <<saved, floor, again>> /\ tail = "list"
      BY <2>5 DEF DrainList, TailRest, logVars
    <3>2. CASE GiveUp
      BY <2>s, <3>1, <3>2, OrderAgain DEF GiveUp, Holding
    <3>3. CASE todo' = TailPairs /\ tail' = "fanout" /\ UNCHANGED read
      BY <2>s, <3>1, <3>3, ListOrder
    <3> QED
      BY <2>5, <3>2, <3>3 DEF DrainList
  <2>6. ASSUME NEW p \in todo, EnqueueDelivery(p) PROVE OrderInv'
    <3>1. UNCHANGED <<saved, floor>> /\ EnqueueFails(p)
      BY <1>2, <2>6 DEF EnqueueDelivery, TailRest, logVars
    <3> QED
      BY <2>s, <3>1, OrderAgain DEF EnqueueFails, GiveUp, Holding
  <2>7. CASE DrainDone
    <3>1. /\ UNCHANGED <<saved, floor, again, read, todo>> /\ todo = {}
          /\ tail = "fanout" /\ tail' = "save"
      BY <2>7 DEF DrainDone, TailRest, logVars
    <3>2. OutboxInOrder' /\ TodoInv'
      BY <2>s, <3>1 DEF OrderInv, OutboxInOrder, TodoInv, RowsSame
    <3>3. PlaceInv'
      BY <2>s, <3>1 DEF OrderInv, PlaceInv, RowsSame
    <3>4. AgainInv'
      BY <3>1 DEF OrderInv, AgainInv, Holding
    <3> QED
      BY <3>2, <3>3, <3>4 DEF OrderInv
  <2>8. CASE DrainSave
    <3>1. UNCHANGED floor /\ GiveUp /\ tail = "save"
      BY <2>8 DEF DrainSave, TailRest, logVars
    <3>2. CASE again' = again \cup read /\ UNCHANGED saved
      BY <2>s, <3>1, <3>2, OrderAgain DEF GiveUp, Holding
    <3>3. ASSUME NEW e \in read, IsLast(e), saved' = e, UNCHANGED again PROVE OrderInv'
      BY <2>s, <3>1, <3>3, SaveOrder DEF GiveUp
    <3> QED
      BY <2>8, <3>2, <3>3 DEF DrainSave
  <2>9. CASE Deliver \/ Signal \/ UNCHANGED vars
    <3>1. UNCHANGED <<saved, tail, again, read, todo, floor>>
      BY <2>9
      DEF Deliver, DeliverDue, DeliverDone, Worker, Skip, Lookup, Post, Write, BackoffElapses,
        PurgeDeliveries, WorkRest, Signal, vars, logVars, tailVars
    <3> QED
      BY <1>t, <2>1, <3>1
  <2>10. CASE Start
    <3>1. UNCHANGED <<again, read, todo, floor, saved>> /\ ~Holding /\ ~Holding'
      BY <2>10 DEF Start, logVars, Holding
    <3> QED
      BY <1>t, <2>s, <3>1, OrderFrame
  <2>11. CASE Stop
    <3>1. UNCHANGED <<saved, floor>> /\ ~Holding'
      BY <2>11 DEF Stop, logVars, Holding
    <3> QED
      BY <2>s, <2>11, <3>1, OrderAgain DEF Stop
  <2> QED
    BY <2>2, <2>3, <2>4, <2>5, <2>6, <2>7, <2>8, <2>9, <2>10, <2>11
    DEF Next, LogNext, Tailer, Process
<1> QED
  BY <1>1, <1>2

\* An empty outbox is in order
LEMMA InitOrder == Init => OrderInv
<1> SUFFICES ASSUME Init PROVE OrderInv
  OBVIOUS
<1>1. \A r \in Row : outbox[r].status = "none"
  BY DEF Init, NoDelivery
<1>2. read = {} /\ todo = {} /\ again = {} /\ ~Holding
  BY DEF Init, Holding
<1> QED
  BY <1>1, <1>2 DEF OrderInv, OutboxInOrder, PlaceInv, AgainInv, TodoInv

\* A subscription gets its events in the order of the log and none twice, but for
\* those of a round of drain that did not come to save its cursor: whatever fails,
\* and whenever the process ends.
THEOREM OutboxOrdered == Spec => []OutboxInOrder
<1>1. OrderInv => OutboxInOrder
  BY DEF OrderInv
<1> QED
  BY InitTypedAttempts, NextTypedAttempts, InitLog, NextLog, InitOrder, NextOrder, <1>1, PTL DEF Spec
=============================================================================
