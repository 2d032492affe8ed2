-------------------------------- MODULE Sender --------------------------------
(***************************************************************************)
(* internal/sender: the delivery loop.  One goroutine (Run) alternates     *)
(* between passes, which claim due rows and hand them to a pool of workers *)
(* until nothing is left to claim, and maintenance, which expires, gives   *)
(* back stale claims and purges.  The workers of a batch run concurrently  *)
(* with each other and with every other component, but never with the next *)
(* claim nor with maintenance: pass waits for them.                        *)
(*                                                                         *)
(* A message is worked on by at most one goroutine, so the position in     *)
(* deliver, settle, bounce and the body of maintain's loop is kept per     *)
(* message (job).  Every statement and file operation is a step of its own.*)
(***************************************************************************)
EXTENDS QueueStore

CONSTANTS Workers,         \* queue.workers
          ClaimLimit,      \* rows per claim (Workers * 4 in the code)
          OutboundEnabled, \* outbound.enabled
          Bounces,         \* queue.bounces = "authenticated"
          Authenticated    \* received mail whose sender passed SPF or DKIM

ASSUME SenderAssumption == /\ Workers \in Nat \ {0} /\ ClaimLimit \in Nat \ {0}
                           /\ OutboundEnabled \in BOOLEAN /\ Bounces \in BOOLEAN
                           /\ Authenticated \subseteq InMsg

VARIABLES
  loop,    \* where Run is
  ctx,     \* the context of the process: "live" until a shutdown signal
  batch,   \* claimed (or expired) rows no worker has begun with
  job,     \* [Msg -> where the work on the message is]
  outcome, \* [Msg -> how the attempt ended]
  held,    \* [Msg -> envelope_to as the claim returned it]
  parts,   \* [Msg -> [acc, def, rej]]: the recipients struct of the attempt
  dsn,     \* [Msg -> set of at most one id: the bounce being queued]
  reached, \* history: recipients a destination took responsibility for
  twice,   \* history: recipients that were sent a second copy
  refused, \* history: recipients refused with a 5xx
  told,    \* history: recipients reported to the sender in a queued bounce
  shaken   \* history: messages hit by a stop, a lost reply or a failed write

senderVars == <<loop, ctx, batch, job, outcome, held, parts, dsn,
                reached, twice, refused, told, shaken>>
historyVars == <<reached, twice, refused, told, shaken>>

Loop == {"down", "idle", "claim", "claimOut", "work", "expire", "release", "purge"}
Job  == {"none", "open", "bounce", "report", "narrow", "mark", "unlink"}
Outcome == {"none", "temporary", "permanent", "lost", "parts", "expired"}

NoParts == [acc |-> {}, def |-> {}, rej |-> {}]
Parts   == [acc : SUBSET Rcpt, def : SUBSET Rcpt, rej : SUBSET Rcpt]

SenderTypeOK ==
  /\ loop \in Loop /\ ctx \in {"live", "done"} /\ batch \subseteq Msg
  /\ job \in [Msg -> Job] /\ outcome \in [Msg -> Outcome]
  /\ held \in [Msg -> SUBSET Rcpt] /\ parts \in [Msg -> Parts]
  /\ dsn \in [Msg -> SUBSET DsnMsg]
  /\ reached \in [Msg -> SUBSET Rcpt] /\ twice \in [Msg -> SUBSET Rcpt]
  /\ refused \in [Msg -> SUBSET Rcpt] /\ told \in [Msg -> SUBSET Rcpt]
  /\ shaken \subseteq Msg

SenderInit ==
  /\ loop = "down" /\ ctx = "live" /\ batch = {}
  /\ job = [m \in Msg |-> "none"] /\ outcome = [m \in Msg |-> "none"]
  /\ held = [m \in Msg |-> {}] /\ parts = [m \in Msg |-> NoParts]
  /\ dsn = [m \in Msg |-> {}]
  /\ reached = [m \in Msg |-> {}] /\ twice = [m \in Msg |-> {}]
  /\ refused = [m \in Msg |-> {}] /\ told = [m \in Msg |-> {}]
  /\ shaken = {}

Working == {m \in Msg : job[m] # "none"}

-----------------------------------------------------------------------------
(* Every statement runs under the process context: after the shutdown      *)
(* signal it fails, before it fails only when the database does.           *)

Succeeds == ctx = "live" /\ NoFault
Fails    == IF ctx = "done" THEN NoFault ELSE Fault

-----------------------------------------------------------------------------
(* Run and pass.                                                           *)

\* ReleaseOrphanedClaims(now) when the process starts
Start ==
  /\ loop = "down"
  /\ loop' = "idle" /\ ctx' = "live"
  /\ \/ ReleaseOrphanedClaims(Delivering) /\ NoFault
     \/ Fault /\ UNCHANGED queue
  /\ UNCHANGED <<spool, domain, home, rcpts, writtenOff, batch, job, outcome, held,
                 parts, dsn, historyVars>>

\* The ticker, or the health checker's wake-up
Wake ==
  /\ loop = "idle" /\ ctx = "live"
  /\ loop' = "claim"
  /\ UNCHANGED <<storeVars, ctx, batch, job, outcome, held, parts, dsn, historyVars>>

\* What LIMIT leaves of the rows the subquery selects
Limited(S) ==
  IF Cardinality(S) <= ClaimLimit THEN {S}
  ELSE {T \in SUBSET S : Cardinality(T) = ClaimLimit}

ClaimRows(S) ==
  /\ Claim(S)
  /\ batch' = batch \cup S
  /\ held' = [m \in Msg |-> IF m \in S THEN queue[m].to ELSE held[m]]

\* ClaimBatch; a pass ends at once on a canceled context or an error
ClaimInbound ==
  /\ loop = "claim"
  /\ \/ /\ Succeeds
        /\ \E S \in Limited({m \in Msg : Claimable(m)}) : ClaimRows(S)
        /\ loop' = "claimOut"
     \/ Fails /\ loop' = "idle" /\ UNCHANGED <<queue, batch, held>>
  /\ UNCHANGED <<spool, domain, home, rcpts, writtenOff, ctx, job, outcome, parts, dsn,
                 historyVars>>

\* ClaimOutboundBatch or ClaimBounceBatch; an error does not end the pass
ClaimOutbound ==
  /\ loop = "claimOut"
  /\ \/ /\ OutboundEnabled \/ Bounces
        /\ Succeeds
        /\ \E S \in Limited({m \in Msg : ClaimableOutbound(m, ~OutboundEnabled)}) :
             /\ ClaimRows(S)
             /\ loop' = IF batch \cup S = {} THEN "idle" ELSE "work"
     \/ /\ (OutboundEnabled \/ Bounces) /\ Fails
        /\ loop' = IF batch = {} THEN "idle" ELSE "work"
        /\ UNCHANGED <<queue, batch, held>>
     \/ /\ ~OutboundEnabled /\ ~Bounces
        /\ loop' = IF batch = {} THEN "idle" ELSE "work"
        /\ UNCHANGED <<queue, batch, held, faults>>
  /\ UNCHANGED <<spool, domain, home, rcpts, writtenOff, ctx, job, outcome, parts, dsn,
                 historyVars>>

\* wg.Wait returns: claim again
BatchDone ==
  /\ loop = "work" /\ batch = {} /\ Working = {}
  /\ loop' = "claim"
  /\ UNCHANGED <<storeVars, ctx, batch, job, outcome, held, parts, dsn, historyVars>>

\* On a canceled context a claimed row may not be handed to any worker
Abandon(m) ==
  /\ loop = "work" /\ ctx = "done" /\ m \in batch
  /\ batch' = batch \ {m}
  /\ shaken' = shaken \cup {m}
  /\ UNCHANGED <<storeVars, loop, ctx, job, outcome, held, parts, dsn,
                 reached, twice, refused, told>>

-----------------------------------------------------------------------------
(* bounce: who is told, and what comes after it in deliver, settle and     *)
(* maintain.                                                               *)

shouldBounce(m) == Bounces /\ m \notin DsnMsg /\ (m \in OutMsg \/ m \in Authenticated)

AfterBounce(m, how, p) ==
  IF how = "lost" THEN "none"
  ELSE IF how # "parts" THEN "unlink"
  ELSE IF p.def # {} THEN "narrow" ELSE "mark"

\* Mutant: settle does not report the recipients refused one by one
ToBounceWhole(m, how, p) ==
  IF shouldBounce(m) /\ how # "parts" THEN "bounce" ELSE AfterBounce(m, how, p)

\* The next step when bounce(m) is called
ToBounce(m, how, p) == IF shouldBounce(m) THEN "bounce" ELSE AfterBounce(m, how, p)

\* Mutant: the bounce of a partial delivery names every recipient
FailuresAll(m) == held[m]

\* The recipients a bounce names
Failures(m) == IF outcome[m] = "parts" THEN parts[m].rej ELSE held[m]

-----------------------------------------------------------------------------
(* deliver.                                                                *)

Take(m) ==
  /\ loop = "work" /\ m \in batch
  /\ Cardinality(Working) < Workers
  /\ batch' = batch \ {m}

\* A worker takes the row: no domain, no body, or a delivery attempt
Begin(m) ==
  /\ Take(m)
  /\ parts' = [parts EXCEPT ![m] = NoParts]
  /\ \/ /\ (Succeeds /\ ~domain[home[m]].exists) \/ Fails
        /\ outcome' = [outcome EXCEPT ![m] = "temporary"]
        /\ job' = [job EXCEPT ![m] = "mark"]
     \/ /\ Succeeds /\ domain[home[m]].exists
        /\ outcome' = [outcome EXCEPT ![m] = IF m \in spool THEN "none" ELSE "lost"]
        /\ job' = [job EXCEPT ![m] = IF m \in spool THEN "open" ELSE "mark"]
  /\ UNCHANGED <<queue, spool, domain, home, rcpts, writtenOff, loop, ctx, held, dsn,
                 historyVars>>

Ending(m, how, p) ==
  /\ outcome' = [outcome EXCEPT ![m] = how]
  /\ parts' = [parts EXCEPT ![m] = p]
  /\ UNCHANGED <<storeVars, loop, ctx, batch, held, dsn, told>>

\* The destinations took the message for the recipients in T
Reach(m, T) ==
  /\ reached' = [reached EXCEPT ![m] = @ \cup T]
  /\ twice' = [twice EXCEPT ![m] = @ \cup (T \cap reached[m])]

\* The attempt fails as a whole, temporarily.  G: recipients whose server had
\* taken the message although its reply never arrived
AttemptFails(m, G) ==
  /\ job[m] = "open" /\ G \subseteq held[m]
  /\ Reach(m, G)
  /\ shaken' = IF G = {} THEN shaken ELSE shaken \cup {m}
  /\ job' = [job EXCEPT ![m] = "mark"]
  /\ UNCHANGED refused
  /\ Ending(m, "temporary", NoParts)

\* The server refuses the whole message with a 5xx
AttemptRefused(m) ==
  /\ job[m] = "open"
  /\ refused' = [refused EXCEPT ![m] = @ \cup held[m]]
  /\ job' = [job EXCEPT ![m] = "mark"]
  /\ UNCHANGED <<reached, twice, shaken>>
  /\ Ending(m, "permanent", NoParts)

\* The recipients are settled one by one.  U: recipients no server was asked
\* about, which only sendDirect leaves behind, when the attempt times out while
\* it works on another domain; G: deferred although their server had taken it,
\* which only a message sent in several transactions can meet
AttemptSettles(m, A, D, R, U, G) ==
  /\ job[m] = "open"
  /\ held[m] = A \cup D \cup R \cup U
  /\ A \cap (D \cup R \cup U) = {} /\ D \cap (R \cup U) = {} /\ R \cap U = {}
  /\ U # {} => m \in OutMsg /\ D \cup R # {}
  /\ G \subseteq D /\ (G # {} => m \in OutMsg \cup DsnMsg)
  /\ Reach(m, A \cup G)
  /\ refused' = [refused EXCEPT ![m] = @ \cup R]
  /\ shaken' = IF G = {} THEN shaken ELSE shaken \cup {m}
  /\ LET p == [acc |-> A, def |-> D, rej |-> R]
     IN /\ job' = [job EXCEPT ![m] = IF R # {} THEN ToBounce(m, "parts", p)
                                               ELSE AfterBounce(m, "parts", p)]
        /\ Ending(m, "parts", p)

-----------------------------------------------------------------------------
(* The writes that end an attempt.                                         *)

\* Where the goroutine goes next; the locals of a job end with it
GoTo(m, j) ==
  /\ job' = [job EXCEPT ![m] = j]
  /\ IF j = "none" THEN /\ outcome' = [outcome EXCEPT ![m] = "none"]
                        /\ held' = [held EXCEPT ![m] = {}]
                        /\ parts' = [parts EXCEPT ![m] = NoParts]
                   ELSE UNCHANGED <<outcome, held, parts>>
  /\ UNCHANGED <<loop, ctx, batch, reached, twice, refused>>

Written(m) == Succeeds /\ Stored(m)
NotWritten(m) == (Succeeds /\ ~Stored(m)) \/ Fails

\* SetRecipients: keep only the deferred ones; a failure is only logged
Narrow(m) ==
  /\ job[m] = "narrow"
  /\ \/ Written(m) /\ SetRecipients(m, parts[m].def) /\ UNCHANGED shaken
     \/ NotWritten(m) /\ UNCHANGED queue /\ shaken' = shaken \cup {m}
  /\ GoTo(m, "mark")
  /\ UNCHANGED <<spool, domain, home, rcpts, writtenOff, dsn, told>>

\* Mutants: a complete delivery is rescheduled; a delivery is complete as soon as
\* one recipient was accepted
DeferredAlways(m) == outcome[m] \in {"temporary", "parts"}

\* Mutant: settled once anybody took the message
DoneEarly(m) == outcome[m] = "parts" /\ parts[m].acc # {}

\* The attempt ends with Reschedule
Deferred(m) == outcome[m] = "temporary" \/ (outcome[m] = "parts" /\ parts[m].def # {})
\* ... with MarkDelivered
Done(m) == outcome[m] = "parts" /\ parts[m].def = {} /\ parts[m].acc # {}

MarkDeferred(m) ==
  /\ job[m] = "mark" /\ Deferred(m)
  /\ \/ Written(m) /\ Reschedule(m) /\ UNCHANGED shaken
     \/ NotWritten(m) /\ UNCHANGED queue /\ shaken' = shaken \cup {m}
  /\ GoTo(m, "none")
  /\ UNCHANGED <<spool, domain, home, rcpts, writtenOff, dsn, told>>

\* If it cannot be recorded, settle returns and the body stays
MarkDone(m) ==
  /\ job[m] = "mark" /\ Done(m)
  /\ \/ Written(m) /\ MarkDelivered(m) /\ GoTo(m, "unlink") /\ UNCHANGED shaken
     \/ NotWritten(m) /\ UNCHANGED queue /\ GoTo(m, "none") /\ shaken' = shaken \cup {m}
  /\ UNCHANGED <<spool, domain, home, rcpts, writtenOff, dsn, told>>

\* MarkFailed; an error is only logged and the work goes on
MarkGivenUp(m) ==
  /\ job[m] = "mark" /\ ~Deferred(m) /\ ~Done(m)
  /\ \/ Written(m) /\ MarkFailed(m) /\ UNCHANGED shaken
     \/ NotWritten(m) /\ UNCHANGED queue /\ shaken' = shaken \cup {m}
  /\ GoTo(m, IF outcome[m] = "parts" THEN "unlink" ELSE ToBounce(m, outcome[m], parts[m]))
  /\ UNCHANGED <<spool, domain, home, rcpts, writtenOff, dsn, told>>

\* blobs.Delete, also of a body that is gone already
Unlink(m) ==
  /\ job[m] = "unlink"
  /\ spool' = spool \ {m}
  /\ GoTo(m, "none")
  /\ UNCHANGED <<queue, domain, home, rcpts, writtenOff, faults, dsn, told, shaken>>

\* An id no message and no bounce under way has used
Fresh(b) == /\ b \in DsnMsg /\ b \notin spool /\ ~Stored(b) /\ rcpts[b] = {}
            /\ \A m \in Msg : b \notin dsn[m]

\* bounce writes the report to the spool ...
BouncePut(m) ==
  /\ job[m] = "bounce"
  /\ \/ \E b \in DsnMsg : /\ Fresh(b)
                          /\ spool' = spool \cup {b}
                          /\ dsn' = [dsn EXCEPT ![m] = {b}]
        /\ GoTo(m, "report")
        /\ UNCHANGED shaken
     \/ /\ shaken' = shaken \cup {m}
        /\ GoTo(m, AfterBounce(m, outcome[m], parts[m]))
        /\ UNCHANGED <<spool, dsn>>
  /\ UNCHANGED <<queue, domain, home, rcpts, writtenOff, faults, told>>

\* ... and queues it, to one recipient: the sender of the message
BounceEnqueue(m) ==
  /\ job[m] = "report"
  /\ \E b \in dsn[m] :
       \/ /\ Succeeds
          /\ \E s \in Rcpt : Enqueue(b, home[m], {s})
          /\ told' = [told EXCEPT ![m] = @ \cup Failures(m)]
          /\ UNCHANGED <<spool, shaken>>
       \/ /\ (Succeeds /\ ~domain[home[m]].exists) \/ Fails
          /\ spool' = spool \ {b}
          /\ shaken' = shaken \cup {m}
          /\ UNCHANGED <<queue, home, rcpts, told>>
  /\ dsn' = [dsn EXCEPT ![m] = {}]
  /\ GoTo(m, AfterBounce(m, outcome[m], parts[m]))
  /\ UNCHANGED <<domain, writtenOff>>

-----------------------------------------------------------------------------
(* maintain.                                                               *)

MaintainExpire ==
  /\ loop = "idle" /\ ctx = "live"
  /\ \/ Succeeds /\ ExpireOverdue /\ batch' = Overdue
     \/ Fails /\ UNCHANGED <<queue, writtenOff, batch>>
  /\ loop' = "expire"
  /\ UNCHANGED <<spool, domain, home, rcpts, ctx, job, outcome, held, parts, dsn,
                 historyVars>>

\* One round of the loop over the expired ids: the row as it is by now is
\* bounced, and the body is removed whatever the row says by now
ExpireOne(m) ==
  /\ loop = "expire" /\ m \in batch /\ Working = {}
  /\ batch' = batch \ {m}
  /\ outcome' = [outcome EXCEPT ![m] = "expired"]
  /\ parts' = [parts EXCEPT ![m] = NoParts]
  /\ \/ /\ Succeeds /\ Stored(m)
        /\ held' = [held EXCEPT ![m] = queue[m].to]
        /\ job' = [job EXCEPT ![m] = ToBounce(m, "expired", NoParts)]
        /\ UNCHANGED shaken
     \/ /\ NotWritten(m)
        /\ job' = [job EXCEPT ![m] = "unlink"]
        /\ shaken' = shaken \cup {m}
        /\ UNCHANGED held
  /\ UNCHANGED <<queue, spool, domain, home, rcpts, writtenOff, loop, ctx, dsn,
                 reached, twice, refused, told>>

ExpireDone ==
  /\ loop = "expire" /\ batch = {} /\ Working = {}
  /\ loop' = "release"
  /\ UNCHANGED <<storeVars, ctx, batch, job, outcome, held, parts, dsn, historyVars>>

\* ReleaseOrphanedClaims(now - 3 * DeliveryTimeout)
MaintainRelease ==
  /\ loop = "release"
  /\ \/ Succeeds /\ \E S \in SUBSET Delivering : ReleaseOrphanedClaims(S)
     \/ Fails /\ UNCHANGED queue
  /\ loop' = "purge"
  /\ UNCHANGED <<spool, domain, home, rcpts, writtenOff, ctx, batch, job, outcome, held,
                 parts, dsn, historyVars>>

\* PurgeDelivered(now - 30 days): rows only, no body is looked at
MaintainPurge ==
  /\ loop = "purge"
  /\ \/ Succeeds /\ \E S \in SUBSET History : PurgeDelivered(S)
     \/ Fails /\ UNCHANGED queue
  /\ loop' = "idle"
  /\ UNCHANGED <<spool, domain, home, rcpts, writtenOff, ctx, batch, job, outcome, held,
                 parts, dsn, historyVars>>

-----------------------------------------------------------------------------

\* SIGTERM: the context of the process is canceled
Shutdown ==
  /\ loop # "down" /\ ctx = "live"
  /\ ctx' = "done"
  /\ UNCHANGED <<storeVars, loop, batch, job, outcome, held, parts, dsn, historyVars>>

\* The process is gone, whatever its goroutines were doing
SenderStop ==
  /\ loop # "down"
  /\ loop' = "down" /\ ctx' = "live" /\ batch' = {}
  /\ job' = [m \in Msg |-> "none"] /\ outcome' = [m \in Msg |-> "none"]
  /\ held' = [m \in Msg |-> {}] /\ parts' = [m \in Msg |-> NoParts]
  /\ dsn' = [m \in Msg |-> {}]
  /\ UNCHANGED <<reached, twice, refused, told>>

Attempt(m) ==
  \/ Begin(m)
  \/ \E G \in SUBSET held[m] : AttemptFails(m, G)
  \/ AttemptRefused(m)
  \/ \E A, D, R, U, G \in SUBSET held[m] : AttemptSettles(m, A, D, R, U, G)

Wrapup(m) ==
  \/ Narrow(m) \/ MarkDeferred(m) \/ MarkDone(m) \/ MarkGivenUp(m)
  \/ Unlink(m) \/ BouncePut(m) \/ BounceEnqueue(m)

SenderStep ==
  \/ Start \/ Wake \/ ClaimInbound \/ ClaimOutbound \/ BatchDone
  \/ MaintainExpire \/ ExpireDone \/ MaintainRelease \/ MaintainPurge
  \/ \E m \in Msg : Abandon(m) \/ Attempt(m) \/ Wrapup(m) \/ ExpireOne(m)
=============================================================================
