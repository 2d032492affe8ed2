--------------------------------- MODULE Spool ---------------------------------
(***************************************************************************)
(* The mail path of the appliance: the two listeners (Intake), the         *)
(* delivery loop (Sender) and the administrators (Admin) on one database   *)
(* and one spool directory (QueueStore), in one process that may be told   *)
(* to shut down, or die, at any point and is started again.                *)
(***************************************************************************)
EXTENDS Intake, Sender, Admin

CONSTANT MaxStops \* bound: times the process ends

ASSUME StopsAssumption == MaxStops \in Nat

VARIABLE stops \* times the process has ended

vars == <<storeVars, intakeVars, senderVars, adminVars, stops>>

Running == loop # "down"

-----------------------------------------------------------------------------
(* The components, each leaving the variables of the others alone.         *)

IntakeNext == /\ Running /\ IntakeStep
              /\ UNCHANGED <<senderVars, adminVars, stops>>
SenderNext == SenderStep /\ UNCHANGED <<intakeVars, adminVars, stops>>
AdminNext  == /\ Running /\ AdminStep
              /\ UNCHANGED <<intakeVars, senderVars, stops>>

\* A goroutine still owns the message or its file
Busy(m) ==
  \/ session[m] = "spooled"
  \/ m \in batch \/ job[m] # "none"
  \/ \E n \in Msg : m \in dsn[n]
  \/ deleting[m] = "body"

\* The process ends: a crash, a kill, or the end of a shutdown
Stop ==
  /\ stops < MaxStops
  /\ stops' = stops + 1
  /\ SenderStop /\ IntakeStop /\ AdminStop
  /\ shaken' = shaken \cup {m \in Msg : Busy(m) \/ deleting[m] = "row"
                                        \/ session[m] = "queued"}
  /\ UNCHANGED <<storeVars, hold>>

Signal == stops < MaxStops /\ Shutdown /\ UNCHANGED <<intakeVars, adminVars, stops>>

-----------------------------------------------------------------------------
(* The environment.                                                        *)

EnvRest == UNCHANGED <<spool, home, rcpts, writtenOff, faults,
                       intakeVars, senderVars, adminVars, stops>>

\* A probe flips primary_status.is_up
PrimaryFlips(d) ==
  /\ domain[d].exists
  /\ domain' = [domain EXCEPT ![d].up = ~@]
  /\ UNCHANGED queue /\ EnvRest

\* next_retry_at passes, MaxAttempts times at most, or RetryDomainNow runs
BackoffElapses(m) ==
  /\ Stored(m) /\ ~queue[m].due /\ queue[m].tries < MaxAttempts
  /\ queue' = [queue EXCEPT ![m].due = TRUE]
  /\ UNCHANGED domain /\ EnvRest

\* expires_at passes
RetentionElapses(m) ==
  /\ Stored(m) /\ ~queue[m].overdue
  /\ queue' = [queue EXCEPT ![m].overdue = TRUE]
  /\ UNCHANGED domain /\ EnvRest

EnvNext == \/ \E d \in Domain : PrimaryFlips(d)
           \/ \E m \in Msg : BackoffElapses(m) \/ RetentionElapses(m)

Init == StoreInit /\ IntakeInit /\ SenderInit /\ AdminInit /\ stops = 0

Next == IntakeNext \/ SenderNext \/ AdminNext \/ Stop \/ Signal \/ EnvNext

Spec == Init /\ [][Next]_vars

-----------------------------------------------------------------------------
(* Fairness: goroutines are scheduled, the tickers keep firing and Run's   *)
(* select takes a random ready channel (so neither the delivery ticker nor *)
(* the maintenance ticker is passed over for ever), clocks advance (a      *)
(* retention runs out, an abandoned claim grows older than the cutoff), a  *)
(* process told to shut down ends and is started again.  Nothing is        *)
(* assumed of primaries, clients or administrators.                        *)

SenderDo(A) == A /\ UNCHANGED <<intakeVars, adminVars, stops>>

ReleaseAll == MaintainRelease /\ \A m \in Delivering : queue'[m].status = "queued"

Goes == SenderDo(Start \/ ClaimInbound \/ ClaimOutbound \/ BatchDone \/ ExpireDone
                 \/ MaintainRelease \/ MaintainPurge)
Works(m) == SenderDo(Attempt(m) \/ Wrapup(m) \/ ExpireOne(m))
Ends == ctx = "done" /\ Stop

\* What Run's select comes to again and again: strongly fair
Wakes == SenderDo(Wake)
Maintains == SenderDo(MaintainExpire)
Releases == SenderDo(ReleaseAll)

-----------------------------------------------------------------------------
(* Properties.                                                             *)

TypeOK == StoreTypeOK /\ IntakeTypeOK /\ SenderTypeOK /\ AdminTypeOK
          /\ stops \in 0..MaxStops

\* r of message m is accounted for: a destination took it or refused it for
\* good, or the row still asks for it and the body is there to send, or the
\* message was written off in the open (expired, or removed by an administrator)
Accounted(m, r) ==
  \/ r \in reached[m] \cup refused[m]
  \/ queue[m].status \in Pending /\ r \in queue[m].to /\ m \in spool
  \/ m \in writtenOff

\* Every recipient of every message ever inserted in the queue, received mail
\* and bounces alike, stays accounted for through partial deliveries, failed
\* writes, races with administrators, shutdowns and crashes: "No email is lost"
\* (README.md, at-least-once delivery).  In particular the body a row needs is
\* never removed first, and deliver's "message body unreadable" branch is only
\* taken for a message that was settled or written off before.
NoMailLost == \A m \in InMsg \cup DsnMsg : \A r \in rcpts[m] : Accounted(m, r)

\* The same of mail submitted on port 587.
NoSubmissionLost == \A m \in OutMsg : \A r \in rcpts[m] : Accounted(m, r)

\* A recipient is sent a second copy only if the process ended, a reply was
\* lost or a statement failed while the message was being worked on: SetRecipients
\* narrows the row before it is due again, and no race of retry, release or
\* delete with the workers re-sends what was taken.
NoSecondCopy == \A m \in Msg : twice[m] # {} => m \in shaken

\* No body is left in the spool without a pending row to remove it later
\* (PurgeDelivered removes rows only): every path that ends a message removes its
\* file, unless the process ended or a write failed on it, or its domain was
\* deleted under it.
NoOrphanBody ==
  \A m \in spool : \/ queue[m].status \in Pending \/ Busy(m) \/ m \in shaken
                   \/ ~domain[home[m]].exists

\* A bounce never names a recipient that has the message, unless the message
\* was shaken or was claimed before its quarantine was written.
BouncesAreTrue ==
  \A m \in Msg \ (shaken \cup hold) : told[m] \cap reached[m] = {}

\* "the sender receives a standard report naming each failed recipient": once
\* nobody works on a message whose sender is to be told, every recipient refused
\* for good, in any attempt, was named in a bounce that was queued.
RefusalsAreTold ==
  \A m \in Msg \ shaken :
    shouldBounce(m) /\ job[m] = "none" => refused[m] \subseteq told[m]

\* A row that was settled is pending again only because an administrator asked:
\* no late write of a worker, no claim recovery and no restart revives it.
SettledStays ==
  [][\A m \in Msg :
       queue[m].status \in Settled /\ queue'[m].status \in Pending
         => RetryMessage(m) \/ ReleaseMessage(m)]_vars

\* "is never claimed for delivery" (CHANGELOG.md, Quarantine).
HeldIsNeverClaimed ==
  \A m \in Msg : ~(queue[m].quarantined /\ queue[m].status = "delivering")

\* Whatever primaries do, mail that nobody holds in quarantine does not stay in
\* the queue for ever: it is settled, or removed.
QueueDrains ==
  \A m \in Msg :
    queue[m].status \in Pending /\ ~queue[m].quarantined
      ~> queue[m].status \notin Pending \/ queue[m].quarantined

-----------------------------------------------------------------------------
(* The inductive invariant behind NoMailLost.                              *)

Kept == InMsg \cup DsnMsg

\* m was inserted in the queue once (an envelope has a recipient)
Known(m) == rcpts[m] # {}

\* Serving the recipients in X would leave nobody out
Covers(m, X) == rcpts[m] \subseteq reached[m] \cup refused[m] \cup X \/ m \in writtenOff

\* Nothing is owed to any recipient of m any more
Over(m) == Covers(m, {})

\* Ids are used once, and their body is written before the row
IdInv(m) ==
  /\ Stored(m) \/ m \in writtenOff \/ m \in batch \/ job[m] # "none" => Known(m)
  /\ session[m] = "none" /\ m \notin DsnMsg => ~Known(m)
  /\ session[m] = "spooled" => ~Known(m) /\ m \in spool
  /\ m \in DsnMsg => session[m] = "none"
  /\ deleting[m] = "body" => m \in writtenOff

\* A bounce being queued has an id of its own
DsnInv ==
  /\ \A m \in Msg : \A b \in dsn[m] : b \in spool /\ ~Known(b)
  /\ \A m, n \in Msg : dsn[m] \cap dsn[n] # {} => m = n

\* Where rows are claimed and given back no worker is left over
LoopInv ==
  /\ loop \notin {"claimOut", "work", "expire"} => batch = {}
  /\ loop \notin {"work", "expire"} => Working = {}
  /\ batch \cap Working = {}

\* The row: all that is owed is on it, with a body, or nothing is owed
RowInv(m) ==
  Over(m) \/ (queue[m].status \in Pending /\ m \in spool /\ Covers(m, queue[m].to))

\* The work on m: what the worker still means to serve covers what is owed, and
\* it gets to removing the body only when nothing is
JobInv(m) ==
  /\ m \in batch /\ loop = "expire" => m \in writtenOff
  /\ m \in batch /\ loop # "expire" => Covers(m, held[m])
  /\ job[m] = "none" => outcome[m] = "none"
  /\ job[m] = "open" => Covers(m, held[m])
  /\ job[m] \in {"bounce", "report"} => outcome[m] \in {"permanent", "lost", "parts", "expired"}
  /\ job[m] = "mark" => outcome[m] \in {"temporary", "permanent", "lost", "parts"}
  /\ job[m] = "narrow" => outcome[m] = "parts"
  /\ outcome[m] = "parts" => Covers(m, parts[m].def)
  /\ outcome[m] \in {"permanent", "lost", "expired"} => Over(m)
  /\ job[m] = "unlink" => Over(m)

\* While mail moves, nothing that is owed is dropped: the strengthening of
\* NoMailLost that every single step preserves.
MailInv ==
  /\ DsnInv /\ LoopInv
  /\ \A m \in Msg : IdInv(m)
  /\ \A m \in Kept : RowInv(m) /\ JobInv(m)

-----------------------------------------------------------------------------
(* The inductive invariants behind the other properties: what is true of a *)
(* single message wherever the work on it is.                              *)

\* Claimed for an attempt, or expired, and not begun with
Claimed(m) == m \in batch /\ loop # "expire"
Lapsed(m)  == m \in batch /\ loop = "expire"

\* Nobody who is not in the envelope is served, refused or reported
EnvelopeInv(m) ==
  queue[m].to \cup held[m] \cup reached[m] \cup refused[m] \cup told[m] \subseteq rcpts[m]

\* Where the work is and how the attempt ended go together
StageInv(m) ==
  /\ job[m] \in {"none", "open"} <=> outcome[m] = "none"
  /\ job[m] \in {"bounce", "report"} => outcome[m] # "temporary"
  /\ job[m] = "narrow" => outcome[m] = "parts" /\ parts[m].def # {}
  /\ job[m] = "mark" => outcome[m] # "expired"
  /\ job[m] = "unlink" => outcome[m] \notin {"temporary", "lost"}
  /\ job[m] = "unlink" /\ outcome[m] = "parts" => parts[m].def = {}
  /\ outcome[m] = "lost" => m \notin spool
  /\ outcome[m] = "parts" => /\ parts[m].acc \cup parts[m].def \cup parts[m].rej \subseteq held[m]
                             /\ parts[m].acc \cap (parts[m].def \cup parts[m].rej) = {}
                             /\ parts[m].def \cap parts[m].rej = {}

\* The row while somebody works on it: not settled before its worker settles it,
\* and its recipients are those the worker has until the worker narrows them
OwnerInv(m) ==
  /\ (\/ Claimed(m) \/ job[m] \in {"open", "narrow", "mark"}
      \/ job[m] \in {"bounce", "report"} /\ outcome[m] = "parts")
     => queue[m].status \notin Settled
  /\ Lapsed(m) => queue[m].status # "delivered"
  /\ Stored(m) /\ (\/ Claimed(m) \/ job[m] = "open"
                   \/ job[m] \in {"bounce", "report", "narrow"} /\ outcome[m] = "parts")
     => queue[m].to = held[m]
  /\ queue[m].quarantined \/ session[m] = "queued" => m \in hold

\* The recipients of a row that is to be narrowed or settled
Unwritten(m) == outcome[m] = "parts" /\ (job[m] = "mark" => parts[m].def = {})

\* Nobody who has the message is asked for again by a row that still has a body,
\* apart from those the worker is about to take off it
CopyInv(m) ==
  /\ twice[m] = {}
  /\ Claimed(m) /\ m \in spool => held[m] \cap reached[m] = {}
  /\ job[m] = "open" => held[m] \cap reached[m] = {}
  /\ outcome[m] = "parts" => parts[m].def \cap reached[m] = {}
  /\ m \in spool => \/ queue[m].to \cap reached[m] = {}
                    \/ Unwritten(m) /\ queue[m].to \cap reached[m] \subseteq parts[m].acc

\* A bounce that is written, or may still be, names nobody who has the message,
\* and who was named is not tried again
TellInv(m) ==
  /\ told[m] \cap reached[m] = {}
  /\ Claimed(m) => held[m] \cap reached[m] = {} /\ (m \in spool => held[m] \cap told[m] = {})
  /\ job[m] = "open" => held[m] \cap (reached[m] \cup told[m]) = {}
  /\ outcome[m] \in {"temporary", "permanent", "lost", "expired"} => held[m] \cap reached[m] = {}
  /\ outcome[m] = "parts" => /\ (parts[m].rej \cup parts[m].def) \cap reached[m] = {}
                             /\ parts[m].def \cap told[m] = {}
  /\ queue[m].status # "delivered" =>
       \/ queue[m].to \cap reached[m] = {}
       \/ Unwritten(m) /\ job[m] # "unlink" /\ queue[m].to \cap reached[m] \subseteq parts[m].acc
  /\ m \in spool => \/ queue[m].to \cap told[m] = {}
                    \/ job[m] = "unlink"
                    \/ Unwritten(m) /\ job[m] \in {"narrow", "mark"}

\* Who was refused was told, or is named in the bounce that comes next
RefusalInv(m) ==
  IF job[m] \in {"bounce", "report"} \/ (job[m] = "mark" /\ outcome[m] = "permanent")
  THEN refused[m] \subseteq told[m] \cup Failures(m)
  ELSE refused[m] \subseteq told[m]

\* A bounce under way is the one its worker is about to queue
ReportInv(m) == /\ dsn[m] # {} => job[m] = "report"
                /\ \A b, c \in dsn[m] : b = c

\* A body has a row, or somebody, to remove it: NoOrphanBody of a single message
BodyInv(m) == m \in spool => \/ queue[m].status \in Pending \/ Busy(m) \/ m \in shaken
                             \/ ~domain[home[m]].exists

\* What is true of every message on its way: the strengthening of NoSecondCopy,
\* BouncesAreTrue, RefusalsAreTold, NoOrphanBody and SettledStays.
OnPath(m) ==
  /\ EnvelopeInv(m) /\ StageInv(m) /\ OwnerInv(m) /\ BodyInv(m)
  /\ m \notin shaken => CopyInv(m)
  /\ m \notin shaken \cup hold => TellInv(m)
  /\ m \notin shaken /\ shouldBounce(m) => RefusalInv(m)

PathInv == \A m \in Msg : ReportInv(m) /\ OnPath(m)

-----------------------------------------------------------------------------
(* The mail path implements MailService, for received mail and bounces     *)
(* (Kept).  What is owed is read off the state that survives a restart: the*)
(* recipients of a pending row whose body is in the spool.                 *)

OfKept(f) == [m \in Kept |-> f[m]]

Owed == [m \in Kept |-> IF queue[m].status \in Pending /\ m \in spool THEN queue[m].to ELSE {}]

Service == INSTANCE MailService WITH
  Message  <- Kept,
  envelope <- OfKept(rcpts),
  owed     <- Owed,
  taken    <- OfKept(reached),
  denied   <- OfKept(refused),
  dropped  <- writtenOff \cap Kept

\* Every step of the listeners, the delivery loop, the administrators, a
\* shutdown or a crash is a step of the service, or changes nothing it promises.
ImplementsMailService == Service!ServiceSpec
=============================================================================
