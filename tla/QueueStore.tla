------------------------------ MODULE QueueStore ------------------------------
(***************************************************************************)
(* What survives a restart: the queue table and the domains table of       *)
(* internal/store, and the directory of encrypted message bodies of        *)
(* internal/blob.  The operators below are the SQL statements on the queue *)
(* and the file operations on the spool; Intake, Sender and Admin run them *)
(* and Spool composes those components.                                    *)
(*                                                                         *)
(* A message id is random and never reused, so the ids are partitioned in  *)
(* advance by what the message will be: mail received on port 25 (InMsg),  *)
(* mail submitted on port 587 (OutMsg) and delivery status notifications   *)
(* the program writes itself (DsnMsg, the rows with envelope_from = '').   *)
(* Timestamps are compared with the clock only, so a row keeps the two     *)
(* comparisons instead of the times: next_retry_at <= now ("due") and      *)
(* expires_at <= now ("overdue").                                          *)
(***************************************************************************)
EXTENDS Naturals, FiniteSets

CONSTANTS InMsg, OutMsg, DsnMsg, \* message ids, by the kind of message
          Rcpt,                  \* recipient addresses
          Domain,                \* configured domains
          MaxAttempts,           \* bound: attempts told apart per message
          MaxFaults              \* bound: database errors injected

Msg == InMsg \cup OutMsg \cup DsnMsg

ASSUME IdsAssumption == /\ InMsg \cap OutMsg = {}
                        /\ InMsg \cap DsnMsg = {}
                        /\ OutMsg \cap DsnMsg = {}

ASSUME DomainAssumption == Domain # {}

ASSUME BoundsAssumption == MaxAttempts \in Nat /\ MaxFaults \in Nat

VARIABLES
  queue,      \* [Msg -> Row]: the queue table, NoRow where there is no row
  spool,      \* the ids that have a body file
  domain,     \* [Domain -> DomainRow]: domains JOIN primary_status
  home,       \* queue.domain_id, meaningful once the message is enqueued
  rcpts,      \* history: queue.envelope_to as it was inserted
  writtenOff, \* history: messages expired or discarded by an administrator
  faults      \* database errors injected so far

storeVars == <<queue, spool, domain, home, rcpts, writtenOff, faults>>

-----------------------------------------------------------------------------
(* Rows.                                                                   *)

Pending == {"queued", "delivering"}
Settled == {"delivered", "failed", "expired"}

Row == [status      : Pending \cup Settled \cup {"absent"},
        to          : SUBSET Rcpt,
        quarantined : BOOLEAN,
        due         : BOOLEAN,
        overdue     : BOOLEAN,
        tries       : 0..MaxAttempts]

DomainRow == [exists : BOOLEAN, enabled : BOOLEAN, up : BOOLEAN]

NoRow == [status |-> "absent", to |-> {}, quarantined |-> FALSE,
          due |-> FALSE, overdue |-> FALSE, tries |-> 0]

Stored(m) == queue[m].status # "absent"

\* attempts + 1, capped by the bound
Bump(n) == IF n < MaxAttempts THEN n + 1 ELSE n

\* Rows of a domain: what ON DELETE CASCADE and ListMessages range over
RowsOf(d) == {m \in Msg : Stored(m) /\ home[m] = d}

\* CountPendingForDomain
PendingOf(d) == {m \in RowsOf(d) : queue[m].status \in Pending}

StoreTypeOK ==
  /\ queue \in [Msg -> Row]
  /\ spool \subseteq Msg
  /\ domain \in [Domain -> DomainRow]
  /\ home \in [Msg -> Domain]
  /\ rcpts \in [Msg -> SUBSET Rcpt]
  /\ writtenOff \subseteq Msg
  /\ faults \in 0..MaxFaults

\* An empty spool; a new domain has a primary that is not up yet.
StoreInit ==
  /\ queue = [m \in Msg |-> NoRow]
  /\ spool = {}
  /\ domain = [d \in Domain |-> [exists |-> TRUE, enabled |-> TRUE, up |-> FALSE]]
  /\ home = [m \in Msg |-> CHOOSE d \in Domain : TRUE]
  /\ rcpts = [m \in Msg |-> {}]
  /\ writtenOff = {}
  /\ faults = 0

-----------------------------------------------------------------------------
(* Database errors: a statement that fails changes nothing.                *)

NoFault == UNCHANGED faults
Fault   == faults < MaxFaults /\ faults' = faults + 1

-----------------------------------------------------------------------------
(* The statements on the queue table.  Each defines queue' (and the        *)
(* history it makes); one action executes one of them.                     *)

\* INSERT; the foreign key on domain_id makes it fail without a domain
Enqueue(m, d, R) ==
  /\ domain[d].exists
  /\ queue' = [queue EXCEPT ![m] = [status |-> "queued", to |-> R,
                 quarantined |-> FALSE, due |-> TRUE, overdue |-> FALSE, tries |-> 0]]
  /\ home' = [home EXCEPT ![m] = d]
  /\ rcpts' = [rcpts EXCEPT ![m] = R]

\* Rows ClaimBatch selects: inbound, due, not held, domain enabled, primary up
Claimable(m) ==
  /\ m \in InMsg
  /\ queue[m].status = "queued" /\ ~queue[m].quarantined /\ queue[m].due
  /\ domain[home[m]].enabled /\ domain[home[m]].up

\* Rows claimOutbound selects; with bouncesOnly, the null senders alone
ClaimableOutbound(m, bouncesOnly) ==
  /\ m \in OutMsg \cup DsnMsg
  /\ bouncesOnly => m \in DsnMsg
  /\ queue[m].status = "queued" /\ ~queue[m].quarantined /\ queue[m].due
  /\ domain[home[m]].enabled

\* Mutant: the claim writes a status the other statements do not know
ClaimUnknown(S) ==
  queue' = [m \in Msg |-> IF m \in S THEN [queue[m] EXCEPT !.status = "claimed"]
                                     ELSE queue[m]]

\* UPDATE ... SET status = 'delivering' ... RETURNING
Claim(S) ==
  queue' = [m \in Msg |-> IF m \in S THEN [queue[m] EXCEPT !.status = "delivering"]
                                     ELSE queue[m]]

MarkDelivered(m) == queue' = [queue EXCEPT ![m].status = "delivered"]

MarkFailed(m) ==
  queue' = [queue EXCEPT ![m] = [@ EXCEPT !.status = "failed",
                                          !.tries = Bump(queue[m].tries)]]

\* The backoff starts: the row is not due until BackoffElapses
Reschedule(m) ==
  queue' = [queue EXCEPT ![m] = [@ EXCEPT !.status = "queued", !.due = FALSE,
                                          !.tries = Bump(queue[m].tries)]]

SetRecipients(m, R) == queue' = [queue EXCEPT ![m].to = R]

\* Rows ExpireOverdue selects
Overdue == {m \in Msg : queue[m].status = "queued" /\ ~queue[m].quarantined
                                                  /\ queue[m].overdue}

ExpireOverdue ==
  /\ queue' = [m \in Msg |-> IF m \in Overdue THEN [queue[m] EXCEPT !.status = "expired"]
                                              ELSE queue[m]]
  /\ writtenOff' = writtenOff \cup Overdue

Delivering == {m \in Msg : queue[m].status = "delivering"}

\* Mutant: the WHERE clause forgets the status, so settled rows come back too
ReleaseEverything(S) ==
  queue' = [m \in Msg |-> IF Stored(m) THEN [queue[m] EXCEPT !.status = "queued"]
                                      ELSE queue[m]]

\* Mutant: the cutoff is compared the wrong way round and no claim is stale
ReleaseNothing(S) == UNCHANGED queue

\* S: the delivering rows whose claim is older than the cutoff
ReleaseOrphanedClaims(S) ==
  queue' = [m \in Msg |-> IF m \in S THEN [queue[m] EXCEPT !.status = "queued"]
                                     ELSE queue[m]]

History == {m \in Msg : queue[m].status \in Settled}

\* S: the settled rows received before the cutoff
PurgeDelivered(S) ==
  queue' = [m \in Msg |-> IF m \in S THEN NoRow ELSE queue[m]]

\* No row is updated unless its status is one of the three
RetryNow(m) ==
  /\ queue[m].status \in {"queued", "failed", "expired"}
  /\ queue' = [queue EXCEPT ![m] = [@ EXCEPT !.status = "queued", !.due = TRUE]]

Quarantine(m) == queue' = [queue EXCEPT ![m].quarantined = TRUE]

\* Whatever the status is, it becomes queued
Release(m) ==
  /\ Stored(m) /\ queue[m].quarantined
  /\ queue' = [queue EXCEPT ![m] = [@ EXCEPT !.quarantined = FALSE, !.status = "queued",
                                             !.due = TRUE]]

DeleteMessage(m) ==
  /\ queue' = [queue EXCEPT ![m] = NoRow]
  /\ writtenOff' = writtenOff \cup {m}

\* DELETE FROM domains, and the rows of the domain by cascade
DeleteDomain(d) ==
  /\ domain' = [domain EXCEPT ![d].exists = FALSE]
  /\ queue' = [m \in Msg |-> IF m \in RowsOf(d) THEN NoRow ELSE queue[m]]
  /\ writtenOff' = writtenOff \cup RowsOf(d)
=============================================================================
