# XeronMX: specification, model checking and proofs

XeronMX is a backup MX and submission relay. It accepts mail for configured
domains, keeps it encrypted on disk while the primary server of the domain is
away, and delivers it when the primary is back. This directory holds TLA+
modules translated from the Go source, the TLC runs that check them on small
instances, and proofs checked by TLAPS for every instance.

## 1. Inventory

| component | state it keeps | operations | interacts with |
|---|---|---|---|
| queue table (`internal/store/queue.go`, `filters.go`) | one row per message: status, recipients, attempts, next_retry_at, expires_at, quarantine | Enqueue, ClaimBatch, ClaimOutboundBatch/ClaimBounceBatch, MarkDelivered, MarkFailed, Reschedule, SetRecipients, ExpireOverdue, ReleaseOrphanedClaims, PurgeDelivered, RetryNow, RetryDomainNow, Quarantine, Release, DeleteMessage | shared by listeners, sender, health checker and API; each statement is atomic, handlers are not |
| blob spool (`internal/blob`) | one encrypted file per message id, a master key | Open, Put, Get, Read, Delete | listeners write, sender reads, sender and API delete |
| domains (`internal/store/domains.go`) | domain rows, primary status with counters | Create, Update, Delete (cascades to the queue), RecordProbe | API, health checker, claims |
| listeners (`internal/smtpd`, `internal/submission`) | one session per connection, a channel of slots | connect, AUTH, MAIL, RCPT, DATA | limits, message checks, body, row, quarantine |
| sending limit (`internal/store/sendlimit.go`) | recipients per domain and month | ReserveSends, ReleaseSends | submission |
| message checks (`internal/filter`, `spam`, `clamav`, `authres`) | the rules in memory | Evaluate, Check, Scan, SPF and DKIM, Load, the sweep | port 25, filters table, scanners |
| block lists (`internal/dnsbl`) | none beyond one call | Check, CheckDetailed | port 25, DNS |
| delivery loop (`internal/sender`) | claimed batch, workers, wake channel | Run, pass, deliver, settle, bounce, maintain | queue, spool, routes, DKIM keys, destinations |
| routes and DKIM keys (`internal/store/outbound.go`, `internal/api/outbound.go`) | two tables | create, change, delete, enable | API, DNS, delivery loop |
| health checker (`internal/health`) | none | probe primaries, flip status, pull retries forward, wake the sender | domains, queue, sender, alerter |
| alerter (`internal/alert`) | grace timers, what was announced, a bounded queue | Notify, Resume, Run | health checker, listeners, sender |
| event log and webhooks (`internal/webhook`) | events, deliveries, cursor | tail, deliver, retry, purge | every component that records events |
| live events (`internal/api/hub.go`) | the channels of the streams | Subscribe, Unsubscribe, Notify, Close | panel, end of the server |
| accounts (`internal/store/users.go`, `account.go`, `internal/api`) | users, sessions, API tokens, second factors | setup, sign-in (password, code, OpenID), password change, scopes, deletion | API |
| sign-in rate limit (`internal/ratelimit`) | recent attempts per address | Allow, Reset | sign-in |
| cluster (`internal/cluster`, `internal/api/configio.go`) | table of nodes | heartbeat, pull and import the configuration of the primary | API of the peers |
| certificates (`internal/acme`) | the certificate adopted last, a token bucket | obtain, adopt, retry, throttle | listeners, autocert |
| backups (`internal/backup`) | files in a directory | copy at start and at ticks, prune | database |
| API (`internal/api`) | none of its own | requests on all of the above | all |
| process (`cmd/xeronmx`) | context, wait group | start, signal, shutdown with a time limit | all |

Left out on purpose: message formats and cryptography (`arc`, `dkim`, `dsn`,
`dmarc`, `mailutil`), `proxy`, `metrics`, the parser of the configuration file,
the web interface and `xeronmxctl`. `PROJECT.json` gives the reason for each.

**What is hard here.** Every handler is several statements and file operations
without a transaction around them, run by listeners, workers and administrators
at the same time; any statement may fail, every one of the sender's fails once
the context is canceled at shutdown, and the process may end between any two.
A message has several recipients, which are accepted, deferred and refused one
by one over several attempts, and its bounce is itself a message. The body and
the row of a message are separate objects removed at different times. A limit is
checked at MAIL and used up at the end of DATA. A row is read when a request
arrives and written back when it ends. Timers fire while what they wait for has
already happened. Nodes decide on what they heard of each other a round ago. The
list of hazards in `PROJECT.json` gives the line where each one bites.

**What makes it correct.** No recipient of accepted mail is forgotten
(at-least-once, README.md of the repository: "No email is lost"); nobody gets a
second copy without a fault; a settled message stays settled; senders are told
of every permanent refusal and of nothing else; bodies do not pile up on disk,
and a damaged one is noticed; a message leaves the queue sooner or later. Limits
are kept, or passed by a known amount. What a check decided is done, and a
scanner that is away costs no mail. The operator is told of outages and of
recoveries; subscriptions get every event. There is an administrator, codes work
once, and a changed password ends sessions. Followers come to have the
configuration of the primary. Nothing expired is served, and a usable backup
remains.

## 2. Modules

    QueueStore   queue table, spool directory, domains: the statements
      |- Intake  session.Data of both listeners
      |- Sender  delivery loop, workers, bounces, maintenance
      `- Admin   API handlers on messages and domains
    Spool        composition, end and restart of the process, clocks, properties
    MailService  the abstract promise to recipients, which Spool implements
    MailProofs   types, MailInv and NoMailLost; what a step does to one message (a
                 list of moves), PathInv, the properties of Spool that follow from
                 it, and the refinement of MailService

    Alerter      grace timers, throttle, the queue of alerts
      `- Health  rounds over primaries, RecordProbe, the wake-up channel
    Monitor      composition, Resume, end and restart of the process
    MonitorProofs  their invariant, NoLostWakeup and AlertsAreTrue

    Webhooks, WebhookProofs          event log, tailer, outbox, subscriptions
    Admission, AdmissionProofs       slots, limits, drain mode, sending limit
    Screening                        one instance each of
      |- Inspection                  the checks of a message
      |- Filters                     rules, their loads, messages they are applied to
      `- Dnsbl                       the block lists about a client
    ReceptionProofs                  their invariants
    Panel                            one instance each of
      |- Accounts                    users, sessions, tokens, requests on them
      |- SecondFactor                secrets, codes and enrolments
      |- LiveEvents                  streams and the end of the server
      `- Limiter                     sign-in attempts
    PanelProofs                      their invariants
    Upkeep                           one instance each of
      |- BlobStore, TimeText         what a body file holds; times as text
      |- Backup                      copies of the database
      |- Certificates, IssuanceGuard the ACME loop; the token bucket before it
      `- Signing, Routing            DKIM keys; routes per destination
    UpkeepProofs                     their invariants
    Cluster, ClusterProofs           heartbeats, roles, configuration exchange

`Screening`, `Panel` and `Upkeep` hold what is checked and what is proved together: each
states its properties over instances whose sizes are constants, the MC modules
extend them and give the constants values, and the proof modules prove them for
every value.

The MC modules instantiate them for TLC (section 3). Modules on
lines of their own share no state: they see each other through a value that
either may choose freely. `Webhooks` sees the events the others record and
`maintain`, which drops the oldest ones; `Admission` counts the messages that
`Spool` follows one by one; `Inspection` takes any verdict of the rules that
`Filters` keeps; `Sender` takes any outcome of the attempts whose path and key
`Routing` and `Signing` choose; `PrimaryFlips` of `Spool` stands for `Monitor`.

**QueueStore.** `queue[m]` is the row of message `m` (`NoRow` if there is none).
Ids are random and used once, so they are partitioned beforehand: `InMsg`
(inbound), `OutMsg` (submitted) and `DsnMsg` (bounces, the rows with an empty
sender). A row keeps the two comparisons with the clock (`due`, `overdue`)
instead of the times. `spool` is the set of ids with a body file. `rcpts` and
`writtenOff` are history: the recipients as inserted, and the messages that
expired or that an administrator discarded. `Fault` injects a failed statement.

**Intake.** `SpoolBody`, then `RefuseBody` (any verdict, the sending limit, a
failed INSERT) or `Accept`, then `HoldMessage` for a message to quarantine. The
listeners use contexts of their own, so a shutdown does not fail their
statements; the end of the process cuts them off.

**Sender.** `loop` is where `Run` is: a pass claims inbound rows (`ClaimInbound`),
then outbound ones or bounces (`ClaimOutbound`), works, waits for its workers
(`BatchDone`) and claims again until there is nothing; maintenance is
`MaintainExpire`, `ExpireOne` per expired id, `MaintainRelease`, `MaintainPurge`.
A message is worked on by one goroutine at most, so program counters are per
message: `job[m]` (open, bounce, report, narrow, mark, unlink) with the locals
`held` (recipients as claimed), `outcome` and `parts`. An SMTP transaction is one
step with all its outcomes: it fails as a whole (`AttemptFails`), is refused as
a whole (`AttemptRefused`), or its recipients are accepted, deferred and
rejected in every combination (`AttemptSettles`). `G` are recipients whose
server took the message although the reply was lost; `U` are recipients
`sendDirect` did not come to. `Succeeds`/`Fails` give the fate of a statement:
after the signal every one fails.

**Admin.** One action per request, or one per statement where a handler has
several (`handleDeleteMessage`, `handleDeleteDomain`).

**Spool.** `Stop` ends the process anywhere: locals vanish, rows and bodies stay,
`Start` releases the claims. `Signal` cancels the context. `PrimaryFlips` stands
for the health checker; `BackoffElapses` and `RetentionElapses` for the clock.

**Webhooks.** `types` is the events table (ids are indices, `floor` the newest id
that was purged), `hooks` the subscriptions, `outbox` the deliveries, `saved` the
cursor in the meta table. `tail` is where the tailer goroutine is: `StartCursor`,
`StartHead`, `StartMark` are the three statements of `startCursor`, any error of
which ends the tailer ("dead") for the life of the process; a round of `drain` is
`Drain` (EventsSince), `DrainList` (ListWebhooks), one `EnqueueDelivery` per event
and interested subscription, `DrainDone`, `DrainSave` (SetMetaInt). `work` and
`job[r]` are the delivery loop and its workers: `DeliverDue`, `Lookup`, `Post`,
`Write`. A row keeps the comparison of next_attempt_at with the clock (`due`).
The history variables say which subscriptions were changed (`touched`), which
events were purged beyond the cursor (`overrun`), which were read in a round that
did not save its cursor (`again`), how many requests a row had (`posts`) and for
which rows the end of one could not be recorded (`unsure`).

**MailService** owes a message to the recipients it was accepted for
(`AcceptMail`), hears answers of destinations (`Answered`), and stops owing it to
those who have one (`Discharge`) or by a write-off in the open (`WriteOff`).
`Reopen` is a retry of a settled message. `Spool` is mapped to it (`Owed`,
`ImplementsMailService`): what is owed is read off what survives a restart, the
recipients of a pending row whose body is on disk. Every step of the listeners, the delivery loop, the
administrators and of a crash must be a step of the service or change nothing in
it.

**Alerter, Health, Monitor.** The alerter's mutex is taken more than once on the
way of an alert, so the steps between are actions: a timer elapses (`Elapse`),
fires (`Fire`), passes the throttle (`ShouldSend`) and sends on the channel
(`Enqueue`). A timer is an object that outlives its entry in the map. A round of
the checker has one goroutine per primary (`chk[p]`), which probes (`Probe`),
records for each domain listed at the beginning (`Apply`), tells the alerter
(`Notify`), pulls the queue forward (`Pull`) and wakes the loop (`Wake`), while
administrators edit and delete domains. `Monitor` adds Resume, the signal, the
end and the start. `heard` is what the operator was told, `due` the domains
pulled forward and not claimed from since, `unheard` those of which an outage was
marked as announced while its alert was throttled, dropped by a full channel, or
lost with the process: the mark `fired` is set before the alert has got through,
so a recovery of such a domain may be announced without its outage, and
`RecoveriesHaveOutages` is about the others.

**Admission.** `conn[c]` is a session with the stage it is in and what it has
read: the domain, the recipients, the limit, the month. `slots` is the channel
that bounds connections; `pend` counts pending messages by domain and origin;
`usage` is outbound_usage. One action per command, and DATA in its statements
(`StoreBody`, `ReserveSends`, `Enqueue` or `EnqueueFails` and `ReleaseSends`,
`LimitReached`).

**Inspection, Filters, Dnsbl.** `at` is where `session.Data` is between the body
and its answer; `live` says whether its deadline has passed; SPF is a goroutine
of its own. What rspamd and clamd do is chosen at the beginning, hanging up and
hanging included. `Filters` has the table, the rules in memory, loads by requests
and by the sweep (read and install are two actions), and sessions that walk
through the rules they found; the updates of match_count go by themselves. In
`Dnsbl` one goroutine per zone, a channel, a common deadline.

**Signing, Routing.** Requests that read a row, look at DNS or validate, and
write; the delivery loop that takes the enabled key (`Send`) or the route of the
first recipient (`RouteOfMail`) of the moment. `Due` in `Routing` is the
reference: the path a destination should take by itself.

**BlobStore** keeps a file as its header and its sealed chunks: a chunk opens
only under the key, salt, counter and last flag it was sealed with. `Damages`
cuts, garbles, reorders and mixes chunks; `Crash` ends a process while it writes
the key or a body. **TimeText** writes times as the text the statements compare,
with a base and a number of digits that are constants.

**Accounts, SecondFactor.** `req[r]` is a request between two of its statements
with what it has read; ids are never reused (AUTOINCREMENT), addresses are.
`SecondFactor` has two actions per handler, the decision on the row that was read
and the conditional statement. **Limiter** is the sliding window and its sweep.

**Cluster.** Each node has a database (`conf`), its cluster_nodes (`rows`) and a
round: a snapshot, one call to each peer, `SyncConfig`, `Pull`. `Export` and
`PlanImport` translate between a database and the document, with the keys a
document leaves out (`Omitted`); an import is applied statement by statement, by
the round ("sync") and through the API ("api") at the same time. `led` is the
history of the nodes that have been primary or whose document an administrator
uploaded somewhere.

**LiveEvents** has streams with bounded channels and the order of the end of the
server: Shutdown waits for the handlers, then the hub is closed. **Certificates**
has the loop (`Obtain`, `Sleep`, `Wake`), autocert as an external that renews by
itself, and an authority that comes and goes; **IssuanceGuard** the token bucket.
**Backup** has a file that bears its name from the moment its copy begins.

## 3. Properties and runs

History variables of `Spool`: `reached` (a destination took responsibility),
`refused` (5xx), `told` (named in a bounce that was queued), `twice` (sent
again), `shaken` (the process ended, a reply was lost or a write failed while the
message was worked on). The other modules name theirs where they are declared.

**How an MC module combines instances.** Components that share no variable are
checked in one run. Its MC module makes one INSTANCE of a component for each set
of sizes and bounds (a *focus*), `Init` chooses `focus`, and from then on only
that instance moves, while the variables of the others keep one of their initial
values. `focus` never changes, so the state space is the sum of those of the
instances, not their product. Nothing is lost: a property is about the variables
of one component, and no action of a component reads those of another, so the
behaviours of a component are the same with the others at rest. `Spool` and
`Webhooks`, which are one component each, have *modes* instead: a mode keeps a
behaviour within some of the bounds (`InMode`), so that several small instances
stand in for their product, which is beyond TLC's reach. A property of an MC
module is the conjunction of the properties of its components that answer one
question, each under the foci where the code keeps it; the foci where it does not
are the subject of "Departures" below.

**Safety of the mail path**

| run | mode or focus | instance |
|---|---|---|
| `delivery` (MCSpool) | one | 1 received message, 2 recipients, and two out of a request, an error of the database and an end of the process (one if it is a shutdown), anywhere |
| | pair | 2 messages, 2 workers, claims of 2 and lists of 1 row |
| `mail` (MCSpool) | bounces | 1 message of an authenticated sender and its bounce, 2 recipients, retention that runs out |
| | answers | the same with a request of an administrator |
| | submission | 1 submitted message and its bounce, 2 recipients, 2 attempts |
| | crash | 1 message, 1 recipient, its bounce, an error and an end of the process |

`delivery` checks `TypeOK`, `NoMailLost`, `NoOrphanBody` and the action property
`SettledStays`. `mail` checks `NoSecondCopy`, `BouncesAreTrue`, `RefusalsAreTold`
and the refinement `ImplementsMailService`.

**Safety of the other components**

| run | focus | instance | properties of the components |
|---|---|---|---|
| `webhooks` (MCWebhooks) | mode fanout | 2 subscriptions, 3 events read 2 at a time, 1 kept, two of a fault, a stop and a request | `NoEventMissed`, `OutboxInOrder` |
| | mode retries | 1 subscription, 2 rows, 2 workers, 2 attempts, a fault or a request | `AttemptsAreCounted` |
| `monitor` (MCMonitor) | recovery | 1 domain, 2 primaries of which one turns 3 times, thresholds of 2, 2 timers, an alert about mail, a stop, no throttle | `AlertsAreTrue` |
| | throttle | 1 domain that is edited, moved, deleted and made again (2 edits), 2 turns, thresholds of 1, a throttle, a channel of one alert | `AlertsAreTrue` |
| | wakeup | 2 domains on 2 primaries, no alerter, the loop that passes, a channel of one wake-up, 2 turns, 1 edit, 1 fault | `NoLostWakeup` |
| `reception` (MCReception) | both | 3 connections on both ports, 2 slots each, room for 2 messages and for 1 of a domain, 1 recipient, drain mode, an account that goes | `OvershootIsBounded`, `SendsAreAccounted` |
| | inbound | 3 connections on port 25 in 2 slots, 2 recipients, a domain that is switched off, a full disk, failing writes, a bounce, a crash | the same |
| | submission | 2 submissions of up to 2 recipients, limits of 1 and 2 that change, 2 months, failing inserts, a crash | the same |
| | checks | every configuration of the checks and every answer, a body in 2 pieces | `ScanIsTruthful`, `VerdictsAreHonoured`, `FailsOpen` |
| | verdicts, counts | 2 filters, 2 changes, loads of requests and of the sweep; a restart, or 2 messages, enabled filters and a read that fails | `VerdictsAreOfOneTable`, `MatchesAreCounted` |
| | lists | 3 zones, 5 answers each | `NoListingIsLost`, `RefusedIsListed`, `DetailsAreComplete` |
| `panel` (MCPanel) | passwords, serial | every operation on 2 accounts, one request at a time | `SetupOnce`, `AdministratorRemains`, `ChangeEndsSessions`, `KeepsSubjects`, `OwnersExist` |
| | setups | 2 requests at a time: setup, sign-in, provider; clients that hang up | `SetupIsAlone`, `OwnersExist` |
| | races | 2 requests at a time that create, change and delete 3 accounts over 2 addresses | `TargetsStay`, `OwnersExist` |
| | enrolments | 2 secrets, 2 batches of 2 codes, one request at a time | `CodesAreUsedOnce`, `SecretIsProven` |
| | codes | 2 requests at a time within one enrolment, 2 secrets that may be pending | `CodesAreUsedOnce`, `KeepsSecret` |
| | limit | 2 addresses, 2 tries, a table swept at 1 entry, 3 sign-ins open | `BudgetHolds`, `NobodyIsLockedOut` |
| | streams | 2 streams, channels of 2, 4 events | `NoPanic`, `SlowClientsAreAlone` |
| `cluster` (MCCluster) | import, overlap | 2 nodes, 2 changes of every kind or 3 of domains, an import through the API next to the follower's; a third node takes no part | `ImportSettles` |
| | spread | 3 nodes, 0 to 2 primaries, roles that change, 2 changes, 1 fault | `OnlyPrimariesSpread` |
| `upkeep` (MCUpkeep) | damage | 2 bodies of up to 3 bytes in chunks of 2, 2 changes from outside | `ReadIsPrefix`, `ReadIsWhole` |
| | keys | 2 processes that open an empty directory, 2 crashes, a size limit | `UndamagedReads` |
| | times | base 3, 2 digits of seconds and 2 of fraction, every pair of times | `NotBeforeItsSecond`, `NotAfterItsSecond`, `ReadBack` |
| | backups | an interval of 2, 1 kept, 6 ticks, 2 stops, 2 faults | `AWholeOneRemains`, `FilesAreBounded` |
| | renewals | life of 10, renewed 6 before, refreshed every 3, 20 ticks, 3 outages or ends of one, a restart | `ServedIsValid`, `ArrivesInTime` |
| | guard | 2 clients, burst of 2, refill of 5, 18 ticks | `BurstIsBounded`, `RunawayIsSlowed` |
| | keypairs | 1 administrator, 3 keys, 2 messages, 5 changes | `SignaturesResolve` |
| | routes | 3 routes among overlapping patterns, 2 messages, 3 changes, a failed read | `OneRouteEach`, `OnItsRoute` |

The MC modules (for what is also proved, `Monitor`, `Screening`, `Admission`, `Panel`,
`Upkeep` and `Cluster`) combine them as follows; a name that stands on its own in the
table above is that of the run's property too.

| run | property of the run | parts |
|---|---|---|
| `monitor` | `NoLostWakeup` | with the types of all foci |
| | `AlertsAreTrue` | `RecoveriesHaveOutages`, `OutagesAreToldOnce` |
| `reception` | `OvershootIsBounded` | with `CapOvershootIsBounded`, `SlotsAreConnections` and the types |
| | `SendsAreAccounted` | `LimitHolds`, `UsageIsAccounted`, `ToldOnce` |
| | `VerdictsAreHonoured` | with `ScanIsTruthful`, `FailsOpen` |
| | `FiltersAreConsistent` | `VerdictsAreOfOneTable`, `MatchesAreCounted` |
| | `ListingsAreHonoured` | `NoListingIsLost`, `RefusedIsListed`, `DetailsAreComplete` |
| `panel` | `AdministratorRemains` | with `SetupOnce`, where requests come one after the other and no provider makes accounts |
| | `ChangeEndsSessions` | where requests come one after the other and none is cut off |
| | `IdentitiesStay` | an action property: `OwnersExist`, `SetupIsAlone` and `SecretIsProven` after each step, `KeepsSubjects` and `KeepsSecret` of it |
| | `BudgetHolds`, `SlowClientsAreAlone` | with `NobodyIsLockedOut`; with `NoPanic` |
| `cluster` | `ImportSettles` | with the types |
| `upkeep` | `BodiesAreKept` | `ReadIsWhole`, `ReadIsPrefix`, `UndamagedReads` |
| | `TimesKeepTheirOrder` | `NotBeforeItsSecond`, `NotAfterItsSecond`, `ReadBack` |
| | `BackupsRemain` | `AWholeOneRemains`, `FilesAreBounded` |
| | `RenewalsAreSafe` | `ServedIsValid`, `ArrivesInTime`, `BurstIsBounded`, `RunawayIsSlowed` |
| | `OutboundAsConfigured` | `SignaturesResolve`, `OneRouteEach`, `OnItsRoute` |
| `mail_progress` | `QueueDrains`, `TransactionsEnd` | with `DrainsToZero`; with `LookupsEnd` |
| `node_progress` | `EventsArrive` | `TailerCatchesUp`, `DeliveriesSettle` |
| | `StatusConverges` | `StatusAgrees`, for ever from some time on |
| | `Converges` | with `DriftIsTruthful` |

**Liveness**

| run | focus | instance | properties of the components |
|---|---|---|---|
| `mail_progress` (MCMailProgress) | queue | 1 message, 1 fault, 1 stop | `QueueDrains` |
| | bounced | 1 message and its bounce | `QueueDrains` |
| | drain | 2 connections, room for 1 message | `DrainsToZero` |
| | checks | scanners that answer, break off or hang, statements that fail | `TransactionsEnd` |
| | lists | 2 zones, 5 answers each | `LookupsEnd` |
| | rules | 2 administrators and the sweep, 2 changes, a failed read | `FiltersSettle` |
| `node_progress` (MCNodeProgress) | hooks | 1 event, 2 rows, 2 attempts, 1 stop | `DeliveriesSettle`, `TailerCatchesUp` |
| | alerts | 1 domain, 3 turns, 2 timers, 1 stop | `DownIsAlerted` |
| | probes | 2 domains on 2 primaries, 1 turn, 1 edit, success_threshold 2 | `StatusAgrees` |
| | nodes | 2 nodes, 2 changes, 1 fault | `Converges`, `DriftIsTruthful` |
| | live | 2 streams, channels of 1, 2 events | `StreamsEnd` |

**What the violated runs show.** Both state what a document of the repository
says; `PROJECT.json` quotes the line.

| run | property | the code |
|---|---|---|
| `direct_timeout` | `NoSubmissionLost` | `sendDirect` breaks out of its loop over domains when its context is done (outbound.go:203); the recipients of the remaining domains are in none of the lists it returns, so `settle` narrows them away or settles the row |
| `quarantine_race` | `HeldIsNeverClaimed` | the row is inserted due and queued and held by a second statement (smtpd.go:545), between which a pass can claim it |

**Departures.** Modelling met other places where an interleaving or a setting
makes the code depart from what a document, a comment or a test leads one to
expect. The models have them, since they follow the code; the instances and the
properties of the passing runs stop short of them on purpose. The last column
says which instance shows the departure.

| where | what the code does | shown by |
|---|---|---|
| `api/handlers.go:549` | the pending mail is counted before the domain is deleted; a message accepted in between goes with it although nobody forced the deletion | `Spool` with `Admin`: a message enters `writtenOff` by an unforced deletion |
| `webhook/webhook.go:241` | any error of the lookup is taken for a subscription that is gone | `Webhooks`, `Lookup` with a fault: a row fails without a request |
| `store/domains.go:173` | with success_threshold 2 a new primary that answers once and then never again does not flip | focus alerts with that threshold: `DownIsAlerted` |
| `alert/alert.go:200` | a throttle entry written after the recovery removed it swallows the next outage | focus alerts with `MinInterval <- 1`: `DownIsAlerted` |
| `alert/alert.go:226` | a timer that had fired announces the outage after its recovery, which is then never closed | focus recovery: "primary_down" is the last word on a domain that is up |
| `alert/alert.go:196` | an outage is marked as announced before its alert has passed the throttle and the channel; if it does not, its recovery is announced all the same | focus throttle without the history `unheard`: `RecoveriesHaveOutages` |
| `store/users.go:192` | the last two administrators delete each other: both requests count two | focus races: `AdministratorRemains` |
| `api/oidcauth.go:219` | a sign-in before setup provisions a viewer and closes setup | focus setups: `AdministratorRemains` |
| `api/handlers.go:165` | a sign-in that overlaps the password change keeps its session | focus passwords with 2 requests: `ChangeEndsSessions` |
| `api/account.go:109` | a client that hangs up between the UPDATE of its password and the DELETE of the other sessions leaves them | focus passwords with `Aborts <- TRUE`: `ChangeEndsSessions` |
| `store/users.go:425` | LinkOIDC does not ask again whether the account is unlinked | focus serial with 2 requests: `KeepsSubjects` |
| `store/account.go:50` | the statement does not ask whether the secret is still the one that was verified | focus codes with "disable" among `Handlers`: `CodesAreUsedOnce` |
| `api/configio.go:323` | a document with an account of a deleted domain cannot be imported | focus nodes with accounts: `Converges` without its proviso |
| `api/configio.go:94`, `:86` | an empty list and a NULL limit are left out of the document and left alone by the import | focus nodes with "recipients": the follower keeps the list |
| `api/configio.go:390` | an account is created enabled whatever the document says | focus import: a new account of a disabled one |
| `submission/submission.go:285` | port 587 does not look at queue.max_bytes | focus queue with a small `MaxBytes` |
| `submission/submission.go:461` | a released reservation lets the limit be reached again | focus monthly: `ToldOnce` |
| `filter/filter.go:76` | nothing orders two loads, so that a saved filter may be out of force until the next sweep | focus rules: `rules` after the last load of a request |
| `clamav/clamav.go:147` | clamav.timeout bounds the dialling only | focus checks with a clamd that hangs: `FailsOpen` |
| `api/outbound.go:162` | the row is enabled whichever key it holds by then | focus keypairs with 2 administrators: `SignaturesResolve` |
| `sender/outbound.go:87` | the first recipient decides the route for all | focus routes with messages to two destinations: `OnItsRoute` |
| `backup/backup.go:112` | a file that was cut off counts as recent at the next start | focus backups: no copy is taken at a start that finds a broken file |
| `acme/acme.go:192` | renew_before may be shorter than the refresh interval | focus renewals with `RenewBefore <- 2`: `ServedIsValid` without its proviso |
| `acme/guard.go:86` | a request that has waited is sent without a token | focus guard: more requests than burst and refill allow |

**Deadlock** is checked in `delivery`, `mail` and `monitor`, where something can
always happen (a primary flips, a pass begins, a ticker fires). The other runs
have it off, because there a model really comes to rest: requests, sessions and
lookups end, and the budgets of changes, events and ticks of the clock are spent.
Where resting would be wrong (a goroutine that waits for ever), a liveness
property says so (`TransactionsEnd`, `LookupsEnd`, `StreamsEnd`, `FiltersSettle`,
`DrainsToZero`). Mode fanout of `webhooks` follows the behaviours in which the
delivery loop never gets a turn: the tailer reads nothing that loop writes.

**Bounds.** Two recipients are the fewest that can end differently; two messages
the fewest for which a claim or a list is cut short and two workers overlap.
With one attempt a deferred message is tried again only when an administrator
retries it; mode submission has two, so that a backoff elapses and a second
attempt follows the first by itself. A fault, a stop and a request can each
happen at any point of everything else, and in pairs; larger numbers repeat the
same cases, and the theorem about `NoMailLost` covers them all. Three events in
batches of two make a round that is full and one that is not, and two
subscriptions are the fewest of which one can be deleted while the other waits
for its rows. In focus hooks every row that one restart can cause fits (2).
Three turns of a primary that is down at the start are two outages with their
recoveries, the fewest in which a late timer of the first meets the second.
Three connections in two slots have one that is refused and two that pass a
limit together. Two requests on accounts are the fewest that race; the serial
foci say what holds when they do not. Three accounts over two addresses let an
address be given again. A third node is needed only for what travels through a
follower. Chunks of 2 in bodies up to 3 have an empty body, a full last chunk,
and a partial one after a full one. A fraction of 2 digits in base 3 has every
pattern of zeros at its end. Focus renewals has absences of the authority that
leave room for a renewal (up to 2 hours, with a refresh interval of 3 and a
window of 6) and longer ones, which `ServedIsValid` excuses by what it counts
(`outage`).

**Fairness** is stated in the two progress modules, on groups of actions that the
components define next to their specification. *Scheduler*: weak fairness of each
goroutine's next step (`Goes`, `Works`, `Tailer`, `Delivers`, `Worker`, `Checks`,
`Emits`, `Sends`, `DataSteps`, `LooksUp`, `Decides`, `Loads`, `Serve`, `Round`,
`Upload`). *Timers and tickers*: they fire (`Ticks`, `RunsOut`, `Tick`, `Timeout`,
`Shutdown`'s ten seconds). `Wakes`, `Maintains` and `Releases` of the delivery
loop are strongly fair, because `Run`'s `select` picks at random among the
channels that are ready, so that none of them is passed over for ever. *Clocks*:
retentions and backoffs run out, and an abandoned claim becomes older than the
cutoff. After a signal the process ends, in 30 seconds at most, and a process
that ended is started again (`Ends`, `Restarts`). `DrainsToZero` assumes that
mail that is queued leaves (that is `QueueDrains`) and that DATA goes on; nothing
of clients. Nothing is assumed of primaries, endpoints, scanners, block lists,
administrators or peers: they may refuse or stay silent for ever.

**Limits worth knowing.** `NoMailLost` counts a message as written off once its
domain's bodies are removed, also if the DELETE that follows then fails: the
administrator asked for it, and was told of the failure. `NoOrphanBody` excuses
messages that were shaken and domains that are gone: bodies beyond the first 500
of a deleted domain, and those a crash leaves between Put and Enqueue, stay on
disk, and no code looks for them. `NoEventMissed` excuses what `PurgeEvents`
dropped before the tailer saved a cursor beyond it: the purge does not look at
the cursor. `AttemptsAreCounted` excuses rows whose answer could not be recorded:
such a request is repeated and is not in the attempts column. `TailerCatchesUp`
excuses a tailer whose start failed: nothing starts it again before the process
is restarted. `OvershootIsBounded` leaves out the node's own bounces, which no
limit applies to. `UsageIsAccounted` counts what a crash left charged.
`Converges` asks that the document can be imported. `OnItsRoute` excuses an
attempt for which the routes could not be read. `OutagesAreToldOnce` is about one
life of the process: after a restart `Resume` announces an outage that goes on a
second time.

**Hazards.** `PROJECT.json` lists the places that are hardest to reach with a
test. Those of the table of departures that no property of a passing run touches
are in that table only.

## 4. Proofs

The theorems hold for every value of the constants: any sets of messages,
recipients, domains, subscriptions, zones, requests, streams and routes, any
numbers of workers and attempts, chunks and digits of any size, any bounds. What
is assumed is about constants only, named where they are declared and evaluated
by every run: ids of different kinds differ (`IdsAssumption`, they are random),
there is a domain (`DomainAssumption`), bounds are numbers (`BoundsAssumption`,
`SenderAssumption`, `AdminAssumption`, `StopsAssumption`, `WebhooksAssumption`),
the sets of zones and of clamd's answers are what `ScreeningAssumption` says,
accounts, codes, channels and windows have the sizes of `PanelAssumption`,
bodies, times, intervals and routes those of `UpkeepAssumption`: chunks, steps
and intervals are not zero, there is a digit before and after the point and the
base is from 2 to 10, keys and ids are none of the values that stand for "none".
The theorems of AdmissionProofs have `AdmissionBounds` as their hypothesis:
finitely many connections and domains, positive limits, and a highest sending
limit; `reception` evaluates it (`ListenersAssumption`). Those of ClusterProofs
have `ClusterBounds`: bounds that are numbers, a model value for "no domain"
that is none, and initial configurations whose settings are of the node itself
or of a node that has been a primary; `cluster` evaluates it
(`ClusterAssumption`). Those of MonitorProofs have `MonitorBounds`: finitely
many timers and goroutines, a domain, and bounds, thresholds and depths that are
numbers; `monitor` evaluates it for its three instances (`MonitorAssumption`).
`CodesUsedOnce` has a hypothesis besides, and `AdministratorRemains`,
`ChangeEndsSessions`, `IdentitiesStay`, `OutboundAsConfigured` and
`RenewalsAreSafe` have theirs in the property: which requests may overlap, that
a message is for one destination, that the authority is not away for longer than
renew_before leaves room for. They are there because the code breaks the
property without them (section 3, "Departures").

| module | theorem | states |
|---|---|---|
| MailProofs | `TypeCorrect` | `TypeOK` |
| | `MailInvariant`, `MailKept` | `MailInv`, `NoMailLost` |
| | `PathInvariant` | `PathInv` |
| | `CopiesAreSingle` | `NoSecondCopy` |
| | `BouncesTrue`, `RefusalsTold` | `BouncesAreTrue`, `RefusalsAreTold` |
| | `BodiesOwned` | `NoOrphanBody` |
| | `SettledRowsStay` | `SettledStays`, an action property |
| | `MailPathImplementsService` | `ImplementsMailService`, a refinement |
| WebhookProofs | `WebhookTypes`, `AttemptInvariant`, `AttemptsBounded` | `TypeOK`, `AttemptInv`, `AttemptsAreCounted` |
| | `CursorInvariant`, `EventsKept` | `CursorInv`, `NoEventMissed` |
| | `OutboxOrdered` | `OutboxInOrder` |
| MonitorProofs | `MonitorInvariant` | `MonitorInv` |
| | `WakeupsKept` | `NoLostWakeup` |
| | `AlertsTrue` | `AlertsAreTrue` |
| ReceptionProofs | `ListingsHonoured`, `VerdictsHonoured` | `ListingsAreHonoured`, `VerdictsAreHonoured` |
| | `FiltersConsistent` | `FiltersAreConsistent` |
| AdmissionProofs | `AdmissionInvariant` | `AdmissionInv` |
| | `OvershootBounded` | `OvershootIsBounded` |
| | `SendsAccounted` | `SendsAreAccounted` |
| PanelProofs | `AccountInvariant`, `AdministratorStays`, `ChangesEndSessions` | `AccountInv`, `AdministratorRemains`, `ChangeEndsSessions` |
| | `TargetsKept` | `TargetsStay` |
| | `CodesUsedOnce` | `CodesAreUsedOnce` |
| | `IdentitiesKept`, `SecretKept` | `IdentitiesStay`, an action property; its part about secrets |
| | `SlowClientsAlone` | `SlowClientsAreAlone` |
| | `LimitHolds` | `BudgetHolds` |
| ClusterProofs | `ClusterInvariant` | `ClusterInv` |
| | `SpreadFromPrimaries` | `OnlyPrimariesSpread` |
| | `UndisturbedImportsSettle` | `ImportSettles` |
| UpkeepProofs | `BodiesStay` | `BodiesAreKept` |
| | `TimesStayInOrder` | `TimesKeepTheirOrder` |
| | `BackupsStay` | `BackupsRemain` |
| | `RenewalsStaySafe` | `RenewalsAreSafe` |
| | `OutboundStaysAsConfigured` | `OutboundAsConfigured` |

**The mail path: nothing is lost.** `StatementsOnOneRow` and `StatementsOnRows`
(MailProofs) state once what the SQL statements do to the table; all later steps
cite them. `NoMailLost` is not inductive: a worker may go from a state that
satisfies it to removing a body that is still needed. `MailInv` adds what the
goroutines know:

* `RowInv`: nothing is owed to anybody any more, or the row is pending, its body
  is there and its recipients cover what is owed;
* `JobInv`: what a worker took (`held`) and what it means to keep (`parts.def`)
  cover what is owed, and it reaches `unlink` only when nothing is. A missing
  body implies that nothing is owed (by `RowInv`), which is why "message body
  unreadable" is harmless here;
* `LoopInv`: rows are claimed, expired and given back only when no worker is
  left, so a claim is never taken from a worker;
* `IdInv` and `DsnInv`: an id is used for one message, the body is written before
  the row, a bounce being queued shares its id with nobody.

`WorkerAlone` and `WorkerGoes` reduce a worker's step to its own message;
`SameStays` disposes of the others. Submitted mail (`OutMsg`) is outside this
theorem: `direct_timeout` shows that it does not hold there.

**The mail path: one message at a time.** The properties about copies, bounces,
bodies and settled rows, and the refinement, are all about a single message, and
a step of `Spool` changes few of them. The second half of `MailProofs` begins by
saying so once, with no property in mind: a *move* is what may happen to a
message (it is claimed, parted, narrowed, retried, its report is queued, ...),
with its precondition, and `StepShape` proves that every step of `Next` makes
one move of one message, the same move of several, or that of a message and its
report, and leaves the others `Still`. What follows has one lemma per move, for
`PathInv` and for the refinement, and never opens an action again.

`PathInv` (in `Spool`) is inductive with `TypeOK` and `MailInv`. Its parts, for
each message:

* `EnvelopeInv`: only recipients of the envelope are served, refused or reported;
* `StageInv`: the stage of the worker, the outcome of the attempt and the three
  lists `sendDirect` returns agree; the lists are disjoint;
* `OwnerInv`: the row is not settled before its worker settles it, and its
  recipients are those the worker has until it narrows them. Without this a
  settled row could be narrowed back to life;
* `CopyInv`: a row that still has a body asks for nobody who has the message,
  except those its worker is about to take off. This is what `NoSecondCopy` needs
  at the moment a message is claimed, long after it was sent;
* `TellInv`, `RefusalInv`: the same about who was named in a bounce, and who is
  still to be named;
* `ReportInv`: a bounce under way belongs to the worker that writes it;
* `BodyInv`: a body has a row, or somebody, that will remove it.

`CopyInv` is asked of messages that were not shaken, `TellInv` and `RefusalInv`
also not of those claimed before their quarantine was written (`hold`): the
exceptions of the properties, and no others.

**The refinement.** `Service!ServiceInit` follows from `Init`; each move is a
step of `MailService` for its message (`TakingOn`, `Hearing`, `Settling`,
`Reviving`, `Dropping`) or changes nothing the service speaks of (`QuietMoves`).
That a row leaves the pending states only when its recipients were answered or
written off is `MailInv`.

**Webhooks.** `WebhookTypes` and `AttemptInvariant` are proved together, since the
attempts column stays in its range only because a row that is pending or in a
worker's hands is below the limit. `NoEventMissed` alone does not say why the
cursor may be saved: `RoundInv` says that a round read everything between the
cursor and its last event, except what was purged (a batch is a prefix of what
follows the cursor, `OldestIsPrefix`); `PairsInv` that what it read is in the
outbox or still to be inserted. Rows are never taken back (`RowsKept`).
`OutboxInOrder` needs to know where the rows come from: `PlaceInv` (each is for an
event the cursor is past, one that is read again, or one of the round under way),
`AgainInv` (what is read again has nothing new before it) and `TodoInv` (what is
still to be inserted comes after what its subscription has).

**Health checker and alerter.** `WakeInv` is `NoLostWakeup` with the one case
sharper: a goroutine that is about to tell the alerter of a domain is on its way to
wake the loop only if that domain came up. The send finds the channel full or
fills it, and a message in it outlives the wake-up it was for.

`RecoveryInv` takes `fired` into the count: a recovery is announced by taking back
a mark, so recoveries and marks together are at most the outages. A timer sets the
mark and begins the alert in one step; what may happen to the alert later is
`unheard`. That an alert is one goroutine's at a time is `EmitInv`, without which
a second one would overwrite the first.

`OutagesAreToldOnce` compares two histories: what was announced, and how often
primaries have turned and domains have changed. Between them lie probes that are
applied late, timers that fire late and may be set again before, marks, restarts.
`OutageInv` is the account: the alarms of a domain that have begun (announced,
waiting for their timer, about to be told), each counting for two changes, with
what Resume may still announce, stay within turns, edits, two for each stop, and
the `Level` of the domain, the part of an outage that is under way. Against it is
also held what an answer in somebody's hand may bring: a change of the counters
(`Change`), unless the primary has turned since (`Overtaken`), which is a change
paid for already. `AnswersPay` shows that an answer that is applied moves from one
side to the other, for any thresholds; `OutageStep` reduces each action to what it
adds to either side. `RoundInv` is needed there: a domain is in the hands of one
goroutine in a round, so no answer is applied twice.

**Block lists and checks.** No listing is lost because the channel always has
room: it holds zones whose goroutine is done, each once (`ChannelInv`), and one
that is about to send is not among them; `RoomForOneMore` turns that into
`Len < Cardinality`. `KeptInv` then says where a listing is that was heard: with
its goroutine, in the channel or in the result. `CheckInv` carries, past each
check, what that check decided to the end of DATA. That a scanner costs no mail
holds unless it takes a body and never answers: the deadline that ends such a
scan is that of the whole transaction.

**Filters.** Why a verdict is that of one table: what is in force, what a load has
read and what a session walks through are each the sorted rules of a table there
has been (`LoadInv`, `WalkInv`), and tables are only ever appended. `CompiledIsSorted`
proves that the rows of a table can be sorted by priority and id, each row once: the
place of a row is the number of rows before it, which is a bijection because no two
rows share an id (`KeysInv`). Hence the first rule that matches is the row that
decides (`FirstMatchDecides`). No match is lost because an id is never given again
(`CountInv`: nothing is counted for an id that was not given), so that a count is
about one filter, and the update of a filter leaves its count alone.

**Admission.** Each limit is looked at when a command arrives and used up minutes
later, so the invariants count whoever is in between. `QueueInv`: pending messages
and the sessions past MAIL (`Underway`) are together less than the limit and the
slots; a session joins only while the queue is below the limit, and then the other
sessions are fewer than the slots (`SlotsBound`, which needs that tokens are
connections, `SlotInv`). `CapInv` is the same past RCPT for one domain. `UsageInv`:
what a session has reserved stays charged until it is queued, released or lost,
each in the month of the reservation, so that a release never finds less in the
counter than it gives back: its test for that is never needed. `TellInv`: the
session that reaches the limit is alone in having reached it, and nobody reports
before or after it in that month. `Fits` says what a session has checked at its
stage. The quantities are cardinalities (of pairs of a message and its queue, of a
connection and a recipient it has sends for), not sums over functions, so that
what a step does to them follows from the theorems about finite sets
(`OneMorePlace`, `ChargesMove`).

**The panel.** `RowsInv` (any requests at once): ids are given in order and once,
so that the account a request was about is the one it meets, or none. `SerialInv`
(requests one after the other): a request finds the row as it read it
(`ReadInv`), whoever takes an administrator away has counted another
(`SeatsInv`), and only the session a password change came with, or one it is
about to end, outlives it (`ChangeInv`). `FactorInv`: over several enrolments
codes are told apart by their secret, which is new each time (`SecretInv`); with
requests that overlap within one enrolment by the last step alone
(`EnrolmentInv`). Both arguments fail for overlapping requests of which one turns
the factor off, and so does the property. `LiveInv`: a channel in the hub is open,
and a closed hub is empty (`HubInv`), so no channel is closed twice or sent on.

`IdentitiesStay` adds three facts to these. `WizardInv`: the wizard's INSERT
asks for an empty table, so that while the first account exists it makes no
other one, with any requests at once. `LinkInv` (requests one after the other):
a request that links an account finds it free or its own, from the read that
decided so to the statement that writes (`OnlyLookupsLink`, `LinkStep`); with it
`SubjectsStep` goes through the actions that write a subject. `SecretStep` is
`KeepsSecret` from the conditions of the two UPDATEs alone, for any overlap;
that the secret was proven is `SecretInv`.

**The sign-in limit.** `Allow` compares a table that loses attempts three ways
(a sign-in cuts what is out of the window, the sweep drops what looks empty, a
success resets) with a history that loses none. `LimiterInv` has the attempts of
an address in the order of time, and `NothingForgotten`: within the window the
table and the history are the same. What a loop over a sequence leaves takes an
induction in general; but times are in order, so that what the loop keeps is the
end of the entry after some point (`KeepsTheEnd`, from the equation of the
recursive function; `Parted`), which moves only forward; from this come the
length that is compared with the budget, and that an address whose attempts are
all old is let in.

**Synchronisation.** Settings travel as values: in a document, a plan, the
statements of an import. `ClusterInv` follows them. Where they come from: every row,
answer and round names as primary only a node that has been one (`RowOf`,
`RoundInv`), `Export` takes the hosts of a database along (`PlanHosts`), so a pull
brings hosts of such nodes and no others. What an import does: `PlanIsRight` proves
that the plan made from a document and a database, together with what the database
has, is what the document says (`WillHold`, for each domain: created, updated, its
list replaced, or already so), with the keys a document leaves out; each statement
then moves a domain from the plan to the database and keeps that (`CreateKeeps`,
`UpdateKeeps`, `RecipientsKeep`), so that a plan with nothing left is an import that
has settled (`DoneKeeps`). A statement that fails, or a change by anybody else, ends
`clean`, and with it the claim: the code has no transaction around an import.

**Bodies.** `BlobInv` follows one key and many chunks. `KeysAgree`: the key file is
made by the one process whose exclusive creation succeeded, and whoever has opened
the store has the key in it, however many begin at once and wherever one of them
ends. `PutsInOrder`: what `Put` has sealed so far is the chunks of the body in their
order (`Part`), and a file gets its name only when it is `Complete`, with the chunk
that is marked as the last. `FilesAreWhole`: so is every file nobody damaged.
Damage is any rearrangement of sealings, of this file or of others, and of garbage;
`Sealing` says that a chunk that opens under a key is as `Put` sealed it, and that
is all the argument takes of the cipher. `ReadersAreInPlace` then: the reader has
the first `ctr` chunks of the body, since what opens at its place can only be the
chunk of this body with that number (`OpenedIsNext`), and it comes to the end only
at a chunk that was sealed as the last one. `UndamagedOpens` is the converse: the
next chunk of a complete file opens.

**Times.** A time is a number and its text a sequence of digits in a base from 2 to
10, with any number of them before and after the point, and the zeros at the end of
the fraction cut off. That texts of different seconds compare like the seconds
needs the first digit in which they differ (`DigitsDiffer`): it is found among the
numbers that the first i digits make (`LeadingFacts`), and is the least i for which
these differ. `ReadBack` is that the loop which reads digits goes through the same
numbers (`ValueFacts`), a digit that was cut off being a zero. `Power` and `Value`
are recursive functions, of which it has to be proved that there is one before an
equation can be used. For `Value` the numbers of the first i digits are such a
function; for `Power` it takes an induction, done here over the least
counterexample (`Least`, `Induction`), with the predicate given as a set, since a
theorem with an operator as its parameter cannot be used.

**Backups.** `prune` goes by names. So `NamesInOrder`: names are given in the order
of time, one for each second, and the file that is being written bears the newest
(`TickIsLater`: the ticker fires next at a later second, also when ticks were
dropped). `CopyIsThere`: it is still there, and whole, when prune begins; prune
takes the oldest names, more than `keep` of them remaining, so that what was just
completed stays (`BackupsPrune`). The bound on the files counts what each trouble
leaves behind, with one more while a copy is under way.

**Certificates.** Of the certificate autocert holds: it is renewed
`RenewBefore` hours before its end, later by no more than the authority was away
while a certificate was served (`outage`); of the one that is served: the loop comes
back within `Refresh`, and adopts it. Added up, `outage + Refresh < RenewBefore`
leaves what is served valid. Without a certificate the loop sleeps no longer than
`RetryMax`, from the moment the authority is back at the latest. **The guard.**
`GuardInv`: requests that were let through at once and the tokens left are together
what was earned (`free + tokens`), and those of one moment and what may still be
taken then are a burst; a client that waits has, at the end of its wait, one more
wait to its name than it has been let through for (`WaitsGrow`: between now and
there lies a whole wait, whichever of the step and the rest of the refill ends it).

**DKIM keys and routes.** `SigningInv`: a request that is about to enable the row
means the key the row holds, and that one was found in the DNS; hence an enabled key
was published or forced. It needs requests one after the other. `RoutingInv`: a row
stands under its own id and no two rows are for one destination (the UNIQUE
constraint, kept by a change of a row that was read long ago). `PathIsDue` shows
that the query, which orders the rows that match by whether they are exact and then
by length, finds what is due: the rows that match a destination are for its
suffixes, suffixes of the same length are equal (`SuffixEnds`), and so the longest
is one row.

**Only model-checked.** Every invariant and every action property of the passing
runs is stated by a theorem. What TLC alone checks is liveness under fairness:
`QueueDrains`, `TransactionsEnd`, `FiltersSettle`, `EventsArrive`, `DownIsAlerted`,
`StatusConverges`, `Converges` and `StreamsEnd`. They rest on ENABLED, by way of the
weak and strong fairness of `mail_progress` and `node_progress`, which the prover
does not reason about. The two runs that expect a violation are counterexamples,
and need no proof.

## 5. Not modelled

Read errors of a body that exists and power loss (only the process crashes), the
SMTP dialogue beyond its commands and outcome, values of backoffs, ciphers and
hashes, the OpenID protocol, signatures of heartbeats and webhooks, the wording
of bounces and alerts, patterns of filters, validation of the texts of an
imported document, and the reading of the configuration file. The handlers of
the API that only read, the command line client and the web interface change no
state; `proxy`, `metrics` and the message formats have no state of their own.

## 6. Plan

1. Done: the mail path, webhooks, health checker and alerter, admission and the
   sending limit, message checks, accounts, cluster, upkeep, the abstract mail
   service with the refinement, and liveness under fairness.
2. Done: the mail path proved for every size, with every safety property of its
   runs and the refinement; webhooks; admission and the sending limit; message
   checks, filters and block lists; health checker and alerter; accounts, second
   factors, live streams and the sign-in limit; synchronisation between nodes; bodies,
   times as text, backups, certificates and their guard, DKIM keys and routes. Every
   safety and action property of the runs is a theorem.
3. Left to TLC: liveness, which needs ENABLED (section 4, at the end). Left to do: the
   hazards without a property in `PROJECT.json`, each with its reason there.
