------------------------------ MODULE Admission ------------------------------
(***************************************************************************)
(* What the two SMTP listeners let in: connection slots, drain mode, free  *)
(* disk space, the limits of the queue and of a domain, and the monthly    *)
(* sending limit.  Each limit is checked when a command arrives and used   *)
(* up minutes later, when the message is inserted, by sessions that run at *)
(* the same time.  Messages are counted here; module Spool follows them.   *)
(***************************************************************************)
EXTENDS Integers, FiniteSets, FiniteSetsExt

CONSTANTS Conn,         \* connections that may be open at the same time
          Ports,        \* {"mx", "sub"}: the listeners of this instance
          Slots,        \* max_connections of each listener
          Domain,       \* configured domains
          NoDomain,     \* no recipient yet
          MaxMessages,  \* queue.max_messages
          MaxBytes,     \* queue.max_bytes, every message being of one size
          Cap,          \* max_queue_messages of every domain
          Limits,       \* values an administrator gives monthly_send_limit (a
                        \* domain without one is a domain that never comes near it)
          MaxRcpts,     \* recipients of one message
          MaxMonth,     \* bound: months that pass
          MaxBounces,   \* bound: bounces the node writes
          MaxCrashes,   \* bound: crashes
          Failures,     \* writes of the database may fail
          Ops           \* what operators do: "drain", "disk", "limit", "domain", "account"

AdmissionBounds ==
    /\ IsFiniteSet(Conn) /\ IsFiniteSet(Domain) /\ NoDomain \notin Domain
    /\ Ports \subseteq {"mx", "sub"} /\ Slots \in [Ports -> Nat]
    /\ {MaxMessages, MaxBytes, Cap, MaxRcpts, MaxMonth} \subseteq Nat \ {0}
    /\ {MaxBounces, MaxCrashes} \subseteq Nat /\ Failures \in BOOLEAN
    /\ Limits \subseteq Nat /\ \E m \in Limits : \A l \in Limits : l <= m

VARIABLES conn,      \* sessions
          slots,     \* tokens in the channel of each listener
          draining,  \* maintenance.Manager
          lowDisk,   \* less than min_free_disk_bytes is available
          dom,       \* rows of the domains table
          account,   \* the submission account is enabled
          pend,      \* pending messages of each domain, by where they came from
          bounces,   \* bounces written
          usage,     \* outbound_usage by domain and month
          month, crashes,
          accepted,  \* history: recipients of the submissions that were queued
          told,      \* history: send_limit_reached events
          lost,      \* history: recipients charged for mail that was not queued
          reopened   \* history: domains whose limit was changed, or that got sends back

sys == <<draining, lowDisk, dom, account, month, crashes, bounces>>
vars == <<conn, slots, draining, lowDisk, dom, account, pend, bounces, usage, month, crashes, accepted, told, lost, reopened>>

Month == 1..MaxMonth
Zero == [d \in Domain |-> [k \in Month |-> 0]]
Kinds == {"mx", "sub", "dsn"}

\* The pending messages that came one of these ways, each a place in a queue.
Waiting(ks) == UNION {{w} \X (1..pend[w[1]][w[2]]) : w \in Domain \X ks}
InQueue(ks) == Cardinality(Waiting(ks))
Total == InQueue(Kinds)

\* limit and month are what the session read; before the usage it found.
Free == [at |-> "free", port |-> "mx", user |-> FALSE, dom |-> NoDomain, n |-> 0, limit |-> 0,
         month |-> 1, before |-> 0]
Stages == {"free", "accepted", "open", "mail", "stored", "reserved", "failed", "queued", "closed"}

AdmissionInit ==
    /\ conn = [c \in Conn |-> Free]
    /\ slots = [p \in Ports |-> 0]
    /\ draining = FALSE /\ lowDisk = FALSE
    /\ dom \in [Domain -> [on : {TRUE}, limit : Limits]]
    /\ account = TRUE
    /\ pend = [d \in Domain |-> [k \in Kinds |-> 0]] /\ bounces = 0
    /\ usage = Zero /\ accepted = Zero /\ told = Zero /\ lost = Zero
    /\ month = 1 /\ crashes = 0 /\ reopened = {}

-----------------------------------------------------------------------------
(* Connections.                                                            *)

Accept(c, p) ==
    /\ conn[c].at \in {"free", "closed"} /\ slots[p] < Slots[p]
    /\ slots' = [slots EXCEPT ![p] = @ + 1]
    /\ conn' = [conn EXCEPT ![c] = [Free EXCEPT !.at = "accepted", !.port = p]]
    /\ UNCHANGED <<sys, pend, usage, accepted, told, lost, reopened>>

\* A block list may name the client of port 25.
NewSession(c) ==
    /\ conn[c].at = "accepted" /\ ~draining
    /\ conn' = [conn EXCEPT ![c].at = "open"]
    /\ UNCHANGED <<slots, sys, pend, usage, accepted, told, lost, reopened>>

\* The slot is given back once, however often the connection is closed.
Close(c) ==
    /\ conn[c].at \in {"accepted", "open", "mail"}
    /\ conn' = [conn EXCEPT ![c].at = "closed"]
    /\ slots' = [slots EXCEPT ![conn[c].port] = @ - 1]
    /\ UNCHANGED <<sys, pend, usage, accepted, told, lost, reopened>>

CloseAgain(c) ==
    /\ conn[c].at = "closed"
    /\ conn' = [conn EXCEPT ![c] = Free]
    /\ UNCHANGED <<slots, sys, pend, usage, accepted, told, lost, reopened>>

-----------------------------------------------------------------------------
(* Commands.                                                               *)

\* Reset: the session forgets the transaction, not the account.
Ended(s) == [Free EXCEPT !.at = "open", !.port = s.port, !.user = s.user]

Auth(c) ==
    /\ conn[c].at = "open" /\ conn[c].port = "sub" /\ account /\ ~conn[c].user
    /\ conn' = [conn EXCEPT ![c].user = TRUE]
    /\ UNCHANGED <<slots, sys, pend, usage, accepted, told, lost, reopened>>

\* Submission does not look at the size of the queue.
Full(c) == Total >= MaxMessages \/ (conn[c].port = "mx" /\ Total >= MaxBytes)

\* On port 25 the domain is the recipient's, on port 587 the sender's, with its
\* sending limit.
Mail(c, d) ==
    /\ conn[c].at = "open" /\ ~draining /\ ~lowDisk /\ ~Full(c)
    /\ IF conn[c].port = "mx" THEN d = NoDomain ELSE conn[c].user /\ d \in Domain /\ dom[d].on
    /\ conn' = [conn EXCEPT ![c].at = "mail", ![c].dom = d,
                            ![c].limit = IF d = NoDomain THEN 0 ELSE dom[d].limit]
    /\ UNCHANGED <<slots, sys, pend, usage, accepted, told, lost, reopened>>

\* Mutant: there is room at the limit itself
RoomAtLimit(d) == pend[d]["mx"] + pend[d]["sub"] + pend[d]["dsn"] <= Cap

Room(d) == pend[d]["mx"] + pend[d]["sub"] + pend[d]["dsn"] < Cap

\* One recipient domain in a transaction, with room in its queue.
RcptInbound(c, d) ==
    /\ conn[c].port = "mx" /\ dom[d].on
    /\ conn[c].dom \in {NoDomain, d} /\ Room(d)

\* A look at the usage, which others may add to before DATA.
RcptOutbound(c, d) ==
    /\ conn[c].port = "sub" /\ conn[c].dom = d
    /\ usage[d][month] + conn[c].n + 1 <= conn[c].limit

Rcpt(c, d) ==
    /\ conn[c].at = "mail" /\ conn[c].n < MaxRcpts
    /\ RcptInbound(c, d) \/ RcptOutbound(c, d)
    /\ conn' = [conn EXCEPT ![c].dom = d, ![c].n = @ + 1]
    /\ UNCHANGED <<slots, sys, pend, usage, accepted, told, lost, reopened>>

\* DATA: the body is in the spool, or the transaction is over.
StoreBody(c) ==
    /\ conn[c].at = "mail" /\ conn[c].n > 0
    /\ \/ conn' = [conn EXCEPT ![c].at = "stored"]
       \/ Failures /\ conn' = [conn EXCEPT ![c] = Ended(@)]
    /\ UNCHANGED <<slots, sys, pend, usage, accepted, told, lost, reopened>>

\* One transaction (the DSN makes it immediate): read, compare, add.
ReserveSends(c) ==
    LET s == conn[c]
        before == usage[s.dom][month]
    IN /\ s.at = "stored" /\ s.port = "sub"
       /\ \/ /\ before + s.n <= s.limit
             /\ usage' = [usage EXCEPT ![s.dom][month] = @ + s.n]
             /\ conn' = [conn EXCEPT ![c].at = "reserved", ![c].month = month, ![c].before = before]
          \/ /\ before + s.n > s.limit \/ Failures
             /\ conn' = [conn EXCEPT ![c] = Ended(@)]
             /\ UNCHANGED usage
       /\ UNCHANGED <<slots, sys, pend, accepted, told, lost, reopened>>

Ready(c) == conn[c].at = (IF conn[c].port = "mx" THEN "stored" ELSE "reserved")

Enqueue(c) ==
    LET s == conn[c] IN
    /\ Ready(c)
    /\ pend' = [pend EXCEPT ![s.dom][s.port] = @ + 1]
    /\ IF s.port = "mx" THEN conn' = [conn EXCEPT ![c] = Ended(@)] /\ UNCHANGED accepted
       ELSE /\ conn' = [conn EXCEPT ![c].at = "queued"]
            /\ accepted' = [accepted EXCEPT ![s.dom][s.month] = @ + s.n]
    /\ UNCHANGED <<slots, sys, usage, told, lost, reopened>>

EnqueueFails(c) ==
    /\ Failures /\ Ready(c)
    /\ conn' = [conn EXCEPT ![c] = IF @.port = "mx" THEN Ended(@) ELSE [@ EXCEPT !.at = "failed"]]
    /\ UNCHANGED <<slots, sys, pend, usage, accepted, told, lost, reopened>>

\* Mutant: the sends are given back to the month it is by now
ReleaseThisMonth(c) ==
    LET s == conn[c] IN
    /\ s.at = "failed"
    /\ usage' = [usage EXCEPT ![s.dom][month] = IF @ > s.n THEN @ - s.n ELSE 0]
    /\ conn' = [conn EXCEPT ![c] = Ended(@)] /\ reopened' = reopened \union {s.dom}
    /\ UNCHANGED <<slots, sys, pend, accepted, told, lost>>

\* For the month the sends were charged to, whatever month it is by now.  An
\* error is only logged.
ReleaseSends(c) ==
    LET s == conn[c] IN
    /\ s.at = "failed"
    /\ \/ /\ usage' = [usage EXCEPT ![s.dom][s.month] = IF @ > s.n THEN @ - s.n ELSE 0]
          /\ reopened' = reopened \union {s.dom} /\ UNCHANGED lost
       \/ /\ Failures /\ lost' = [lost EXCEPT ![s.dom][s.month] = @ + s.n]
          /\ UNCHANGED <<usage, reopened>>
    /\ conn' = [conn EXCEPT ![c] = Ended(@)]
    /\ UNCHANGED <<slots, sys, pend, accepted, told>>

Reaches(s) == s.before < s.limit /\ s.before + s.n >= s.limit

\* The submission that uses up the limit records the event.
LimitReached(c) ==
    LET s == conn[c] IN
    /\ s.at = "queued"
    /\ told' = IF Reaches(s) THEN [told EXCEPT ![s.dom][s.month] = @ + 1] ELSE told
    /\ conn' = [conn EXCEPT ![c] = Ended(@)]
    /\ UNCHANGED <<slots, sys, pend, usage, accepted, lost, reopened>>

-----------------------------------------------------------------------------
(* The rest of the system, and its operators.                              *)

\* The message leaves the queue: delivered, failed or expired.
Deliver(d, k) ==
    /\ pend[d][k] > 0
    /\ pend' = [pend EXCEPT ![d][k] = @ - 1]
    /\ UNCHANGED <<conn, slots, sys, usage, accepted, told, lost, reopened>>

\* Recipients were refused: the node queues a bounce, which no limit holds back,
\* and the message stays when others are deferred.
Bounce(d, k) ==
    /\ k # "dsn" /\ pend[d][k] > 0 /\ bounces < MaxBounces
    /\ \E left \in 0..1 : pend' = [pend EXCEPT ![d][k] = @ - left, ![d]["dsn"] = @ + 1]
    /\ bounces' = bounces + 1
    /\ UNCHANGED <<draining, lowDisk, dom, account, month, crashes, conn, slots, usage, accepted, told, lost, reopened>>

SetDraining ==
    /\ "drain" \in Ops /\ draining' = ~draining
    /\ UNCHANGED <<lowDisk, dom, account, month, crashes, conn, lost, reopened>>

DiskChanges ==
    /\ "disk" \in Ops /\ lowDisk' = ~lowDisk
    /\ UNCHANGED <<draining, dom, account, month, crashes, conn, lost, reopened>>

UpdateDomain(d) ==
    /\ \/ /\ "limit" \in Ops /\ \E l \in Limits : dom' = [dom EXCEPT ![d].limit = l]
          /\ reopened' = reopened \union {d}
       \/ /\ "domain" \in Ops /\ dom' = [dom EXCEPT ![d].on = ~@]
          /\ UNCHANGED reopened
    /\ UNCHANGED <<draining, lowDisk, account, month, crashes, conn, lost>>

UpdateAccount ==
    /\ "account" \in Ops /\ account' = ~account
    /\ UNCHANGED <<draining, lowDisk, dom, month, crashes, conn, lost, reopened>>

NextMonth ==
    /\ month < MaxMonth /\ month' = month + 1
    /\ UNCHANGED <<draining, lowDisk, dom, account, crashes, conn, lost, reopened>>

\* The recipients a session has reserved sends for and that are not queued.
Reserving(c, d, k) == conn[c].at \in {"reserved", "failed"} /\ conn[c].dom = d /\ conn[c].month = k
Charged(d, k) == {r \in Conn \X (1..MaxRcpts) : Reserving(r[1], d, k) /\ r[2] <= conn[r[1]].n}

\* Those sends stay charged.  Drain mode is kept in memory only.
Crash ==
    /\ crashes < MaxCrashes /\ crashes' = crashes + 1
    /\ lost' = [d \in Domain |-> [k \in Month |-> lost[d][k] + Cardinality(Charged(d, k))]]
    /\ conn' = [c \in Conn |-> Free] /\ draining' = FALSE
    /\ UNCHANGED <<lowDisk, dom, account, month, reopened>>

Operators ==
    /\ \/ SetDraining \/ DiskChanges \/ UpdateAccount \/ NextMonth \/ Crash
       \/ \E d \in Domain : UpdateDomain(d)
    /\ slots' = IF crashes' # crashes THEN [p \in Ports |-> 0] ELSE slots
    /\ UNCHANGED <<pend, bounces, usage, accepted, told>>

\* What a session does once the client has sent the message.
DataSteps(c) ==
    ReserveSends(c) \/ Enqueue(c) \/ EnqueueFails(c) \/ ReleaseSends(c) \/ LimitReached(c)

Session(c) ==
    \/ \E p \in Ports : Accept(c, p)
    \/ NewSession(c) \/ Close(c) \/ CloseAgain(c) \/ Auth(c) \/ StoreBody(c)
    \/ \E d \in Domain \union {NoDomain} : Mail(c, d)
    \/ \E d \in Domain : Rcpt(c, d)
    \/ DataSteps(c)

AdmissionNext ==
    \/ \E c \in Conn : Session(c)
    \/ \E d \in Domain, k \in Kinds : Deliver(d, k) \/ Bounce(d, k)
    \/ Operators

AdmissionSpec == AdmissionInit /\ [][AdmissionNext]_vars

-----------------------------------------------------------------------------
(* Properties.                                                             *)

\* Types of the sessions and the counters.
SessionRecord == [at : Stages, port : Ports \union {"mx"}, user : BOOLEAN, dom : Domain \union {NoDomain},
                  n : 0..MaxRcpts, limit : Limits \union {0}, month : Month, before : Nat]
Counter == [Domain -> [Month -> Nat]]
AdmissionTypeOK ==
    /\ conn \in [Conn -> SessionRecord]
    /\ slots \in [Ports -> Nat]
    /\ draining \in BOOLEAN /\ lowDisk \in BOOLEAN /\ account \in BOOLEAN
    /\ dom \in [Domain -> [on : BOOLEAN, limit : Limits]]
    /\ pend \in [Domain -> [Kinds -> Nat]] /\ bounces \in 0..MaxBounces
    /\ usage \in Counter /\ accepted \in Counter /\ told \in Counter /\ lost \in Counter
    /\ month \in Month /\ crashes \in 0..MaxCrashes /\ reopened \in SUBSET Domain

\* netlimit: the tokens taken are the connections that are open, so that never
\* more than max_connections are, also when a connection is closed twice.
Busy(c) == conn[c].at \notin {"free", "closed"}
Taken(p) == {c \in Conn : Busy(c) /\ conn[c].port = p}
SlotsAreConnections == \A p \in Ports : slots[p] = Cardinality(Taken(p))

AllSlots == UNION {{p} \X (1..Slots[p]) : p \in Ports}

\* queue.max_messages is checked at MAIL and used up after DATA: what the
\* listeners let in may pass it, by less than the sessions that can be open.
QueueOvershootIsBounded == InQueue({"mx", "sub"}) < MaxMessages + Cardinality(AllSlots)

\* The same for the limit of a domain, checked at RCPT on port 25, which mail
\* submitted for the domain uses up too.
CapOvershootIsBounded ==
    "mx" \in Ports => \A d \in Domain : pend[d]["mx"] < Cap + Slots["mx"]

\* The limits that are checked at MAIL and RCPT and used up at the end of DATA are
\* passed by less than the sessions that can be open, for the queue and for a
\* domain; and the tokens that bound the sessions are the connections that are open
\* (smtpd.go, submission.go, Mail, Rcpt; netlimit.go).
OvershootIsBounded == SlotsAreConnections /\ QueueOvershootIsBounded /\ CapOvershootIsBounded

\* No interleaving of submissions gets more recipients accepted in a month than
\* the highest limit an administrator set, although RCPT only looks.
LimitHolds == \A d \in Domain, k \in Month : accepted[d][k] <= Max(Limits)

\* outbound_usage charges for what was queued, for what is about to be, and
\* beyond that only for what a crash or a failed release left behind, each in
\* the month it was charged to.
UsageIsAccounted ==
    \A d \in Domain, k \in Month :
        usage[d][k] = accepted[d][k] + Cardinality(Charged(d, k)) + lost[d][k]

\* The event that the limit is reached is recorded at most once a month, if the
\* limit stays and nothing was given back.
ToldOnce == \A d \in Domain, k \in Month : d \notin reopened => told[d][k] <= 1

\* No interleaving of submissions gets more recipients accepted in a month than the
\* limit allows; the counter is what was queued, what is about to be, and what a
\* crash or a failed release left behind; and the event that the limit is reached
\* is recorded once a month, if nothing was given back (ReserveSends, ReleaseSends;
\* submission.go, Data).
SendsAreAccounted == LimitHolds /\ UsageIsAccounted /\ ToldOnce

\* A node that stays in drain mode empties its queue: sessions that were in a
\* transaction finish it, and none begins another.
DrainsToZero == <>[]draining => <>[](Total = 0)

-----------------------------------------------------------------------------
(* Why they hold: the inductive invariant of the safety properties.        *)

\* What is known of a session at each stage.
Fits(s) ==
    /\ s.at \notin {"free", "closed"} => s.port \in Ports
    /\ s.at \in {"reserved", "failed", "queued"} => s.port = "sub"
    /\ s.at \in {"free", "accepted", "open"} => s.n = 0
    /\ s.at \in {"stored", "reserved", "failed", "queued"} => s.n > 0
    /\ s.at \in {"mail", "stored"} /\ s.n > 0 => s.dom \in Domain
    /\ s.at \in {"mail", "stored", "reserved", "failed", "queued"} /\ s.port = "sub" =>
          s.dom \in Domain /\ s.limit \in Limits /\ (s.dom \notin reopened => s.limit = dom[s.dom].limit)
StageInv == \A c \in Conn : Fits(conn[c])

SlotInv == SlotsAreConnections /\ \A p \in Ports : slots[p] <= Slots[p]

\* Past MAIL: each of these may still queue one message.
Underway == {c \in Conn : conn[c].at \in {"mail", "stored", "reserved"}}
QueueInv == InQueue({"mx", "sub"}) + Cardinality(Underway) < MaxMessages + Cardinality(AllSlots)

\* Past RCPT on port 25.
Arriving(d) == {c \in Conn : conn[c].at \in {"mail", "stored"} /\ conn[c].port = "mx" /\ conn[c].dom = d}
CapInv == "mx" \in Ports => \A d \in Domain : pend[d]["mx"] + Cardinality(Arriving(d)) < Cap + Slots["mx"]

UsageInv == UsageIsAccounted /\ \A d \in Domain, k \in Month : usage[d][k] <= Max(Limits)

\* Who is about to tell that the limit is reached: nobody after it was told, at
\* most one before, and not while the usage is below the limit.
Tells(c, d, k) == /\ conn[c].at \in {"reserved", "queued"} /\ conn[c].dom = d /\ conn[c].month = k
                  /\ Reaches(conn[c])
TellInv ==
    \A d \in Domain, k \in Month : d \notin reopened =>
        /\ told[d][k] <= 1
        /\ told[d][k] = 1 => usage[d][k] >= dom[d].limit
        /\ \A c \in Conn : Tells(c, d, k) => /\ usage[d][k] >= dom[d].limit /\ told[d][k] = 0
                                          /\ \A e \in Conn : Tells(e, d, k) => e = c

AdmissionInv == AdmissionTypeOK /\ StageInv /\ SlotInv /\ QueueInv /\ CapInv /\ UsageInv /\ TellInv
=============================================================================
