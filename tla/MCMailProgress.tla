---------------------------- MODULE MCMailProgress ----------------------------
(***************************************************************************)
(* What must eventually happen to mail: the queue, a node that is drained, *)
(* the checks of a message, lookups on block lists, and filters that are   *)
(* changed.  The five share no variable and each property is about one of  *)
(* them, so that it is enough to follow the behaviours in which one of     *)
(* them moves: focus says which.  Only that one has to be fair.            *)
(***************************************************************************)
EXTENDS Integers, Sequences, FiniteSets, TLC

VARIABLES focus,
          queue, spool, domain, home, rcpts, writtenOff, faults, session, quarantined, loop, ctx, batch, job,
          outcome, held, parts, dsn, reached, twice, refused, told, shaken, deleting, dropping,
          requests, stops,                                                             \* Spool
          conn, slots, draining, lowDisk, dom, account, pend, bounces, usage, month, crashes,
          accepted, warned, lost, reopened,                                            \* Admission
          cfg, says, at, live, body, spf, verdict, streamed, scan, hold, row, reply,   \* Inspection
          call, address, answer, lookup, deadline, ch, closed, heard, details, result, \* Dnsbl
          table, matches, lastId, rules, load, req, walk, tables, inForce, changes, restarts, fails \* Filters

queueVars == <<queue, spool, domain, home, rcpts, writtenOff, faults, session, quarantined, loop, ctx, batch, job,
               outcome, held, parts, dsn, reached, twice, refused, told, shaken, deleting, dropping,
               requests, stops>>
admissionVars == <<conn, slots, draining, lowDisk, dom, account, pend, bounces, usage, month, crashes,
                   accepted, warned, lost, reopened>>
inspectionVars == <<cfg, says, at, live, body, spf, verdict, streamed, scan, hold, row, reply>>
listVars == <<call, address, answer, lookup, deadline, ch, closed, heard, details, result>>
filterVars == <<table, matches, lastId, rules, load, req, walk, tables, inForce, changes, restarts, fails>>
vars == <<focus, queueVars, admissionVars, inspectionVars, listVars, filterVars>>

-----------------------------------------------------------------------------
\* A message with a crash and an error of the database; one with a bounce and
\* neither.
Queue == INSTANCE Spool WITH
    hold <- quarantined, InMsg <- {"m1"}, OutMsg <- {}, DsnMsg <- {"b1"}, Rcpt <- {"r1"}, Domain <- {"d1"},
    MaxAttempts <- 1, MaxFaults <- 1, Workers <- 1, ClaimLimit <- 1, OutboundEnabled <- FALSE, Bounces <- FALSE,
    Authenticated <- {}, MaxRequests <- 0, ListLimit <- 1, MaxStops <- 1

Bounced == INSTANCE Spool WITH
    hold <- quarantined, InMsg <- {"m1"}, OutMsg <- {}, DsnMsg <- {"b1"}, Rcpt <- {"r1"}, Domain <- {"d1"},
    MaxAttempts <- 1, MaxFaults <- 0, Workers <- 1, ClaimLimit <- 1, OutboundEnabled <- FALSE, Bounces <- TRUE,
    Authenticated <- {"m1"}, MaxRequests <- 0, ListLimit <- 1, MaxStops <- 0

\* A node that is drained while sessions on both ports are in a transaction.
Drain == INSTANCE Admission WITH
    told <- warned, Conn <- {"c1", "c2"}, Ports <- {"mx", "sub"}, Slots <- [p \in {"mx", "sub"} |-> 1],
    Domain <- {"d1"}, NoDomain <- "none", MaxMessages <- 1, MaxBytes <- 9, Cap <- 1, Limits <- {9},
    MaxRcpts <- 1, MaxMonth <- 1, MaxBounces <- 0, MaxCrashes <- 0, Failures <- FALSE, Ops <- {"drain"}

\* Scanners that answer, do not, or break off, and every failure of the database.
RspamdDown == [down |-> TRUE, action |-> "none", skipped |-> FALSE]
Reject == [down |-> FALSE, action |-> "reject", skipped |-> FALSE]
Checks == INSTANCE Inspection WITH
    Filter <- {"none"}, Rspamd <- {RspamdDown, Reject}, Clamd <- {"ok", "found", "closes", "hangs"}, Chunks <- 1,
    StoreFails <- {TRUE, FALSE}

\* The checks that are on, and what is done about what they find.
ChecksConfig ==
    {c \in Checks!Config : c.spam /\ c.spamReject /\ ~c.spamBig /\ ~c.clamBig}

Lists == INSTANCE Dnsbl WITH
    ctx <- deadline, Zone <- {"z1", "z2"}, Answer <- {"listed", "resolver", "notfound", "error", "silent"}

\* Two administrators whose loads overtake each other, one of which fails.
Rules == INSTANCE Filters WITH
    Id <- {1, 2}, Pattern <- {{}}, Action <- {"reject"}, Priority <- {1}, Admin <- {"a1", "a2"}, Session <- {},
    Sweep <- "sweep", MaxChanges <- 2, MaxRestarts <- 0, MaxFails <- 1

ASSUME ProgressAssumption ==
    Drain!AdmissionBounds /\ Checks!InspectionBounds /\ Rules!FiltersBounds

-----------------------------------------------------------------------------
\* One initial state of the components that have several, while others move.
ChecksAtRest ==
    /\ cfg = (CHOOSE c \in Checks!Config : TRUE)
    /\ says = [filter |-> "none", rspamd |-> RspamdDown, clamd |-> "ok", auth |-> "nobody"]
ListsAtRest == call = "check" /\ address = "public" /\ answer = [z \in {"z1", "z2"} |-> "notfound"]

Init ==
    /\ focus \in {"queue", "bounced", "drain", "checks", "lists", "rules"}
    /\ IF focus = "bounced" THEN Bounced!Init ELSE Queue!Init
    /\ Drain!AdmissionInit
    /\ IF focus = "checks" THEN cfg \in ChecksConfig ELSE ChecksAtRest
    /\ Checks!InspectionInit
    /\ focus # "lists" => ListsAtRest
    /\ Lists!DnsblInit
    /\ Rules!FiltersInit

Next ==
    \/ /\ focus = "queue" /\ Queue!Next
       /\ UNCHANGED <<focus, admissionVars, inspectionVars, listVars, filterVars>>
    \/ /\ focus = "bounced" /\ Bounced!Next
       /\ UNCHANGED <<focus, admissionVars, inspectionVars, listVars, filterVars>>
    \/ /\ focus = "drain" /\ Drain!AdmissionNext
       /\ UNCHANGED <<focus, queueVars, inspectionVars, listVars, filterVars>>
    \/ /\ focus = "checks" /\ Checks!InspectionNext
       /\ UNCHANGED <<focus, queueVars, admissionVars, listVars, filterVars>>
    \/ /\ focus = "lists" /\ Lists!DnsblNext
       /\ UNCHANGED <<focus, queueVars, admissionVars, inspectionVars, filterVars>>
    \/ /\ focus = "rules" /\ Rules!FiltersNext
       /\ UNCHANGED <<focus, queueVars, admissionVars, inspectionVars, listVars>>

\* The goroutines of the delivery loop run, the tickers it selects from are not
\* passed over for ever, and retentions run out (sender.go, Run).
QueueFairness ==
    /\ WF_queueVars(focus = "queue" /\ Queue!Goes) /\ WF_queueVars(focus = "queue" /\ Queue!Ends)
    /\ SF_queueVars(focus = "queue" /\ Queue!Wakes) /\ SF_queueVars(focus = "queue" /\ Queue!Maintains)
    /\ SF_queueVars(focus = "queue" /\ Queue!Releases)
    /\ WF_queueVars(focus = "queue" /\ Queue!Works("m1"))
    /\ WF_queueVars(focus = "queue" /\ Queue!RetentionElapses("m1"))

BouncedFairness ==
    /\ WF_queueVars(focus = "bounced" /\ Bounced!Goes)
    /\ SF_queueVars(focus = "bounced" /\ Bounced!Wakes) /\ SF_queueVars(focus = "bounced" /\ Bounced!Maintains)
    /\ SF_queueVars(focus = "bounced" /\ Bounced!Releases)
    /\ \A m \in {"m1", "b1"} : /\ WF_queueVars(focus = "bounced" /\ Bounced!Works(m))
                               /\ WF_queueVars(focus = "bounced" /\ Bounced!RetentionElapses(m))

\* A server finishes what it does for a message, and the delivery loop gets every
\* message out of the queue; scanners answer or time out, and so do name servers;
\* the filters are loaded again by a ticker.
ListenerFairness ==
    /\ \A c \in {"c1", "c2"} : WF_admissionVars(focus = "drain" /\ Drain!DataSteps(c))
    /\ \A k \in {"mx", "sub", "dsn"} : WF_admissionVars(focus = "drain" /\ Drain!Deliver("d1", k))
    /\ WF_inspectionVars(focus = "checks" /\ Checks!InspectionNext) /\ WF_inspectionVars(focus = "checks" /\ Checks!SPF)
    /\ WF_listVars(focus = "lists" /\ Lists!Decides) /\ WF_listVars(focus = "lists" /\ Lists!CloseChannel)
    /\ WF_listVars(focus = "lists" /\ Lists!Timeout)
    /\ \A z \in {"z1", "z2"} : WF_listVars(focus = "lists" /\ Lists!LooksUp(z))
    /\ WF_filterVars(focus = "rules" /\ Rules!Tick)
    /\ \A l \in {"a1", "a2", "sweep"} : WF_filterVars(focus = "rules" /\ Rules!Loads(l))

Spec == Init /\ [][Next]_vars /\ QueueFairness /\ BouncedFairness /\ ListenerFairness

-----------------------------------------------------------------------------
(* Properties: those of the modules, where they are discussed.             *)

\* Mail that nobody holds in quarantine does not stay in the queue for ever
\* (sender.go, Run, maintain), and a node that stays in drain mode empties its
\* queue (smtpd.go, submission.go, draining).
QueueDrains ==
    /\ focus = "queue" => Queue!QueueDrains
    /\ focus = "bounced" => Bounced!QueueDrains
    /\ focus = "drain" => Drain!DrainsToZero

\* Every transaction is answered, every check of an address returns, and neither
\* leaves a goroutine behind (smtpd.go, Data; dnsbl.go, Check).
TransactionsEnd ==
    /\ focus = "checks" => Checks!TransactionsEnd
    /\ focus = "lists" => Lists!LookupsEnd

\* The filters in force settle on the table (filter.go, Load, Run).
FiltersSettle == focus = "rules" => Rules!FiltersSettle
===============================================================================
