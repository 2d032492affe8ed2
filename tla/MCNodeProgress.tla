---------------------------- MODULE MCNodeProgress ----------------------------
(***************************************************************************)
(* What must eventually happen on and between nodes: the deliveries of     *)
(* webhooks, the probes of primaries and the alerts about them, the        *)
(* synchronisation of configurations, and the end of live streams.  The    *)
(* four share no variable and each property is about one of them, so that  *)
(* it is enough to follow the behaviours in which one of them moves: focus *)
(* says which.  Only that one has to be fair.                              *)
(***************************************************************************)
EXTENDS Integers, Sequences, FiniteSets, TLC

CONSTANTS Omitted, Nothing  \* a key that a document does not have, and no row

VARIABLES focus,
          types, floor, hooks, saved, deliveries, inserted, tail, cursor, read, pairs, work, job, ctx, requests,
          errors, ends, first, touched, overrun, again, posts, unsure,                  \* Webhooks
          timer, grace, fired, lastSent, emit, outbox, heard, unheard, answers, dom, status, chk, wake, sender, due,
          turns, changes, faults, phase, todo, stops, mails,                            \* Monitor
          conf, rows, role, round, imp, led, edits, lost,                               \* Cluster
          at, chan, clients, closed, server, events, from, got, missed, panic           \* LiveEvents

hookVars == <<types, floor, hooks, saved, deliveries, inserted, tail, cursor, read, pairs, work, job, ctx, requests,
              errors, ends, first, touched, overrun, again, posts, unsure>>
primaryVars == <<timer, grace, fired, lastSent, emit, outbox, heard, unheard, answers, dom, status, chk, wake, sender, due,
                 turns, changes, faults, phase, todo, stops, mails>>
clusterVars == <<conf, rows, role, round, imp, led, edits, lost>>
liveVars == <<at, chan, clients, closed, server, events, from, got, missed, panic>>
vars == <<focus, hookVars, primaryVars, clusterVars, liveVars>>

-----------------------------------------------------------------------------
\* One event and a row it may be inserted in twice, over a restart.
Hooks == INSTANCE Webhooks WITH
    outbox <- deliveries, rows <- inserted, todo <- pairs, faults <- errors, stops <- ends,
    Hook <- {"h1"}, EventType <- {"t1"}, Batch <- 1, DeliverBatch <- 1, Workers <- 1, MaxAttempts <- 2, Keep <- 1,
    MaxEvents <- 1, MaxRows <- 2, MaxRequests <- 0, MaxFaults <- 0, MaxStops <- 1

\* One primary that goes away and comes back, with an alerter and a restart.
Alerts == INSTANCE Monitor WITH
    edits <- changes, Domain <- {"d1"}, Timer <- {"t1", "t2"}, Caller <- {"p1"}, Enabled <- TRUE, MinInterval <- 0,
    QueueDepth <- 6, Primary <- {"p1"}, FailureThreshold <- 1, SuccessThreshold <- 1, WakeDepth <- 1,
    MaxTurns <- 3, MaxEdits <- 0, MaxFaults <- 0, MaxStops <- 1, Passes <- FALSE, MaxMail <- 0

\* Two domains on two primaries, one of which changes in the middle of a round.
Probes == INSTANCE Monitor WITH
    edits <- changes, Domain <- {"d1", "d2"}, Timer <- {}, Caller <- {"p1", "p2"}, Enabled <- FALSE, MinInterval <- 1,
    QueueDepth <- 3, Primary <- {"p1", "p2"}, FailureThreshold <- 1, SuccessThreshold <- 2, WakeDepth <- 1,
    MaxTurns <- 1, MaxEdits <- 1, MaxFaults <- 0, MaxStops <- 0, Passes <- FALSE, MaxMail <- 0

\* A primary and a follower that begin with the same domain.
Two == {"a", "b"}
AllPeers == [n \in Two |-> Two \ {n}]
StartSame == {[n \in Two |-> [dom |-> ("d1" :> [host |-> "a", limit |-> 1, rcpt |-> {}]), acct |-> <<>>]]}
Nodes == INSTANCE Cluster WITH
    faults <- lost, Node <- Two, Domain <- {"d1"}, Account <- {}, Allowed <- <<>>, Address <- {}, Peers <- AllPeers,
    Leaders <- {{"a"}}, Start <- StartSame, Writers <- Two,
    Ops <- {"domain", "limit"}, MaxEdits <- 2, MaxFaults <- 1

Live == INSTANCE LiveEvents WITH Stream <- {"s1", "s2"}, Buffer <- 1, MaxEvents <- 2

ASSUME NodeProgressAssumption ==
    Alerts!MonitorBounds /\ Probes!MonitorBounds /\ Nodes!ClusterBounds /\ Live!LiveBounds

-----------------------------------------------------------------------------
\* One initial state of the components that have several, while others move; the
\* two primaries are alike.
HooksAtRest == hooks["h1"].exists /\ hooks["h1"].events = {}
PrimariesAtRest ==
    /\ \A d \in DOMAIN dom : dom[d].exists /\ dom[d].enabled
    /\ IF focus = "probes" THEN dom["d1"].host = "p1" ELSE focus = "alerts" \/ answers = {}

Init ==
    /\ focus \in {"hooks", "alerts", "probes", "nodes", "live"}
    /\ Hooks!Init /\ (focus # "hooks" => HooksAtRest)
    /\ IF focus = "probes" THEN Probes!Init ELSE Alerts!Init
    /\ PrimariesAtRest
    /\ Nodes!ClusterInit
    /\ Live!LiveInit

Next ==
    \/ /\ focus = "hooks" /\ Hooks!Next
       /\ UNCHANGED <<focus, primaryVars, clusterVars, liveVars>>
    \/ /\ focus = "alerts" /\ Alerts!Next
       /\ UNCHANGED <<focus, hookVars, clusterVars, liveVars>>
    \/ /\ focus = "probes" /\ Probes!Next
       /\ UNCHANGED <<focus, hookVars, clusterVars, liveVars>>
    \/ /\ focus = "nodes" /\ Nodes!ClusterNext
       /\ UNCHANGED <<focus, hookVars, primaryVars, liveVars>>
    \/ /\ focus = "live" /\ Live!LiveNext
       /\ UNCHANGED <<focus, hookVars, primaryVars, clusterVars>>

\* The goroutines of the webhooks run, backoffs run out, and a process that ends
\* is started again (webhook.go, Run).
HooksFairness ==
    /\ WF_hookVars(focus = "hooks" /\ Hooks!Tailer) /\ WF_hookVars(focus = "hooks" /\ Hooks!Delivers)
    /\ WF_hookVars(focus = "hooks" /\ Hooks!Restarts)
    /\ \A r \in 1..2 : /\ WF_hookVars(focus = "hooks" /\ Hooks!Worker(r))
                       /\ WF_hookVars(focus = "hooks" /\ Hooks!BackoffElapses(r))

\* The ticker of the checker fires, its goroutines run, timers run out, and the
\* alerter's goroutine empties its channel (health.go, alert.go, Run).
AlertsFairness ==
    /\ WF_primaryVars(focus = "alerts" /\ Alerts!Restarts) /\ WF_primaryVars(focus = "alerts" /\ Alerts!Ticks)
    /\ WF_primaryVars(focus = "alerts" /\ Alerts!Checks("p1")) /\ WF_primaryVars(focus = "alerts" /\ Alerts!Sends)
    /\ WF_primaryVars(focus = "alerts" /\ Alerts!ResumeDomain("d1"))
    /\ \A t \in {"t1", "t2"} : WF_primaryVars(focus = "alerts" /\ Alerts!RunsOut(t))
    /\ \A c \in {"t1", "t2", "p1"} : WF_primaryVars(focus = "alerts" /\ Alerts!Emits(c))

ProbesFairness ==
    /\ WF_primaryVars(focus = "probes" /\ Probes!Restarts) /\ WF_primaryVars(focus = "probes" /\ Probes!Ticks)
    /\ \A p \in {"p1", "p2"} : WF_primaryVars(focus = "probes" /\ Probes!Checks(p))
    /\ \A d \in {"d1", "d2"} : WF_primaryVars(focus = "probes" /\ Probes!ResumeDomain(d))

\* Every node has its rounds, and handlers return (cluster.go, Run; hub.go).
NodesFairness == \A n \in Two : /\ WF_clusterVars(focus = "nodes" /\ Nodes!Round(n))
                                /\ WF_clusterVars(focus = "nodes" /\ Nodes!Upload(n))
LiveFairness ==
    /\ WF_liveVars(focus = "live" /\ Live!Shutdown) /\ WF_liveVars(focus = "live" /\ Live!Close)
    /\ \A s \in {"s1", "s2"} : WF_liveVars(focus = "live" /\ Live!Serve(s))

Spec == /\ Init /\ [][Next]_vars
        /\ HooksFairness /\ AlertsFairness /\ ProbesFairness /\ NodesFairness /\ LiveFairness

-----------------------------------------------------------------------------
(* Properties: those of the modules, where they are discussed.             *)

\* The tailer gets past every event, unless it could not establish where to start,
\* and every delivery is settled: it succeeds, or it is given up (webhook.go, tail,
\* drain, attempt).
EventsArrive == focus = "hooks" => Hooks!TailerCatchesUp /\ Hooks!DeliveriesSettle

\* An outage that lasts is announced (alert.go, primaryDownSince, Resume).
DownIsAlerted == focus = "alerts" => Alerts!DownIsAlerted

\* The status of a domain comes to agree with its primary (health.go, apply).
StatusConverges == <>[](focus = "probes" => Probes!StatusAgrees)

\* Followers come to have the settings of the primary, and what nodes think of each
\* other's configuration becomes true (cluster.go, syncConfig, round).
Converges == focus = "nodes" => Nodes!Converges /\ Nodes!DriftIsTruthful

\* When the server ends, every live stream does (hub.go, Close).
StreamsEnd == focus = "live" => Live!StreamsEnd
===============================================================================
