------------------------------ MODULE MCMonitor ------------------------------
(***************************************************************************)
(* The health checker, the alerter and the delivery loop they wake, in     *)
(* three instances: with the constants of the configuration, one domain    *)
(* whose outages are announced; one whose alerts are throttled while it is *)
(* edited, moved, deleted and made again; and two domains, without an      *)
(* alerter, whose primaries come back while the loop passes.               *)
(***************************************************************************)
EXTENDS Monitor

VARIABLE focus

Throttle == INSTANCE Monitor WITH
    MinInterval <- 1, QueueDepth <- 1, FailureThreshold <- 1, SuccessThreshold <- 1,
    MaxTurns <- 2, MaxEdits <- 2, MaxFaults <- 0, MaxStops <- 0, MaxMail <- 0

Wakeup == INSTANCE Monitor WITH
    Enabled <- FALSE, MaxTurns <- 2, MaxEdits <- 1, MaxStops <- 0, Passes <- TRUE

ASSUME MonitorAssumption == MonitorBounds /\ Throttle!MonitorBounds /\ Wakeup!MonitorBounds

\* There is one domain, and the second primary answers and goes on to.
Alone ==
    /\ dom["d1"] = [exists |-> TRUE, enabled |-> TRUE, host |-> "p1"]
    /\ dom["d2"] = [exists |-> FALSE, enabled |-> FALSE, host |-> "p2"]
    /\ "p2" \in answers
StaysAlone == dom'["d2"] = dom["d2"] /\ "p2" \in answers'

\* There are two, of which one is on the first primary: the primaries are alike.
Both == (\A d \in Domain : dom[d].exists /\ dom[d].enabled) /\ dom["d1"].host = "p1"

MCInit ==
    /\ focus \in {"recovery", "throttle", "wakeup"}
    /\ \/ focus = "recovery" /\ Init /\ Alone
       \/ focus = "throttle" /\ Throttle!Init /\ Alone
       \/ focus = "wakeup" /\ Wakeup!Init /\ Both

MCNext ==
    \/ focus = "recovery" /\ Next /\ edits' = 0 /\ faults' = 0 /\ StaysAlone /\ UNCHANGED focus
    \/ focus = "throttle" /\ Throttle!Next /\ StaysAlone /\ UNCHANGED focus
    \/ focus = "wakeup" /\ Wakeup!Next /\ UNCHANGED focus

MCSpec == MCInit /\ [][MCNext]_<<focus, vars>>
==============================================================================
