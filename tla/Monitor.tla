------------------------------- MODULE Monitor -------------------------------
(***************************************************************************)
(* The health checker and the alerter in one process: what a primary does, *)
(* what the status table says of it and what the operator is told, across  *)
(* restarts.                                                               *)
(***************************************************************************)
EXTENDS Health

CONSTANTS MaxStops,  \* bound: ends of the process
          MaxMail,   \* bound: alerts about mail
          Passes     \* bound: whether the delivery loop takes part in the run

MonitorBounds == AlerterBounds /\ HealthBounds /\ MaxStops \in Nat /\ MaxMail \in Nat /\ Passes \in BOOLEAN

VARIABLES
  phase,  \* the process: resuming, running, told to stop, or not there
  todo,   \* Resume: domains it has not come to
  stops, mails

vars == <<alertVars, healthVars, phase, todo, stops, mails>>

procVars == <<phase, todo, stops, mails>>

TypeOK ==
  /\ AlerterTypeOK /\ HealthTypeOK
  /\ phase \in {"resume", "run", "stopping", "dead"}
  /\ todo \subseteq Domain
  /\ stops \in 0..MaxStops /\ mails \in 0..MaxMail

Init ==
  /\ AlerterInit /\ HealthInit
  /\ phase = "resume" /\ todo = Domain
  /\ stops = 0 /\ mails = 0

-----------------------------------------------------------------------------
(* The process.                                                            *)

\* Down, by what Resume reads: enabled, checked and not up.  Without an alerter
\* nothing is resumed.
Down(d) == Enabled /\ dom[d].exists /\ dom[d].enabled /\ status[d].checked /\ ~status[d].up

\* Resume, one domain of the list: the grace period runs from when the outage
\* began and may be over already
ResumeDomain(d) ==
  /\ phase = "resume" /\ d \in todo
  /\ todo' = todo \ {d}
  /\ \/ Down(d) /\ PrimaryDownSince(d)
     \/ /\ Down(d) /\ Waiting(d) = {}
        /\ \E t \in Timer : Unused(t) /\ FireNow(d, t)
        /\ UNCHANGED <<fired, lastSent, emit, outbox, heard, unheard>>
     \/ ~Down(d) /\ UNCHANGED alertVars
  /\ UNCHANGED <<healthVars, phase, stops, mails>>

\* Resume could not read the list of domains
ResumeFails ==
  /\ phase = "resume" /\ todo = Domain /\ Fault
  /\ todo' = {}
  /\ UNCHANGED <<alertVars, answers, dom, status, chk, wake, sender, due, turns, edits,
                 phase, stops, mails>>

\* The goroutines are started once Resume has returned
Run ==
  /\ phase = "resume" /\ todo = {}
  /\ phase' = "run"
  /\ UNCHANGED <<alertVars, healthVars, todo, stops, mails>>

\* The context is canceled: no round begins, statements fail, and Run of the
\* alerter stops its timers and leaves its channel alone
Signal ==
  /\ phase = "run" /\ stops < MaxStops
  /\ phase' = "stopping"
  /\ StopTimers
  /\ UNCHANGED <<healthVars, todo, stops, mails>>

\* The process ends, at the end of a shutdown or at any other point, and all
\* that is not in the database is gone
Stop ==
  /\ phase # "dead" /\ stops < MaxStops
  /\ phase' = "dead" /\ stops' = stops + 1 /\ todo' = {}
  /\ Fresh /\ FreshHealth
  /\ UNCHANGED mails

Start ==
  /\ phase = "dead"
  /\ phase' = "resume" /\ todo' = Domain
  /\ UNCHANGED <<alertVars, healthVars, stops, mails>>

-----------------------------------------------------------------------------
(* Next.                                                                   *)

Checker(p) ==
  \/ Probe(p) /\ UNCHANGED alertVars
  \/ \E d \in Domain : Apply(p, d) /\ UNCHANGED alertVars
  \/ \E d \in Domain : ApplyFails(p, d) /\ UNCHANGED alertVars
  \/ RoundDone(p) /\ UNCHANGED alertVars
  \/ Pull(p) /\ UNCHANGED alertVars
  \/ Wake(p) /\ UNCHANGED alertVars

Loop == PassBegins \/ PassClaims \/ PassEnds

Admin ==
  \/ \E d \in Domain, p \in Primary, e \in BOOLEAN : UpdateDomain(d, p, e)
  \/ \E d \in Domain : DeleteDomain(d)
  \/ \E d \in Domain, p \in Primary : CreateDomain(d, p)

NotifyOther(c, d) ==
  /\ phase = "run" /\ mails < MaxMail
  /\ NotifyMail(c, d)
  /\ mails' = mails + 1
  /\ UNCHANGED <<healthVars, phase, todo, stops>>

Next ==
  \/ \E d \in Domain : ResumeDomain(d)
  \/ ResumeFails \/ Run \/ Signal \/ Stop \/ Start
  \/ /\ phase = "run"
     /\ \/ CheckAll /\ UNCHANGED alertVars
        \/ \E p \in Primary : Checker(p)
        \/ Passes /\ Loop /\ UNCHANGED alertVars
     /\ UNCHANGED procVars
  \/ /\ phase \in {"run", "stopping"}
     /\ \E p \in Primary : Notify(p)
     /\ UNCHANGED procVars
  \/ /\ phase # "dead"
     /\ \/ \E t \in Timer : Elapse(t) \/ Fire(t)
        \/ \E a \in Timer \cup Caller : ShouldSend(a) \/ Enqueue(a)
        \/ \E k \in lastSent : IntervalElapses(k)
     /\ UNCHANGED <<healthVars, procVars>>
  \/ phase = "run" /\ Deliver /\ UNCHANGED <<healthVars, procVars>>
  \/ \E c \in Caller \ Primary, d \in Domain : NotifyOther(c, d)
  \/ /\ \/ \E p \in Primary : Turn(p)
        \/ phase = "run" /\ Admin
     /\ UNCHANGED <<alertVars, procVars>>

Spec == Init /\ [][Next]_vars

\* What is fair: the goroutines run, timers fire, the checker ticks, the alerter's
\* channel is emptied, and a dead process is started again
Restarts == Run \/ Start \/ (phase = "stopping" /\ Stop)
Ticks == phase = "run" /\ CheckAll /\ UNCHANGED alertVars /\ UNCHANGED procVars
Checks(p) == phase = "run" /\ (Checker(p) \/ Notify(p)) /\ UNCHANGED procVars
RunsOut(t) == phase = "run" /\ (Elapse(t) \/ Fire(t)) /\ UNCHANGED <<healthVars, procVars>>
Emits(a) == phase = "run" /\ (ShouldSend(a) \/ Enqueue(a)) /\ UNCHANGED <<healthVars, procVars>>
Sends == phase = "run" /\ Deliver /\ UNCHANGED <<healthVars, procVars>>

-----------------------------------------------------------------------------
(* Properties.                                                             *)

Last(s) == s[Len(s)]

\* What the operator was last told of the primary of d, "" if nothing
LastHeard(d) == IF heard[d] = << >> THEN "" ELSE Last(heard[d])

\* "Primary down for longer than alerts.primary_down_after -> alert" (SPEC.md):
\* a primary that stays down is announced, across restarts, whatever the timers,
\* the throttle and earlier outages have left behind.
DownIsAlerted ==
  \A d \in Domain : Down(d) ~> LastHeard(d) = "primary_down" \/ ~Down(d)

\* Whatever stale probes, failed statements, restarts and moved primaries have
\* left in the counters, the status of an enabled domain comes to agree with its
\* primary and stays so, once primaries and domains change no more (the bounds
\* MaxTurns and MaxEdits see to that).
StatusAgrees ==
  \A d \in Domain : dom[d].exists /\ dom[d].enabled => status[d].up = (dom[d].host \in answers)

\* Timers, alerts, probes and rows have their types, and the wake-up is not lost:
\* while mail of a primary that is up was pulled forward and not claimed, the
\* delivery loop is in a pass, a message waits in the channel, or the checker is on
\* its way to send one (health.go, apply; sender.go, Run).
NoLostWakeup ==
  /\ TypeOK
  /\ Claimable # {} =>
       \/ sender = "pass" \/ wake > 0
       \/ \E p \in Primary : chk[p].at \in {"notify", "pull", "wake"}

\* How many alerts of a kind about d were delivered, wait in the channel or are
\* on their way to it
Count(kind, d) ==
  Cardinality({i \in 1..Len(heard[d]) : heard[d][i] = kind})
  + Cardinality({i \in 1..Len(outbox) : outbox[i] = <<kind, d>>})
  + Cardinality({a \in Timer \cup Caller : emit[a].at # "idle" /\ emit[a].key = <<kind, d>>})

\* "plus the recovery when a primary comes back, but only if the outage was
\* announced" (CHANGELOG.md), as far as the code keeps it: every recovery that is
\* announced, now or soon, has an outage of its own that is announced, now or
\* soon, unless an alert about an outage of that domain was throttled, found no
\* room in the channel or was lost with the process (alert.go, primaryUp, emit).
RecoveriesHaveOutages ==
  \A d \in Domain \ unheard : Count("primary_up", d) <= Count("primary_down", d)

\* An outage is announced once, however often its probes fail, its timer, the
\* throttle and the recovery overtake each other, and mail is alerted about in
\* between (health.go, apply; alert.go, primaryDownSince, shouldSend).  A domain has
\* an outage at the beginning and one for every two times that a primary turns, or
\* the domain is moved to another, deleted or made; and a process that is started
\* again announces the outage it finds.
OutagesAreToldOnce ==
  \A d \in Domain : Count("primary_down", d) <= 1 + stops + (turns + edits) \div 2

\* What the operator hears is so, however timers, recoveries, the throttle and
\* restarts overtake each other (alert.go, primaryDownSince, primaryUp; health.go,
\* apply).
AlertsAreTrue == RecoveriesHaveOutages /\ OutagesAreToldOnce

=============================================================================
