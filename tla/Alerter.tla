------------------------------- MODULE Alerter -------------------------------
(***************************************************************************)
(* internal/alert: what is told to the operator.  An outage is announced   *)
(* when a grace timer of its domain fires, a recovery when the outage was  *)
(* announced; every alert passes a throttle per key and a bounded channel  *)
(* that one goroutine empties into the webhook and the mailbox.            *)
(*                                                                         *)
(* The mutex a.mu is taken and released more than once on the way of an    *)
(* alert, so the steps between are actions of their own: a timer that has  *)
(* fired and waits for the mutex, the throttle, and the send on the        *)
(* channel.  A timer is an object that outlives its entry in the map       *)
(* a.grace.  Times are not kept: a key is in lastSent while min_interval   *)
(* has not passed since it was sent.                                       *)
(***************************************************************************)
EXTENDS Naturals, Sequences, FiniteSets

CONSTANTS Domain,      \* domain names
          Timer,       \* bound: timers of time.AfterFunc that exist at once
          Caller,      \* goroutines that call Notify
          Enabled,     \* alerts.enabled, and a sink is configured
          MinInterval, \* alerts.min_interval, 0 or not
          QueueDepth   \* capacity of the channel of alerts

AlerterBounds == /\ Enabled \in BOOLEAN
                 /\ MinInterval \in Nat
                 /\ QueueDepth \in Nat \ {0}
                 /\ Timer \cap Caller = {}
                 /\ IsFiniteSet(Timer) /\ IsFiniteSet(Caller)
                 /\ Domain # {}

VARIABLES
  timer,    \* [Timer -> record]: armed, or fired and waiting for the mutex
  grace,    \* the timers that are in the map a.grace
  fired,    \* a.fired: domains whose outage is marked as announced
  lastSent, \* keys sent less than min_interval ago
  emit,     \* [Timer \cup Caller -> record]: an alert on its way to the channel
  outbox,   \* a.queue: the channel
  heard,    \* history, per domain: what the operator was told of its primary
  unheard   \* history: the domains of which an outage was marked as announced and
            \* the alert was throttled, dropped, or lost with the process

alertVars == <<timer, grace, fired, lastSent, emit, outbox, heard, unheard>>

News == {"primary_down", "primary_up"}
Key  == (News \cup {"mail"}) \X Domain

Idle == [at |-> "idle", key |-> <<"mail", CHOOSE d \in Domain : TRUE>>]

Rest == [at |-> "idle", dom |-> CHOOSE d \in Domain : TRUE]

AlerterTypeOK ==
  /\ timer \in [Timer -> [at : {"idle", "armed", "fired"}, dom : Domain]]
  /\ grace \subseteq Timer
  /\ fired \subseteq Domain
  /\ lastSent \subseteq Key
  /\ emit \in [Timer \cup Caller -> [at : {"idle", "throttle", "send"}, key : Key]]
  /\ outbox \in Seq(Key) /\ Len(outbox) <= QueueDepth
  /\ heard \in [Domain -> Seq(News)]
  /\ unheard \subseteq Domain

\* The alerts about an outage of d that were not delivered yet
Undelivered(d) ==
  \/ \E a \in Timer \cup Caller : emit[a].at # "idle" /\ emit[a].key = <<"primary_down", d>>
  \/ \E i \in 1..Len(outbox) : outbox[i] = <<"primary_down", d>>

\* New: nothing of it is kept across a restart
Fresh ==
  /\ timer' = [t \in Timer |-> Rest]
  /\ grace' = {}
  /\ fired' = {}
  /\ lastSent' = {}
  /\ emit' = [a \in Timer \cup Caller |-> Idle]
  /\ outbox' = << >>
  /\ unheard' = unheard \cup {d \in Domain : Undelivered(d)}
  /\ UNCHANGED heard

AlerterInit ==
  /\ timer = [t \in Timer |-> Rest]
  /\ grace = {}
  /\ fired = {}
  /\ lastSent = {}
  /\ emit = [a \in Timer \cup Caller |-> Idle]
  /\ outbox = << >>
  /\ heard = [d \in Domain |-> << >>]
  /\ unheard = {}

\* The timers a.grace has for the domain: at most one
Waiting(d) == {t \in grace : timer[t].dom = d}

Unused(t) == timer[t].at = "idle" /\ emit[t].at = "idle"

\* An alert that does not get through
Unheard(k) == unheard' = IF k[1] = "primary_down" THEN unheard \cup {k[2]} ELSE unheard

Emitting(a, k) == emit' = [emit EXCEPT ![a] = [at |-> "throttle", key |-> k]]

-----------------------------------------------------------------------------
(* Outages and recoveries.                                                 *)

\* remaining > 0: the timer is armed and entered in the map
Arm(d, t) ==
  /\ timer' = [timer EXCEPT ![t] = [at |-> "armed", dom |-> d]]
  /\ grace' = grace \cup {t}

\* remaining <= 0, an outage that began before the restart: fire is started
\* at once and is not in the map
FireNow(d, t) ==
  /\ timer' = [timer EXCEPT ![t] = [at |-> "fired", dom |-> d]]
  /\ UNCHANGED grace

PrimaryDownSince(d) ==
  /\ \/ Waiting(d) # {} /\ UNCHANGED <<timer, grace>>
     \/ Waiting(d) = {} /\ \E t \in Timer : Unused(t) /\ Arm(d, t)
  /\ UNCHANGED <<fired, lastSent, emit, outbox, heard, unheard>>

\* primaryUp: Stop is too late for a timer that has already fired
PrimaryUp(c, d) ==
  /\ timer' = [t \in Timer |-> IF t \in Waiting(d) /\ timer[t].at = "armed"
                               THEN Rest ELSE timer[t]]
  /\ grace' = grace \ Waiting(d)
  /\ fired' = fired \ {d}
  /\ lastSent' = lastSent \ {<<"primary_down", d>>}
  /\ IF d \in fired THEN Emitting(c, <<"primary_up", d>>) ELSE UNCHANGED emit
  /\ UNCHANGED <<outbox, heard, unheard>>

\* The grace period is over: time.AfterFunc starts fire in a goroutine
Elapse(t) ==
  /\ timer[t].at = "armed"
  /\ timer' = [timer EXCEPT ![t].at = "fired"]
  /\ UNCHANGED <<grace, fired, lastSent, emit, outbox, heard, unheard>>

\* Mutant: the timer says the outage was announced and announces nothing
FireSilent(t) ==
  /\ timer[t].at = "fired"
  /\ LET d == timer[t].dom
     IN  /\ grace' = grace \ Waiting(d)
         /\ fired' = fired \cup {d}
  /\ timer' = [timer EXCEPT ![t] = Rest]
  /\ UNCHANGED <<lastSent, emit, outbox, heard, unheard>>

\* fire, first half: under the mutex.  The entry it removes may be another's.
Fire(t) ==
  /\ timer[t].at = "fired"
  /\ LET d == timer[t].dom
     IN  /\ grace' = grace \ Waiting(d)
         /\ fired' = fired \cup {d}
         /\ Emitting(t, <<"primary_down", d>>)
  /\ timer' = [timer EXCEPT ![t] = Rest]
  /\ UNCHANGED <<lastSent, outbox, heard, unheard>>

\* Notify of mail expired, lost or refused, or of a full queue
NotifyMail(c, d) ==
  /\ Enabled /\ emit[c].at = "idle"
  /\ Emitting(c, <<"mail", d>>)
  /\ UNCHANGED <<timer, grace, fired, lastSent, outbox, heard, unheard>>

-----------------------------------------------------------------------------
(* The way of an alert: emit.                                              *)

ShouldSend(a) ==
  /\ emit[a].at = "throttle"
  /\ IF emit[a].key \in lastSent
     THEN emit' = [emit EXCEPT ![a] = Idle] /\ Unheard(emit[a].key) /\ UNCHANGED lastSent
     ELSE /\ emit' = [emit EXCEPT ![a].at = "send"]
          /\ UNCHANGED unheard
          /\ lastSent' = IF MinInterval = 0 THEN lastSent
                                            ELSE lastSent \cup {emit[a].key}
  /\ UNCHANGED <<timer, grace, fired, outbox, heard>>

\* The send never blocks: an alert the channel has no room for is dropped
Enqueue(a) ==
  /\ emit[a].at = "send"
  /\ emit' = [emit EXCEPT ![a] = Idle]
  /\ \/ Len(outbox) < QueueDepth /\ outbox' = Append(outbox, emit[a].key) /\ UNCHANGED unheard
     \/ Len(outbox) = QueueDepth /\ Unheard(emit[a].key) /\ UNCHANGED outbox
  /\ UNCHANGED <<timer, grace, fired, lastSent, heard>>

IntervalElapses(k) ==
  /\ k \in lastSent
  /\ lastSent' = lastSent \ {k}
  /\ UNCHANGED <<timer, grace, fired, emit, outbox, heard, unheard>>

\* Run and deliver: the webhook and the mailbox, whose errors are only logged
Deliver ==
  /\ outbox # << >>
  /\ outbox' = Tail(outbox)
  /\ LET k == Head(outbox)
     IN  heard' = IF k[1] \in News THEN [heard EXCEPT ![k[2]] = Append(@, k[1])] ELSE heard
  /\ UNCHANGED <<timer, grace, fired, lastSent, emit, unheard>>

\* Run, the context is canceled: timers that have not fired are stopped, alerts
\* that were not delivered are lost with the process
StopTimers ==
  /\ timer' = [t \in Timer |-> IF t \in grace /\ timer[t].at = "armed"
                               THEN Rest ELSE timer[t]]
  /\ grace' = {}
  /\ UNCHANGED <<fired, lastSent, emit, outbox, heard, unheard>>
=============================================================================
