---------------------------- MODULE MonitorProofs ----------------------------
(***************************************************************************)
(* What the delivery loop and the operator hear of a primary, for any      *)
(* domains, primaries, thresholds, timers and bounds.  A wake-up is        *)
(* followed from the status that changes to the channel.  For the alerts   *)
(* the changes a domain has gone through are compared with those it may    *)
(* have gone through: a probe that is applied late, a timer that fires     *)
(* late or an alert that is still on its way counts as what it was when it *)
(* began.                                                                  *)
(***************************************************************************)
EXTENDS Monitor, FiniteSetTheorems, TLAPS

-----------------------------------------------------------------------------
(* The invariants.                                                         *)

\* A mail that could be claimed is on somebody's mind: the checker's, from the
\* status that flipped until the send, the channel's or the loop's.
WakeInv ==
  Claimable # {} =>
    \/ sender = "pass" \/ wake > 0
    \/ \E p \in Primary : chk[p].at \in {"pull", "wake"} \/ (chk[p].at = "notify" /\ chk[p].up)

\* One alert at a time: a timer and a goroutine of the checker begin one when
\* their last is through.
EmitInv ==
  /\ \A t \in Timer : timer[t].at # "idle" => emit[t].at = "idle"
  /\ \A p \in Primary : emit[p].at # "idle" => chk[p].at = "pull"

\* A round has a domain that exists, in the hands of one goroutine; a domain that
\* does not exist was not probed, and neither is one before the first round.
RoundInv ==
  /\ \A p \in Primary : chk[p].at = "off" => chk[p].todo = {}
  /\ \A p \in Primary : \A d \in chk[p].todo : dom[d].exists
  /\ \A p, q \in Primary : p # q => chk[p].todo \cap chk[q].todo = {}
  /\ \A d \in Domain : ~dom[d].exists => status[d] = NewStatus
  /\ phase = "dead" => stops > 0
  /\ phase = "resume" /\ stops = 0 => \A d \in Domain : status[d] = NewStatus

Bit(b) == IF b THEN 1 ELSE 0

\* A recovery is announced by taking back an outage that was.
RecoveryInv ==
  \A d \in Domain \ unheard : Count("primary_up", d) + Bit(d \in fired) <= Count("primary_down", d)

\* The alerts about an outage of d that have begun: announced, waiting for their
\* timer, or about to be told to the alerter
Pending(d) == {t \in Timer : timer[t].at # "idle" /\ timer[t].dom = d}
Telling(d) == {p \in Primary : chk[p].at = "notify" /\ ~chk[p].up /\ chk[p].cur = d}
Alarms(d) == Count("primary_down", d) + Cardinality(Pending(d)) + Cardinality(Telling(d))

\* What p's goroutine is going to apply; whether an answer is not what was applied
\* last; and whether the primary of d answers something else by now
Result(p) == IF chk[p].at = "probe" THEN p \in answers ELSE chk[p].ok
Change(d, ok) == Bit(status[d].checked /\ ~(ok <=> status[d].succ > 0))
Overtaken(p, d) == Bit(dom[d].host # p \/ ~(Result(p) <=> p \in answers))

\* The changes d may have gone through since, and how far an outage that was
\* begun is ahead of them: one that was told and has not ended is by two, one that
\* has ended by one
Level(d) ==
  IF ~dom[d].exists THEN 1
  ELSE IF ~status[d].checked THEN 0
  ELSE IF status[d].succ > 0 THEN 1
  ELSE IF status[d].up THEN 0 ELSE 2

\* Resume will come to d
Resuming(d) == phase = "dead" \/ (phase = "resume" /\ stops > 0 /\ d \in todo)

Spent(d) == 2 * Alarms(d) + 2 * Bit(Resuming(d))
Had(d) == turns + edits + 2 * stops + Level(d)

\* Nobody has d in hand, or p has.
Settled(d) == (\A p \in Primary : d \notin chk[p].todo) => Spent(d) + Change(d, dom[d].host \in answers) <= Had(d)
InHand(p, d) == d \in chk[p].todo => Spent(d) + Change(d, Result(p)) + Overtaken(p, d) <= Had(d)

OutageInv == \A d \in Domain : Settled(d) /\ \A p \in Primary : InHand(p, d)

MonitorInv == TypeOK /\ WakeInv /\ EmitInv /\ RoundInv /\ RecoveryInv /\ OutageInv

-----------------------------------------------------------------------------
(* Counting.                                                               *)

\* Sets that are the same but for one element
LEMMA ButForOne ==
  ASSUME NEW A, IsFiniteSet(A), NEW B, NEW a, A \ {a} = B \ {a}
  PROVE  /\ IsFiniteSet(B) /\ Cardinality(A) \in Nat /\ Cardinality(B) \in Nat
         /\ Cardinality(B) + Bit(a \in A) = Cardinality(A) + Bit(a \in B)
<1>1. /\ IsFiniteSet(A \ {a})
      /\ Cardinality(A \ {a}) = IF a \in A THEN Cardinality(A) - 1 ELSE Cardinality(A)
  BY FS_RemoveElement, Zenon
<1>2. /\ IsFiniteSet((A \ {a}) \cup {a})
      /\ Cardinality((A \ {a}) \cup {a}) = Cardinality(A \ {a}) + 1
  BY <1>1, FS_AddElement
<1>3. B = (IF a \in B THEN (A \ {a}) \cup {a} ELSE A \ {a})
  OBVIOUS
<1>4. IsFiniteSet(B) /\ Cardinality(B) = (IF a \in B THEN Cardinality(A \ {a}) + 1 ELSE Cardinality(A \ {a}))
  <2>1. CASE a \in B
    BY <1>2, <1>3, <2>1
  <2>2. CASE a \notin B
    BY <1>1, <1>3, <2>2
  <2> QED
    BY <2>1, <2>2
<1>5. Cardinality(A) \in Nat /\ Cardinality(B) \in Nat
  BY <1>4, FS_CardinalityType
<1> QED
  BY <1>1, <1>4, <1>5 DEF Bit

\* How often k is in a sequence, and on its way to the channel
Places(s, k) == {i \in 1..Len(s) : s[i] = k}
Of(s, k) == Cardinality(Places(s, k))
Under(e, k) == {a \in Timer \cup Caller : e[a].at # "idle" /\ e[a].key = k}
On(e, k) == Cardinality(Under(e, k))

\* The places of a sequence are finitely many.
LEMMA PlacesAreFinite ==
  ASSUME NEW S, NEW s \in Seq(S), NEW k
  PROVE  IsFiniteSet(Places(s, k)) /\ Of(s, k) \in Nat
<1>1. Len(s) \in Nat
  OBVIOUS
<1>2. IsFiniteSet(1..Len(s))
  BY <1>1, FS_Interval
<1>3. Places(s, k) \in SUBSET (1..Len(s))
  BY DEF Places
<1>4. IsFiniteSet(Places(s, k))
  BY <1>2, <1>3, FS_Subset
<1> QED
  BY <1>4, FS_CardinalityType DEF Of

\* An element more at the end
LEMMA OneAppended ==
  ASSUME NEW S, NEW s \in Seq(S), NEW x \in S, NEW k
  PROVE  Of(Append(s, x), k) = Of(s, k) + Bit(x = k)
<1> DEFINE n == Len(s) + 1
           A == Places(s, k)
           B == Places(Append(s, x), k)
<1>1. /\ Len(s) \in Nat /\ Len(Append(s, x)) = n /\ Append(s, x)[n] = x
      /\ \A i \in 1..Len(s) : Append(s, x)[i] = s[i]
  OBVIOUS
<1>2. A \ {n} = B \ {n} /\ n \notin A /\ (n \in B <=> x = k)
  BY <1>1 DEF Places
<1>3. IsFiniteSet(A) /\ Cardinality(A) \in Nat
  BY PlacesAreFinite DEF Of
<1>4. Cardinality(B) + Bit(n \in A) = Cardinality(A) + Bit(n \in B) /\ Cardinality(B) \in Nat
  <2> HIDE DEF A, B, n
  <2> QED
    BY <1>2, <1>3, ButForOne
<1> QED
  BY <1>2, <1>3, <1>4 DEF Of, Bit

\* An element less at the beginning
LEMMA OneTaken ==
  ASSUME NEW S, NEW s \in Seq(S), s # << >>, NEW k
  PROVE  Of(Tail(s), k) + Bit(Head(s) = k) = Of(s, k)
<1> DEFINE A == Places(s, k)
           R == A \ {1}
           T == Places(Tail(s), k)
           f == [i \in R |-> i - 1]
<1>1. /\ Len(s) \in Nat \ {0} /\ Len(Tail(s)) = Len(s) - 1 /\ Head(s) = s[1]
      /\ \A i \in 1..(Len(s) - 1) : Tail(s)[i] = s[i + 1]
  OBVIOUS
<1>2. IsFiniteSet(A) /\ Cardinality(A) \in Nat
  BY PlacesAreFinite DEF Of
<1>3. IsFiniteSet(R) /\ Cardinality(R) = IF 1 \in A THEN Cardinality(A) - 1 ELSE Cardinality(A)
  <2> HIDE DEF A
  <2> QED
    BY <1>2, FS_RemoveElement
<1>4. 1 \in A <=> Head(s) = k
  BY <1>1 DEF Places
<1>5. f \in Bijection(R, T)
  <2>1. \A i \in R : i - 1 \in T /\ i \in Int
    BY <1>1 DEF Places
  <2>2. f \in [R -> T]
    BY <2>1
  <2>3. \A i, j \in R : f[i] = f[j] => i = j
    BY <2>1
  <2>4. \A j \in T : j + 1 \in R /\ f[j + 1] = j
    BY <1>1 DEF Places
  <2> HIDE DEF f, R, T
  <2> QED
    BY <2>2, <2>3, <2>4 DEF Bijection, Injection, Surjection, IsInjective
<1>6. Cardinality(T) = Cardinality(R)
  <2> HIDE DEF f, R, T
  <2>1. ExistsBijection(R, T)
    BY <1>5 DEF ExistsBijection
  <2> QED
    BY <1>3, <2>1, FS_Bijection
<1> QED
  BY <1>2, <1>3, <1>4, <1>6 DEF Of, Bit

\* Alerts on their way are finitely many.
LEMMA UnderIsFinite ==
  ASSUME MonitorBounds, NEW e, NEW k
  PROVE  IsFiniteSet(Under(e, k)) /\ On(e, k) \in Nat
<1>1. IsFiniteSet(Timer \cup Caller)
  BY FS_Union DEF MonitorBounds, AlerterBounds
<1>2. Under(e, k) \in SUBSET (Timer \cup Caller)
  BY DEF Under
<1>3. IsFiniteSet(Under(e, k))
  BY <1>1, <1>2, FS_Subset
<1> QED
  BY <1>3, FS_CardinalityType DEF On

\* One goes on, begins or is through.
LEMMA OneOnItsWay ==
  ASSUME MonitorBounds, NEW e, NEW f, NEW a \in Timer \cup Caller, NEW k,
         \A b \in (Timer \cup Caller) \ {a} : f[b] = e[b]
  PROVE  On(f, k) + Bit(e[a].at # "idle" /\ e[a].key = k) = On(e, k) + Bit(f[a].at # "idle" /\ f[a].key = k)
<1>1. Under(e, k) \ {a} = Under(f, k) \ {a}
  BY DEF Under
<1>2. (a \in Under(e, k) <=> e[a].at # "idle" /\ e[a].key = k) /\ (a \in Under(f, k) <=> f[a].at # "idle" /\ f[a].key = k)
  BY DEF Under
<1>3. IsFiniteSet(Under(e, k))
  BY UnderIsFinite
<1>4. Cardinality(Under(f, k)) + Bit(a \in Under(e, k)) = Cardinality(Under(e, k)) + Bit(a \in Under(f, k))
  BY <1>1, <1>3, ButForOne
<1> QED
  BY <1>2, <1>4 DEF On

\* Where the alerts of a kind about d are
LEMMA CountIs ==
  \A kind, d :
    /\ Count(kind, d) = Of(heard[d], kind) + Of(outbox, <<kind, d>>) + On(emit, <<kind, d>>)
    /\ Count(kind, d)' = Of(heard'[d], kind) + Of(outbox', <<kind, d>>) + On(emit', <<kind, d>>)
BY DEF Count, Of, Places, On, Under

-----------------------------------------------------------------------------
(* Types.                                                                  *)

TimerRow == [at : {"idle", "armed", "fired"}, dom : Domain]
EmitRow == [at : {"idle", "throttle", "send"}, key : Key]
DomRow == [exists : BOOLEAN, enabled : BOOLEAN, host : Primary]
ChkRow == [at : {"off", "probe", "record", "notify", "pull", "wake"}, todo : SUBSET Domain, cur : Domain,
           ok : BOOLEAN, up : BOOLEAN]

\* The records components begin with have their types.
LEMMA Beginnings ==
  ASSUME MonitorBounds
  PROVE  /\ Rest \in TimerRow /\ Rest.at = "idle"
         /\ Idle \in EmitRow /\ Idle.at = "idle"
         /\ Off \in ChkRow /\ Off.at = "off" /\ Off.todo = {} /\ Off.up = FALSE
         /\ NewStatus \in Status
<1>1. (CHOOSE d \in Domain : TRUE) \in Domain
  BY DEF MonitorBounds, AlerterBounds
<1>2. <<"mail", CHOOSE d \in Domain : TRUE>> \in Key
  BY <1>1 DEF Key
<1>3. FailureThreshold \in Nat /\ SuccessThreshold \in Nat
  BY DEF MonitorBounds, HealthBounds
<1> QED
  BY <1>1, <1>2, <1>3 DEF Rest, Idle, Off, TimerRow, EmitRow, ChkRow, NewStatus, Status

\* RecordProbe keeps a status a status.
LEMMA ProbesRecorded ==
  ASSUME MonitorBounds, NEW s \in Status, NEW ok \in BOOLEAN
  PROVE  RecordProbe(s, ok) \in Status
<1>1. FailureThreshold \in Nat \ {0} /\ SuccessThreshold \in Nat \ {0}
  BY DEF MonitorBounds, HealthBounds
<1>2. s.up \in BOOLEAN /\ s.fails \in 0..FailureThreshold /\ s.succ \in 0..SuccessThreshold
  BY DEF Status
<1> QED
  BY <1>1, <1>2 DEF RecordProbe, Status

\* Types of the alerter are kept by each of its operations.
AlerterTypes ==
  /\ timer \in [Timer -> TimerRow]
  /\ grace \subseteq Timer /\ fired \subseteq Domain /\ lastSent \subseteq Key
  /\ emit \in [Timer \cup Caller -> EmitRow]
  /\ outbox \in Seq(Key) /\ Len(outbox) <= QueueDepth
  /\ heard \in [Domain -> Seq(News)] /\ unheard \subseteq Domain

\* A timer that elapses or fires leaves the alerter its types.
LEMMA TimersTyped ==
  ASSUME MonitorBounds, AlerterTypes, NEW t \in Timer, Elapse(t) \/ Fire(t)
  PROVE  AlerterTypes'
<1> USE Beginnings
<1>1. CASE Elapse(t)
  BY <1>1 DEF Elapse, AlerterTypes, TimerRow
<1>2. CASE Fire(t)
  <2>1. timer[t].dom \in Domain /\ <<"primary_down", timer[t].dom>> \in Key
    BY DEF AlerterTypes, TimerRow, Key, News
  <2>2. [at |-> "throttle", key |-> <<"primary_down", timer[t].dom>>] \in EmitRow
    BY <2>1 DEF EmitRow
  <2>3. emit' \in [Timer \cup Caller -> EmitRow]
    BY <1>2, <2>2 DEF Fire, Emitting, AlerterTypes
  <2>4. timer' \in [Timer -> TimerRow] /\ grace' \subseteq Timer /\ fired' \subseteq Domain
    BY <1>2, <2>1 DEF Fire, AlerterTypes
  <2> QED
    BY <1>2, <2>3, <2>4 DEF Fire, AlerterTypes
<1> QED
  BY <1>1, <1>2

\* So does an alert on its way to the channel,
LEMMA AlertsTyped ==
  ASSUME MonitorBounds, AlerterTypes, NEW a \in Timer \cup Caller, ShouldSend(a) \/ Enqueue(a)
  PROVE  AlerterTypes'
<1> USE Beginnings
<1>1. emit[a] \in EmitRow /\ emit[a].key \in Key
  BY DEF AlerterTypes, EmitRow
<1>2. Unheard(emit[a].key) => unheard' \subseteq Domain
  <2>1. emit[a].key[2] \in Domain
    BY <1>1 DEF Key
  <2> QED
    BY <2>1 DEF Unheard, AlerterTypes
<1>3. CASE ShouldSend(a)
  <2>1. [emit[a] EXCEPT !.at = "send"] \in EmitRow
    BY <1>1 DEF EmitRow
  <2>2. emit' \in [Timer \cup Caller -> EmitRow]
    BY <1>3, <2>1 DEF ShouldSend, AlerterTypes
  <2>3. lastSent' \subseteq Key /\ unheard' \subseteq Domain
    BY <1>1, <1>2, <1>3 DEF ShouldSend, AlerterTypes
  <2> QED
    BY <1>3, <2>2, <2>3 DEF ShouldSend, AlerterTypes
<1>4. CASE Enqueue(a)
  <2>1. emit' \in [Timer \cup Caller -> EmitRow]
    BY <1>4 DEF Enqueue, AlerterTypes
  <2>2. outbox' \in Seq(Key) /\ Len(outbox') <= QueueDepth /\ unheard' \subseteq Domain
    <3>1. CASE Len(outbox) < QueueDepth /\ outbox' = Append(outbox, emit[a].key) /\ UNCHANGED unheard
      <4>1. QueueDepth \in Nat
        BY DEF MonitorBounds, AlerterBounds
      <4>2. outbox \in Seq(Key) /\ Len(outbox) \in Nat
        BY DEF AlerterTypes
      <4>3. Append(outbox, emit[a].key) \in Seq(Key) /\ Len(Append(outbox, emit[a].key)) = Len(outbox) + 1
        BY <1>1, <4>2
      <4> QED
        BY <3>1, <4>1, <4>2, <4>3 DEF AlerterTypes
    <3>2. CASE Unheard(emit[a].key) /\ UNCHANGED outbox
      BY <1>2, <3>2 DEF AlerterTypes
    <3> QED
      BY <1>4, <3>1, <3>2 DEF Enqueue
  <2> QED
    BY <1>4, <2>1, <2>2 DEF Enqueue, AlerterTypes
<1> QED
  BY <1>3, <1>4

\* the channel that is emptied and the throttle that forgets,
LEMMA SendsTyped ==
  ASSUME MonitorBounds, AlerterTypes, Deliver \/ \E k \in lastSent : IntervalElapses(k)
  PROVE  AlerterTypes'
<1>1. CASE Deliver
  <2>1. outbox \in Seq(Key) /\ Len(outbox) \in Nat /\ outbox # << >>
    BY <1>1 DEF Deliver, AlerterTypes
  <2>2. Tail(outbox) \in Seq(Key) /\ Len(Tail(outbox)) = Len(outbox) - 1 /\ Head(outbox) \in Key
    BY <2>1
  <2>3. QueueDepth \in Nat
    BY DEF MonitorBounds, AlerterBounds
  <2>4. outbox' \in Seq(Key) /\ Len(outbox') <= QueueDepth
    BY <1>1, <2>1, <2>2, <2>3 DEF Deliver, AlerterTypes
  <2>5. heard' \in [Domain -> Seq(News)]
    <3> DEFINE k == Head(outbox)
    <3>1. k[2] \in Domain
      BY <2>2 DEF Key
    <3>2. k[1] \in News => Append(heard[k[2]], k[1]) \in Seq(News)
      BY <3>1 DEF AlerterTypes
    <3> QED
      BY <1>1, <3>1, <3>2 DEF Deliver, AlerterTypes
  <2> QED
    BY <1>1, <2>4, <2>5 DEF Deliver, AlerterTypes
<1>2. CASE \E k \in lastSent : IntervalElapses(k)
  BY <1>2 DEF IntervalElapses, AlerterTypes
<1> QED
  BY <1>1, <1>2

\* what the checker and the mail path tell the alerter,
LEMMA OutagesTyped ==
  ASSUME MonitorBounds, AlerterTypes, NEW d \in Domain,
         \/ PrimaryDownSince(d)
         \/ \E c \in Caller : PrimaryUp(c, d) \/ NotifyMail(c, d)
         \/ \E t \in Timer : FireNow(d, t) /\ UNCHANGED <<fired, lastSent, emit, outbox, heard, unheard>>
  PROVE  AlerterTypes'
<1> USE Beginnings
<1>0. /\ [at |-> "armed", dom |-> d] \in TimerRow /\ [at |-> "fired", dom |-> d] \in TimerRow
      /\ [at |-> "throttle", key |-> <<"primary_up", d>>] \in EmitRow
      /\ [at |-> "throttle", key |-> <<"mail", d>>] \in EmitRow
  BY DEF TimerRow, EmitRow, Key, News
<1>1. CASE PrimaryDownSince(d)
  BY <1>0, <1>1 DEF PrimaryDownSince, Arm, AlerterTypes
<1>2. ASSUME NEW c \in Caller, PrimaryUp(c, d) PROVE AlerterTypes'
  <2>1. emit' \in [Timer \cup Caller -> EmitRow]
    BY <1>0, <1>2 DEF PrimaryUp, Emitting, AlerterTypes
  <2>2. timer' \in [Timer -> TimerRow]
    BY <1>2 DEF PrimaryUp, AlerterTypes
  <2> QED
    BY <1>2, <2>1, <2>2 DEF PrimaryUp, AlerterTypes
<1>3. ASSUME NEW c \in Caller, NotifyMail(c, d) PROVE AlerterTypes'
  <2>1. emit' \in [Timer \cup Caller -> EmitRow]
    BY <1>0, <1>3 DEF NotifyMail, Emitting, AlerterTypes
  <2> QED
    BY <1>3, <2>1 DEF NotifyMail, AlerterTypes
<1>4. ASSUME NEW t \in Timer, FireNow(d, t), UNCHANGED <<fired, lastSent, emit, outbox, heard, unheard>> PROVE AlerterTypes'
  BY <1>0, <1>4 DEF FireNow, AlerterTypes
<1> QED
  BY <1>1, <1>2, <1>3, <1>4

\* and the end of the process.
LEMMA EndsTyped ==
  ASSUME MonitorBounds, AlerterTypes, StopTimers \/ Fresh
  PROVE  AlerterTypes'
<1> USE Beginnings
<1>1. CASE StopTimers
  BY <1>1 DEF StopTimers, AlerterTypes
<1>2. CASE Fresh
  <2>1. << >> \in Seq(Key) /\ Len(<< >>) = 0 /\ QueueDepth \in Nat
    BY DEF MonitorBounds, AlerterBounds
  <2>2. outbox' \in Seq(Key) /\ Len(outbox') <= QueueDepth
    BY <1>2, <2>1 DEF Fresh
  <2>3. timer' \in [Timer -> TimerRow] /\ emit' \in [Timer \cup Caller -> EmitRow]
    BY <1>2 DEF Fresh
  <2>4. grace' \subseteq Timer /\ fired' \subseteq Domain /\ lastSent' \subseteq Key /\ unheard' \subseteq Domain
    BY <1>2 DEF Fresh, AlerterTypes
  <2> QED
    BY <1>2, <2>2, <2>3, <2>4 DEF Fresh, AlerterTypes
<1> QED
  BY <1>1, <1>2

\* Types of the checker, of the loop and of the tables, and of the process
HealthTypes ==
  /\ answers \subseteq Primary
  /\ dom \in [Domain -> DomRow]
  /\ status \in [Domain -> Status]
  /\ chk \in [Primary -> ChkRow]
  /\ wake \in 0..WakeDepth /\ sender \in {"wait", "pass", "leave"} /\ due \subseteq Domain
  /\ turns \in 0..MaxTurns /\ edits \in 0..MaxEdits /\ faults \in 0..MaxFaults

ProcessTypes ==
  /\ phase \in {"resume", "run", "stopping", "dead"} /\ todo \subseteq Domain
  /\ stops \in 0..MaxStops /\ mails \in 0..MaxMail

\* The type invariant in three parts
LEMMA TypesAre ==
  /\ TypeOK <=> AlerterTypes /\ HealthTypes /\ ProcessTypes
  /\ TypeOK' <=> AlerterTypes' /\ HealthTypes' /\ ProcessTypes'
BY DEF TypeOK, AlerterTypeOK, AlerterTypes, TimerRow, EmitRow, HealthTypeOK, HealthTypes, ProcessTypes, DomRow, ChkRow

\* The bounds are numbers.
LEMMA BoundsAreNumbers ==
  ASSUME MonitorBounds
  PROVE  /\ MaxTurns \in Nat /\ MaxEdits \in Nat /\ MaxFaults \in Nat /\ MaxStops \in Nat /\ MaxMail \in Nat
         /\ WakeDepth \in Nat \ {0} /\ QueueDepth \in Nat \ {0}
         /\ Primary \subseteq Caller /\ Timer \cap Caller = {}
         /\ IsFiniteSet(Timer) /\ IsFiniteSet(Caller) /\ IsFiniteSet(Primary)
<1>1. Primary \in SUBSET Caller /\ IsFiniteSet(Caller)
  BY DEF MonitorBounds, HealthBounds, AlerterBounds
<1>2. IsFiniteSet(Primary)
  BY <1>1, FS_Subset
<1> QED
  BY <1>1, <1>2 DEF MonitorBounds, HealthBounds, AlerterBounds

\* Types are kept by a step of a goroutine of the checker.
LEMMA CheckerTyped ==
  ASSUME MonitorBounds, HealthTypes, NEW p \in Primary,
         \/ Probe(p) \/ RoundDone(p) \/ Pull(p) \/ Wake(p) \/ Notify(p)
         \/ \E d \in Domain : Apply(p, d) \/ ApplyFails(p, d)
  PROVE  HealthTypes'
<1> USE Beginnings, BoundsAreNumbers
<1>1. chk[p] \in ChkRow /\ chk[p].cur \in Domain /\ chk[p].todo \subseteq Domain /\ chk[p].ok \in BOOLEAN
  BY DEF HealthTypes, ChkRow
<1>2. CASE Probe(p)
  <2> DEFINE b == p \in answers
  <2>0. b \in BOOLEAN
    OBVIOUS
  <2>2. chk' = [chk EXCEPT ![p] = [chk[p] EXCEPT !.at = "record", !.ok = b]]
    BY <1>2, Zenon DEF Probe
  <2> HIDE DEF b
  <2>1. [chk[p] EXCEPT !.at = "record", !.ok = b] \in ChkRow
    BY <1>1, <2>0 DEF ChkRow
  <2>3. chk' \in [Primary -> ChkRow]
    BY <2>1, <2>2 DEF HealthTypes
  <2> QED
    BY <1>2, <2>3 DEF Probe, HealthTypes
<1>3. CASE RoundDone(p)
  BY <1>3 DEF RoundDone, HealthTypes
<1>4. CASE Pull(p)
  <2>1. [chk[p] EXCEPT !.at = "wake"] \in ChkRow
    BY <1>1 DEF ChkRow
  <2>2. chk' \in [Primary -> ChkRow]
    BY <1>4, <2>1 DEF Pull, HealthTypes
  <2>3. due' \subseteq Domain /\ faults' \in 0..MaxFaults
    BY <1>1, <1>4 DEF Pull, Fault, HealthTypes
  <2> QED
    BY <1>4, <2>2, <2>3 DEF Pull, HealthTypes
<1>5. CASE Wake(p)
  <2>1. [chk[p] EXCEPT !.at = "record"] \in ChkRow
    BY <1>1 DEF ChkRow
  <2>2. chk' \in [Primary -> ChkRow]
    BY <1>5, <2>1 DEF Wake, HealthTypes
  <2>3. wake' \in 0..WakeDepth
    BY <1>5 DEF Wake, HealthTypes
  <2> QED
    BY <1>5, <2>2, <2>3 DEF Wake, HealthTypes
<1>6. CASE Notify(p)
  <2>1. [chk[p] EXCEPT !.at = IF chk[p].up THEN "pull" ELSE "record"] \in ChkRow
    BY <1>1 DEF ChkRow
  <2>2. chk' \in [Primary -> ChkRow]
    BY <1>6, <2>1 DEF Notify, HealthTypes
  <2> QED
    BY <1>6, <2>2 DEF Notify, HealthTypes
<1>7. ASSUME NEW d \in Domain, Apply(p, d) PROVE HealthTypes'
  <2>1. status[d] \in Status /\ RecordProbe(status[d], chk[p].ok) \in Status
    BY <1>1, ProbesRecorded DEF HealthTypes
  <2>2. status' \in [Domain -> Status] /\ status'[d] = RecordProbe(status[d], chk[p].ok)
    BY <1>7, <2>1 DEF Apply, HealthTypes
  <2>3. status'[d].up \in BOOLEAN
    BY <2>1, <2>2 DEF Status
  <2> DEFINE r == [chk[p] EXCEPT !.todo = @ \ {d}, !.cur = d, !.up = status'[d].up,
                                 !.at = IF Flipped(status[d], chk[p].ok) THEN "notify" ELSE "record"]
  <2>4. r \in ChkRow
    BY <1>1, <2>3 DEF ChkRow
  <2>5. chk' = [chk EXCEPT ![p] = r]
    BY <1>7 DEF Apply, HealthTypes
  <2> HIDE DEF r
  <2>6. chk' \in [Primary -> ChkRow]
    BY <2>4, <2>5 DEF HealthTypes
  <2> QED
    BY <1>7, <2>2, <2>6 DEF Apply, HealthTypes
<1>8. ASSUME NEW d \in Domain, ApplyFails(p, d) PROVE HealthTypes'
  <2>1. [chk[p] EXCEPT !.todo = @ \ {d}] \in ChkRow
    BY <1>1 DEF ChkRow
  <2>2. chk' \in [Primary -> ChkRow]
    BY <1>8, <2>1 DEF ApplyFails, HealthTypes
  <2>3. faults' \in 0..MaxFaults
    BY <1>8 DEF ApplyFails, Fault, HealthTypes
  <2> QED
    BY <1>8, <2>2, <2>3 DEF ApplyFails, HealthTypes
<1> QED
  BY <1>2, <1>3, <1>4, <1>5, <1>6, <1>7, <1>8

\* Types are kept by the rounds, the loop, the primaries and the administrators.
LEMMA TablesTyped ==
  ASSUME MonitorBounds, HealthTypes, CheckAll \/ Loop \/ Admin \/ (\E p \in Primary : Turn(p)) \/ FreshHealth
  PROVE  HealthTypes'
<1> USE Beginnings, BoundsAreNumbers
<1>1. CASE CheckAll
  <2>1. \A p \in Primary : [Off EXCEPT !.at = "probe", !.todo = Sharing(p)] \in ChkRow
    BY DEF ChkRow, Sharing
  <2>2. chk' \in [Primary -> ChkRow]
    BY <1>1, <2>1 DEF CheckAll
  <2> QED
    BY <1>1, <2>2 DEF CheckAll, HealthTypes
<1>2. CASE Loop
  <2>1. wake' \in 0..WakeDepth
    BY <1>2 DEF Loop, PassBegins, PassClaims, PassEnds, HealthTypes
  <2> QED
    BY <1>2, <2>1 DEF Loop, PassBegins, PassClaims, PassEnds, HealthTypes
<1>3. CASE Admin
  <2>1. ASSUME NEW d \in Domain, NEW p \in Primary, NEW e \in BOOLEAN, UpdateDomain(d, p, e) PROVE HealthTypes'
    <3>1. [dom[d] EXCEPT !.host = p, !.enabled = e] \in DomRow
      BY DEF HealthTypes, DomRow
    <3>2. dom' \in [Domain -> DomRow]
      <4>1. dom' = [dom EXCEPT ![d] = [dom[d] EXCEPT !.host = p, !.enabled = e]]
        BY <2>1 DEF UpdateDomain, HealthTypes
      <4> QED
        BY <3>1, <4>1 DEF HealthTypes
    <3> QED
      BY <2>1, <3>2 DEF UpdateDomain, Edit, HealthTypes
  <2>2. ASSUME NEW d \in Domain, DeleteDomain(d) PROVE HealthTypes'
    <3>1. [dom[d] EXCEPT !.exists = FALSE] \in DomRow
      BY DEF HealthTypes, DomRow
    <3>2. dom' \in [Domain -> DomRow]
      BY <2>2, <3>1 DEF DeleteDomain, HealthTypes
    <3>3. \A p \in Primary : [chk[p] EXCEPT !.todo = @ \ {d}] \in ChkRow
      BY DEF HealthTypes, ChkRow
    <3>4. chk' \in [Primary -> ChkRow] /\ status' \in [Domain -> Status]
      BY <2>2, <3>3 DEF DeleteDomain, HealthTypes
    <3> QED
      BY <2>2, <3>2, <3>4 DEF DeleteDomain, Edit, HealthTypes
  <2>3. ASSUME NEW d \in Domain, NEW p \in Primary, CreateDomain(d, p) PROVE HealthTypes'
    <3>1. [exists |-> TRUE, enabled |-> TRUE, host |-> p] \in DomRow
      BY DEF DomRow
    <3> QED
      BY <2>3, <3>1 DEF CreateDomain, Edit, HealthTypes
  <2> QED
    BY <1>3, <2>1, <2>2, <2>3 DEF Admin
<1>4. ASSUME NEW p \in Primary, Turn(p) PROVE HealthTypes'
  BY <1>4 DEF Turn, HealthTypes
<1>5. CASE FreshHealth
  BY <1>5 DEF FreshHealth, HealthTypes
<1> QED
  BY <1>1, <1>2, <1>3, <1>4, <1>5

\* What is left alone keeps its types.
LEMMA LeftAlone ==
  /\ AlerterTypes /\ UNCHANGED alertVars => AlerterTypes'
  /\ HealthTypes /\ UNCHANGED healthVars => HealthTypes'
  /\ ProcessTypes /\ UNCHANGED procVars => ProcessTypes'
<1>1. AlerterTypes /\ UNCHANGED alertVars => AlerterTypes'
  BY DEF AlerterTypes, alertVars
<1>2. HealthTypes /\ UNCHANGED healthVars => HealthTypes'
  BY DEF HealthTypes, healthVars
<1>3. ProcessTypes /\ UNCHANGED procVars => ProcessTypes'
  BY DEF ProcessTypes, procVars
<1> QED
  BY <1>1, <1>2, <1>3

\* Types are kept by the process.
LEMMA ProcessTyped ==
  ASSUME MonitorBounds, TypeOK, ResumeFails \/ Run \/ Signal \/ Stop \/ Start \/ \E d \in Domain : ResumeDomain(d)
  PROVE  TypeOK'
<1> USE BoundsAreNumbers
<1>0. AlerterTypes /\ HealthTypes /\ ProcessTypes
  BY TypesAre
<1>1. CASE ResumeFails
  <2>1. AlerterTypes'
    BY <1>0, <1>1, LeftAlone DEF ResumeFails
  <2>2. HealthTypes'
    BY <1>0, <1>1 DEF ResumeFails, Fault, HealthTypes
  <2>3. ProcessTypes'
    BY <1>0, <1>1 DEF ResumeFails, ProcessTypes
  <2> QED
    BY <2>1, <2>2, <2>3, TypesAre
<1>2. CASE Run \/ Start
  <2>1. AlerterTypes' /\ HealthTypes'
    BY <1>0, <1>2, LeftAlone DEF Run, Start
  <2>2. ProcessTypes'
    BY <1>0, <1>2 DEF Run, Start, ProcessTypes
  <2> QED
    BY <2>1, <2>2, TypesAre
<1>3. CASE Signal
  <2>1. AlerterTypes'
    BY <1>0, <1>3, EndsTyped DEF Signal
  <2>2. HealthTypes'
    BY <1>0, <1>3, LeftAlone DEF Signal
  <2>3. ProcessTypes'
    BY <1>0, <1>3 DEF Signal, ProcessTypes
  <2> QED
    BY <2>1, <2>2, <2>3, TypesAre
<1>4. CASE Stop
  <2>1. AlerterTypes' /\ HealthTypes'
    BY <1>0, <1>4, EndsTyped, TablesTyped DEF Stop
  <2>2. ProcessTypes'
    BY <1>0, <1>4 DEF Stop, ProcessTypes
  <2> QED
    BY <2>1, <2>2, TypesAre
<1>5. ASSUME NEW d \in Domain, ResumeDomain(d) PROVE TypeOK'
  <2>1. AlerterTypes'
    <3>1. CASE Down(d) /\ PrimaryDownSince(d)
      BY <1>0, <3>1, OutagesTyped
    <3>2. CASE \E t \in Timer : Unused(t) /\ FireNow(d, t) /\ UNCHANGED <<fired, lastSent, emit, outbox, heard, unheard>>
      BY <1>0, <3>2, OutagesTyped
    <3>3. CASE UNCHANGED alertVars
      BY <1>0, <3>3, LeftAlone
    <3> QED
      BY <1>5, <3>1, <3>2, <3>3 DEF ResumeDomain
  <2>2. HealthTypes'
    BY <1>0, <1>5, LeftAlone DEF ResumeDomain
  <2>3. ProcessTypes'
    BY <1>0, <1>5 DEF ResumeDomain, ProcessTypes
  <2> QED
    BY <2>1, <2>2, <2>3, TypesAre
<1> QED
  BY <1>1, <1>2, <1>3, <1>4, <1>5

\* The type invariant is kept by every step.
LEMMA NextTyped == MonitorBounds /\ TypeOK /\ [Next]_vars => TypeOK'
<1> SUFFICES ASSUME MonitorBounds, TypeOK, [Next]_vars PROVE TypeOK'
  OBVIOUS
<1> USE BoundsAreNumbers
<1>0. AlerterTypes /\ HealthTypes /\ ProcessTypes
  BY TypesAre
<1>1. CASE ResumeFails \/ Run \/ Signal \/ Stop \/ Start \/ \E d \in Domain : ResumeDomain(d)
  BY <1>1, ProcessTyped
<1>2. CASE UNCHANGED procVars /\ (CheckAll \/ Loop) /\ UNCHANGED alertVars
  <2>1. HealthTypes'
    BY <1>0, <1>2, TablesTyped
  <2> QED
    BY <1>0, <1>2, <2>1, TypesAre, LeftAlone
<1>3. ASSUME NEW p \in Primary, UNCHANGED procVars, Checker(p) PROVE TypeOK'
  <2>1. HealthTypes' /\ UNCHANGED alertVars
    BY <1>0, <1>3, CheckerTyped DEF Checker
  <2> QED
    BY <1>0, <1>3, <2>1, TypesAre, LeftAlone
<1>4. ASSUME NEW p \in Primary, UNCHANGED procVars, Notify(p) PROVE TypeOK'
  <2>1. HealthTypes'
    BY <1>0, <1>4, CheckerTyped
  <2>2. chk[p].cur \in Domain /\ p \in Caller
    BY <1>0 DEF HealthTypes, ChkRow
  <2>3. AlerterTypes'
    BY <1>0, <1>4, <2>2, OutagesTyped, LeftAlone DEF Notify
  <2> QED
    BY <1>0, <1>4, <2>1, <2>3, TypesAre, LeftAlone
<1>5. CASE /\ UNCHANGED <<healthVars, procVars>>
           /\ \/ \E t \in Timer : Elapse(t) \/ Fire(t)
              \/ \E a \in Timer \cup Caller : ShouldSend(a) \/ Enqueue(a)
              \/ Deliver \/ \E k \in lastSent : IntervalElapses(k)
  <2>1. AlerterTypes'
    BY <1>0, <1>5, TimersTyped, AlertsTyped, SendsTyped
  <2> QED
    BY <1>0, <1>5, <2>1, TypesAre, LeftAlone
<1>6. ASSUME NEW c \in Caller, NEW d \in Domain, NotifyOther(c, d) PROVE TypeOK'
  <2>1. AlerterTypes'
    BY <1>0, <1>6, OutagesTyped DEF NotifyOther
  <2>2. HealthTypes'
    BY <1>0, <1>6, LeftAlone DEF NotifyOther
  <2>3. ProcessTypes'
    BY <1>0, <1>6 DEF NotifyOther, ProcessTypes
  <2> QED
    BY <2>1, <2>2, <2>3, TypesAre
<1>7. CASE UNCHANGED <<alertVars, procVars>> /\ (Admin \/ \E p \in Primary : Turn(p))
  <2>1. HealthTypes'
    BY <1>0, <1>7, TablesTyped
  <2> QED
    BY <1>0, <1>7, <2>1, TypesAre, LeftAlone
<1>8. CASE UNCHANGED vars
  <2>1. UNCHANGED alertVars /\ UNCHANGED healthVars /\ UNCHANGED procVars
    BY <1>8 DEF vars, procVars
  <2> QED
    BY <1>0, <2>1, TypesAre, LeftAlone
<1> QED
  <2>1. CASE Next
    BY <2>1, <1>1, <1>2, <1>3, <1>4, <1>5, <1>6, <1>7 DEF Next
  <2> QED
    BY <2>1, <1>8

-----------------------------------------------------------------------------
(* The wake-up.                                                            *)

\* No more can be claimed after a step that makes no status up, pulls nothing
\* forward and enables nothing.
LEMMA NothingNew ==
  ASSUME due' \subseteq due,
         \A d \in due' : /\ dom'[d].exists /\ dom'[d].enabled => dom[d].exists /\ dom[d].enabled
                         /\ status'[d].up => status[d].up
  PROVE  Claimable' \subseteq Claimable
BY DEF Claimable

\* Who keeps the wake-up in mind
Mindful(k) == k.at \in {"pull", "wake"} \/ (k.at = "notify" /\ k.up)

\* The invariant in those terms, before and after a step
LEMMA WakeIs ==
  /\ WakeInv <=> (Claimable # {} => sender = "pass" \/ wake > 0 \/ \E p \in Primary : Mindful(chk[p]))
  /\ WakeInv' <=> (Claimable' # {} => sender' = "pass" \/ wake' > 0 \/ \E p \in Primary : Mindful(chk'[p]))
BY DEF WakeInv, Mindful

\* The wake-up is kept in mind by a goroutine of the checker until it is sent.
LEMMA CheckerWakes ==
  ASSUME MonitorBounds, HealthTypes, WakeInv, NEW p \in Primary,
         \/ Probe(p) \/ RoundDone(p) \/ Pull(p) \/ Wake(p) \/ Notify(p)
         \/ \E d \in Domain : Apply(p, d) \/ ApplyFails(p, d)
  PROVE  WakeInv'
<1> USE BoundsAreNumbers
<1>0. chk[p].at \in {"off", "probe", "record", "notify", "pull", "wake"} /\ wake \in Nat /\ \A q \in Primary : chk[q] \in ChkRow
  BY DEF HealthTypes, ChkRow
<1>1. CASE Probe(p) \/ RoundDone(p) \/ \E d \in Domain : ApplyFails(p, d)
  <2>1. Claimable' = Claimable /\ UNCHANGED <<wake, sender>> /\ ~Mindful(chk[p]) /\ \A q \in Primary \ {p} : chk'[q] = chk[q]
    BY <1>1 DEF Probe, RoundDone, ApplyFails, Claimable, Mindful, HealthTypes
  <2> QED
    BY <2>1, WakeIs
<1>2. CASE Pull(p)
  <2>1. Mindful(chk'[p])
    BY <1>0, <1>2 DEF Pull, Mindful, HealthTypes, ChkRow
  <2> QED
    BY <2>1, WakeIs
<1>3. CASE Wake(p)
  <2>1. wake' > 0
    BY <1>0, <1>3 DEF Wake, HealthTypes
  <2> QED
    BY <2>1, WakeIs
<1>4. CASE Notify(p)
  <2>1. CASE chk[p].up
    <3>1. Mindful(chk'[p])
      BY <1>0, <1>4, <2>1 DEF Notify, Mindful, HealthTypes, ChkRow
    <3> QED
      BY <3>1, WakeIs
  <2>2. CASE ~chk[p].up
    <3>1. Claimable' = Claimable /\ UNCHANGED <<wake, sender>> /\ ~Mindful(chk[p]) /\ \A q \in Primary \ {p} : chk'[q] = chk[q]
      BY <1>4, <2>2 DEF Notify, Claimable, Mindful, HealthTypes
    <3> QED
      BY <3>1, WakeIs
  <2> QED
    BY <2>1, <2>2
<1>5. ASSUME NEW d \in Domain, Apply(p, d) PROVE WakeInv'
  <2>1. /\ status' = [status EXCEPT ![d] = RecordProbe(status[d], chk[p].ok)]
        /\ UNCHANGED <<due, dom, wake, sender>> /\ chk[p].at = "record"
        /\ \A q \in Primary \ {p} : chk'[q] = chk[q]
        /\ chk'[p].up = status'[d].up
        /\ chk'[p].at = IF Flipped(status[d], chk[p].ok) THEN "notify" ELSE "record"
    BY <1>0, <1>5 DEF Apply, HealthTypes, ChkRow
  <2>2. status'[d].up = RecordProbe(status[d], chk[p].ok).up
    BY <2>1 DEF HealthTypes
  <2>3. CASE status'[d].up /\ ~status[d].up
    <3>1. Mindful(chk'[p])
      BY <2>1, <2>2, <2>3 DEF Flipped, Mindful
    <3> QED
      BY <3>1, WakeIs
  <2>4. CASE status'[d].up => status[d].up
    <3>1. \A e \in Domain : status'[e].up => status[e].up
      BY <2>1, <2>4 DEF HealthTypes
    <3>2. Claimable' \subseteq Claimable
      BY <2>1, <3>1, NothingNew DEF HealthTypes
    <3>3. ~Mindful(chk[p])
      BY <2>1 DEF Mindful
    <3> QED
      BY <2>1, <3>2, <3>3, WakeIs
  <2> QED
    BY <2>3, <2>4
<1> QED
  BY <1>1, <1>2, <1>3, <1>4, <1>5

\* It is kept in mind by every step.
LEMMA NextWakes == MonitorBounds /\ TypeOK /\ WakeInv /\ [Next]_vars => WakeInv'
<1> SUFFICES ASSUME MonitorBounds, TypeOK, WakeInv, [Next]_vars PROVE WakeInv'
  OBVIOUS
<1>0. HealthTypes
  BY TypesAre
<1>1. CASE UNCHANGED <<due, dom, status, wake, sender, chk>>
  BY <1>1, WakeIs DEF Claimable
<1>2. CASE ResumeFails \/ Run \/ Signal \/ Start \/ \E d \in Domain : ResumeDomain(d)
  BY <1>1, <1>2 DEF ResumeFails, Run, Signal, Start, ResumeDomain, healthVars
<1>3. CASE Stop
  BY <1>3, WakeIs DEF Stop, FreshHealth, Claimable
<1>4. CASE CheckAll
  <2>1. UNCHANGED <<due, dom, status, wake, sender>> /\ \A p \in Primary : chk[p].at = "off"
    BY <1>4 DEF CheckAll
  <2>2. Claimable' = Claimable /\ \A p \in Primary : ~Mindful(chk[p])
    BY <2>1 DEF Claimable, Mindful
  <2> QED
    BY <2>1, <2>2, WakeIs
<1>5. CASE Loop
  <2>1. CASE PassBegins
    BY <2>1, WakeIs DEF PassBegins
  <2>2. CASE PassClaims
    <3>1. CASE Claimable = {}
      <4>1. Claimable' = {}
        BY <2>2, <3>1 DEF PassClaims, Claimable
      <4> QED
        BY <4>1, WakeIs
    <3>2. CASE Claimable # {}
      BY <2>2, <3>2, WakeIs DEF PassClaims
    <3> QED
      BY <3>1, <3>2
  <2>3. CASE PassEnds
    <3>1. Claimable' = Claimable /\ wake' = wake /\ chk' = chk /\ sender # "pass"
      BY <2>3 DEF PassEnds, Claimable
    <3> QED
      BY <3>1, WakeIs
  <2> QED
    BY <1>5, <2>1, <2>2, <2>3 DEF Loop
<1>6. CASE \E p \in Primary : Checker(p) \/ Notify(p)
  BY <1>0, <1>6, CheckerWakes DEF Checker
<1>7. CASE UNCHANGED healthVars
  BY <1>1, <1>7 DEF healthVars
<1>8. CASE \E p \in Primary : Turn(p)
  BY <1>1, <1>8 DEF Turn
<1>9. CASE Admin
  <2>1. ASSUME NEW d \in Domain, NEW p \in Primary, NEW e \in BOOLEAN, UpdateDomain(d, p, e) PROVE WakeInv'
    <3>1. UNCHANGED <<status, chk, wake, sender>>
      BY <2>1 DEF UpdateDomain
    <3>2. Claimable' \subseteq Claimable
      BY <1>0, <2>1 DEF UpdateDomain, Claimable, HealthTypes, DomRow
    <3> QED
      BY <3>1, <3>2, WakeIs
  <2>2. ASSUME NEW d \in Domain, DeleteDomain(d) PROVE WakeInv'
    <3>1. UNCHANGED <<wake, sender>> /\ \A p \in Primary : Mindful(chk'[p]) <=> Mindful(chk[p])
      BY <1>0, <2>2 DEF DeleteDomain, Mindful, HealthTypes, ChkRow
    <3>2. Claimable' \subseteq Claimable
      BY <1>0, <2>2 DEF DeleteDomain, Claimable, HealthTypes, DomRow
    <3> QED
      BY <3>1, <3>2, WakeIs
  <2>3. ASSUME NEW d \in Domain, NEW p \in Primary, CreateDomain(d, p) PROVE WakeInv'
    <3>1. UNCHANGED <<chk, wake, sender>>
      BY <2>3 DEF CreateDomain
    <3>2. ~status'[d].up
      BY <1>0, <2>3 DEF CreateDomain, NewStatus, HealthTypes
    <3>3. Claimable' \subseteq Claimable
      BY <1>0, <2>3, <3>2 DEF CreateDomain, Claimable, HealthTypes
    <3> QED
      BY <3>1, <3>3, WakeIs
  <2> QED
    BY <1>9, <2>1, <2>2, <2>3 DEF Admin
<1> QED
  <2>1. CASE Next
    BY <2>1, <1>2, <1>3, <1>4, <1>5, <1>6, <1>7, <1>8, <1>9 DEF Next, NotifyOther
  <2>2. CASE UNCHANGED vars
    BY <1>7, <2>2 DEF vars
  <2> QED
    BY <2>1, <2>2

-----------------------------------------------------------------------------
(* One alert at a time.                                                    *)

\* What a goroutine of the checker does to itself
LEMMA GoesOn ==
  ASSUME HealthTypes, NEW p \in Primary
  PROVE  /\ Probe(p) => chk[p].at = "probe" /\ chk' = [chk EXCEPT ![p] = chk'[p]]
                        /\ chk'[p].at = "record" /\ chk'[p].ok = (p \in answers) /\ chk'[p].todo = chk[p].todo
         /\ RoundDone(p) => chk[p].at = "record" /\ chk[p].todo = {} /\ chk' = [chk EXCEPT ![p] = chk'[p]] /\ chk'[p] = Off
         /\ Pull(p) => chk[p].at = "pull" /\ chk' = [chk EXCEPT ![p] = chk'[p]]
                       /\ chk'[p].at = "wake" /\ chk'[p].ok = chk[p].ok /\ chk'[p].todo = chk[p].todo
         /\ Wake(p) => chk[p].at = "wake" /\ chk' = [chk EXCEPT ![p] = chk'[p]]
                       /\ chk'[p].at = "record" /\ chk'[p].ok = chk[p].ok /\ chk'[p].todo = chk[p].todo
         /\ Notify(p) => chk[p].at = "notify" /\ chk' = [chk EXCEPT ![p] = chk'[p]]
                         /\ chk'[p].at = (IF chk[p].up THEN "pull" ELSE "record")
                         /\ chk'[p].ok = chk[p].ok /\ chk'[p].todo = chk[p].todo
         /\ \A d \in Domain :
              /\ Apply(p, d) => chk[p].at = "record" /\ d \in chk[p].todo /\ chk' = [chk EXCEPT ![p] = chk'[p]]
                                /\ chk'[p].at = (IF Flipped(status[d], chk[p].ok) THEN "notify" ELSE "record")
                                /\ chk'[p].ok = chk[p].ok /\ chk'[p].todo = chk[p].todo \ {d}
                                /\ chk'[p].cur = d /\ chk'[p].up = status'[d].up
              /\ ApplyFails(p, d) => chk[p].at = "record" /\ d \in chk[p].todo /\ chk' = [chk EXCEPT ![p] = chk'[p]]
                                     /\ chk'[p].at = "record" /\ chk'[p].ok = chk[p].ok
                                     /\ chk'[p].todo = chk[p].todo \ {d} /\ chk'[p].cur = chk[p].cur
<1>0. chk \in [Primary -> ChkRow] /\ chk[p] \in ChkRow
  BY DEF HealthTypes
<1> USE <1>0
<1>1. Probe(p) => chk[p].at = "probe" /\ chk' = [chk EXCEPT ![p] = chk'[p]]
                  /\ chk'[p].at = "record" /\ chk'[p].ok = (p \in answers) /\ chk'[p].todo = chk[p].todo
  <2> DEFINE b == p \in answers
  <2> SUFFICES ASSUME Probe(p)
               PROVE  chk[p].at = "probe" /\ chk' = [chk EXCEPT ![p] = chk'[p]]
                      /\ chk'[p].at = "record" /\ chk'[p].ok = b /\ chk'[p].todo = chk[p].todo
    OBVIOUS
  <2>1. chk[p].at = "probe" /\ chk' = [chk EXCEPT ![p].at = "record", ![p].ok = b]
    BY Zenon DEF Probe
  <2> HIDE DEF b
  <2> QED
    BY <2>1 DEF ChkRow
<1>2. RoundDone(p) => chk[p].at = "record" /\ chk[p].todo = {} /\ chk' = [chk EXCEPT ![p] = chk'[p]] /\ chk'[p] = Off
  BY DEF RoundDone
<1>3. Pull(p) => chk[p].at = "pull" /\ chk' = [chk EXCEPT ![p] = chk'[p]]
                 /\ chk'[p].at = "wake" /\ chk'[p].ok = chk[p].ok /\ chk'[p].todo = chk[p].todo
  BY DEF Pull, ChkRow
<1>4. Wake(p) => chk[p].at = "wake" /\ chk' = [chk EXCEPT ![p] = chk'[p]]
                 /\ chk'[p].at = "record" /\ chk'[p].ok = chk[p].ok /\ chk'[p].todo = chk[p].todo
  BY DEF Wake, ChkRow
<1>5. Notify(p) => chk[p].at = "notify" /\ chk' = [chk EXCEPT ![p] = chk'[p]]
                   /\ chk'[p].at = (IF chk[p].up THEN "pull" ELSE "record")
                   /\ chk'[p].ok = chk[p].ok /\ chk'[p].todo = chk[p].todo
  BY DEF Notify, ChkRow
<1>6. ASSUME NEW d \in Domain, Apply(p, d)
      PROVE  chk[p].at = "record" /\ d \in chk[p].todo /\ chk' = [chk EXCEPT ![p] = chk'[p]]
             /\ chk'[p].at = (IF Flipped(status[d], chk[p].ok) THEN "notify" ELSE "record")
             /\ chk'[p].ok = chk[p].ok /\ chk'[p].todo = chk[p].todo \ {d}
             /\ chk'[p].cur = d /\ chk'[p].up = status'[d].up
  <2> DEFINE a == IF Flipped(status[d], chk[p].ok) THEN "notify" ELSE "record"
             u == status'[d].up
  <2>1. /\ chk[p].at = "record" /\ d \in chk[p].todo
        /\ chk' = [chk EXCEPT ![p].todo = @ \ {d}, ![p].cur = d, ![p].up = u, ![p].at = a]
    BY <1>6, Zenon DEF Apply
  <2> HIDE DEF a, u
  <2>2. chk' = [chk EXCEPT ![p] = chk'[p]]
        /\ chk'[p].at = a /\ chk'[p].ok = chk[p].ok /\ chk'[p].todo = chk[p].todo \ {d}
        /\ chk'[p].cur = d /\ chk'[p].up = u
    BY <2>1 DEF ChkRow
  <2> QED
    BY <2>1, <2>2, Zenon DEF a, u
<1>7. ASSUME NEW d \in Domain, ApplyFails(p, d)
      PROVE  chk[p].at = "record" /\ d \in chk[p].todo /\ chk' = [chk EXCEPT ![p] = chk'[p]]
             /\ chk'[p].at = "record" /\ chk'[p].ok = chk[p].ok
             /\ chk'[p].todo = chk[p].todo \ {d} /\ chk'[p].cur = chk[p].cur
  BY <1>7 DEF ApplyFails, ChkRow
<1> QED
  BY <1>1, <1>2, <1>3, <1>4, <1>5, <1>6, <1>7, Zenon

\* Steps of the alerter that begin an alert begin one for somebody who has none,
\* and the others end one.
LEMMA AlerterEmits ==
  ASSUME MonitorBounds, AlerterTypes, EmitInv, chk' = chk,
         \/ \E t \in Timer : Elapse(t) \/ Fire(t)
         \/ \E a \in Timer \cup Caller : ShouldSend(a) \/ Enqueue(a)
         \/ Deliver \/ \E k \in lastSent : IntervalElapses(k)
         \/ \E d \in Domain, c \in Caller \ Primary : NotifyMail(c, d)
         \/ \E d \in Domain : PrimaryDownSince(d)
         \/ \E d \in Domain, t \in Timer : Unused(t) /\ FireNow(d, t) /\ emit' = emit
         \/ StopTimers
  PROVE  EmitInv'
<1> USE Beginnings, BoundsAreNumbers
<1>0. \A a \in Timer \cup Caller : emit[a] \in EmitRow
  BY DEF AlerterTypes
<1>1. ASSUME NEW t \in Timer, Elapse(t) PROVE EmitInv'
  BY <1>1 DEF Elapse, EmitInv, AlerterTypes
<1>2. ASSUME NEW t \in Timer, Fire(t) PROVE EmitInv'
  <2>1. emit' = [emit EXCEPT ![t] = emit'[t]] /\ timer' = [timer EXCEPT ![t] = Rest]
    BY <1>2 DEF Fire, Emitting, AlerterTypes
  <2> QED
    BY <2>1 DEF EmitInv, AlerterTypes
<1>3. ASSUME NEW a \in Timer \cup Caller, ShouldSend(a) \/ Enqueue(a) PROVE EmitInv'
  <2>1. emit' = [emit EXCEPT ![a] = emit'[a]] /\ emit[a].at # "idle" /\ timer' = timer
    BY <1>3 DEF ShouldSend, Enqueue, AlerterTypes
  <2> QED
    BY <2>1 DEF EmitInv, AlerterTypes
<1>4. CASE Deliver \/ \E k \in lastSent : IntervalElapses(k)
  BY <1>4 DEF Deliver, IntervalElapses, EmitInv
<1>5. ASSUME NEW d \in Domain, NEW c \in Caller \ Primary, NotifyMail(c, d) PROVE EmitInv'
  <2>1. emit' = [emit EXCEPT ![c] = emit'[c]] /\ timer' = timer
    BY <1>5 DEF NotifyMail, Emitting, AlerterTypes
  <2> QED
    BY <2>1 DEF EmitInv, AlerterTypes
<1>6. ASSUME NEW d \in Domain, PrimaryDownSince(d) PROVE EmitInv'
  BY <1>6 DEF PrimaryDownSince, Arm, Unused, EmitInv, AlerterTypes
<1>7. ASSUME NEW d \in Domain, NEW t \in Timer, Unused(t), FireNow(d, t), emit' = emit PROVE EmitInv'
  BY <1>7 DEF FireNow, Unused, EmitInv, AlerterTypes
<1>8. CASE StopTimers
  BY <1>8 DEF StopTimers, EmitInv, AlerterTypes
<1> QED
  BY <1>1, <1>2, <1>3, <1>4, <1>5, <1>6, <1>7, <1>8

\* So does every step.
LEMMA NextEmits == MonitorBounds /\ TypeOK /\ EmitInv /\ [Next]_vars => EmitInv'
<1> SUFFICES ASSUME MonitorBounds, TypeOK, EmitInv, [Next]_vars PROVE EmitInv'
  OBVIOUS
<1> USE Beginnings, BoundsAreNumbers
<1>0. AlerterTypes /\ HealthTypes
  BY TypesAre
<1>1. CASE UNCHANGED <<timer, emit, chk>>
  BY <1>1 DEF EmitInv
<1>2. CASE ResumeFails \/ Run \/ Start
  BY <1>1, <1>2 DEF ResumeFails, Run, Start, healthVars, alertVars
<1>3. CASE Signal
  BY <1>0, <1>3, AlerterEmits DEF Signal, healthVars
<1>4. CASE Stop
  BY <1>4 DEF Stop, Fresh, FreshHealth, EmitInv
<1>5. ASSUME NEW d \in Domain, ResumeDomain(d) PROVE EmitInv'
  <2>1. chk' = chk
    BY <1>5 DEF ResumeDomain, healthVars
  <2>2. CASE PrimaryDownSince(d)
    BY <1>0, <2>1, <2>2, AlerterEmits
  <2>3. CASE \E t \in Timer : Unused(t) /\ FireNow(d, t) /\ emit' = emit
    BY <1>0, <2>1, <2>3, AlerterEmits
  <2>4. CASE UNCHANGED alertVars
    BY <1>1, <2>1, <2>4 DEF alertVars
  <2> QED
    BY <1>5, <2>2, <2>3, <2>4 DEF ResumeDomain
<1>6. CASE CheckAll /\ UNCHANGED alertVars
  BY <1>6 DEF CheckAll, alertVars, EmitInv
<1>7. ASSUME NEW p \in Primary, Checker(p) PROVE EmitInv'
  <2>1. UNCHANGED <<timer, emit>>
    BY <1>7 DEF Checker, alertVars
  <2>2. chk' = [chk EXCEPT ![p] = chk'[p]] /\ (emit[p].at = "idle" \/ chk[p].at # "pull")
    BY <1>0, <1>7, GoesOn DEF Checker, Pull
  <2> QED
    BY <1>0, <2>1, <2>2 DEF EmitInv, HealthTypes
<1>8. ASSUME NEW p \in Primary, Notify(p) PROVE EmitInv'
  <2>1. /\ chk[p].at = "notify" /\ chk' = [chk EXCEPT ![p] = chk'[p]]
        /\ chk'[p].at = (IF chk[p].up THEN "pull" ELSE "record")
    BY <1>0, <1>8, GoesOn
  <2>2. emit[p].at = "idle" /\ p \in Timer \cup Caller /\ p \notin Timer /\ chk[p].cur \in Domain
    BY <1>0, <2>1 DEF EmitInv, HealthTypes, ChkRow
  <2>3. CASE UNCHANGED alertVars
    BY <1>0, <2>1, <2>2, <2>3 DEF EmitInv, alertVars, HealthTypes
  <2>4. CASE chk[p].up /\ PrimaryUp(p, chk[p].cur)
    <3>1. emit' = [emit EXCEPT ![p] = emit'[p]] /\ \A t \in Timer : timer'[t].at # "idle" => timer'[t] = timer[t]
      BY <1>0, <2>2, <2>4 DEF PrimaryUp, Emitting, AlerterTypes
    <3>2. \A t \in Timer : timer'[t].at # "idle" => emit'[t].at = "idle"
      <4>1. \A t \in Timer : emit'[t] = emit[t]
        BY <1>0, <2>2, <3>1 DEF AlerterTypes
      <4> QED
        BY <3>1, <4>1 DEF EmitInv
    <3>3. \A q \in Primary : emit'[q].at # "idle" => chk'[q].at = "pull"
      <4> TAKE q \in Primary
      <4>1. q # p => chk'[q] = chk[q] /\ emit'[q] = emit[q]
        BY <1>0, <2>1, <3>1 DEF HealthTypes, AlerterTypes
      <4> QED
        BY <2>1, <2>4, <4>1 DEF EmitInv
    <3> QED
      BY <3>2, <3>3 DEF EmitInv
  <2>5. CASE PrimaryDownSince(chk[p].cur)
    <3>1. emit' = emit /\ \A t \in Timer : timer'[t].at # "idle" => timer[t].at # "idle" \/ emit[t].at = "idle"
      BY <1>0, <2>5 DEF PrimaryDownSince, Arm, Unused, AlerterTypes
    <3>2. \A t \in Timer : timer'[t].at # "idle" => emit'[t].at = "idle"
      BY <3>1 DEF EmitInv
    <3>3. \A q \in Primary : emit'[q].at # "idle" => chk'[q].at = "pull"
      <4> TAKE q \in Primary
      <4>1. q # p => chk'[q] = chk[q]
        BY <1>0, <2>1 DEF HealthTypes
      <4> QED
        BY <2>2, <3>1, <4>1 DEF EmitInv
    <3> QED
      BY <3>2, <3>3 DEF EmitInv
  <2> QED
    BY <1>8, <2>3, <2>4, <2>5 DEF Notify
<1>9. CASE /\ UNCHANGED <<healthVars, procVars>>
           /\ \/ \E t \in Timer : Elapse(t) \/ Fire(t)
              \/ \E a \in Timer \cup Caller : ShouldSend(a) \/ Enqueue(a)
              \/ Deliver \/ \E k \in lastSent : IntervalElapses(k)
  <2>1. chk' = chk
    BY <1>9 DEF healthVars
  <2> QED
    BY <1>0, <1>9, <2>1, AlerterEmits
<1>10. ASSUME NEW c \in Caller \ Primary, NEW d \in Domain, NotifyOther(c, d) PROVE EmitInv'
  <2>1. chk' = chk /\ NotifyMail(c, d)
    BY <1>10 DEF NotifyOther, healthVars
  <2> QED
    BY <1>0, <2>1, AlerterEmits
<1>11. CASE UNCHANGED alertVars /\ (Loop \/ \E p \in Primary : Turn(p))
  BY <1>1, <1>11 DEF Loop, PassBegins, PassClaims, PassEnds, Turn, alertVars
<1>12. CASE UNCHANGED alertVars /\ Admin
  <2>1. \A p \in Primary : chk'[p].at = chk[p].at
    <3>1. ASSUME NEW d \in Domain, DeleteDomain(d) PROVE \A p \in Primary : chk'[p].at = chk[p].at
      BY <1>0, <3>1 DEF DeleteDomain, HealthTypes, ChkRow
    <3>2. CASE chk' = chk
      BY <3>2
    <3> QED
      BY <1>12, <3>1, <3>2 DEF Admin, UpdateDomain, CreateDomain
  <2> QED
    BY <1>12, <2>1 DEF alertVars, EmitInv
<1>13. CASE UNCHANGED vars
  BY <1>1, <1>13 DEF vars, alertVars, healthVars
<1> QED
  <2>1. CASE Next
    BY <2>1, <1>2, <1>3, <1>4, <1>5, <1>6, <1>7, <1>8, <1>9, <1>10, <1>11, <1>12 DEF Next
  <2> QED
    BY <2>1, <1>13

-----------------------------------------------------------------------------
(* Rounds.                                                                 *)

\* A step that gives no goroutine a domain more keeps rounds what they are.
LEMMA RoundsKept ==
  ASSUME RoundInv,
         \A p \in Primary : chk'[p].todo \subseteq chk[p].todo /\ (chk'[p].at = "off" => chk'[p].todo = {}),
         \A p \in Primary : \A d \in chk'[p].todo : dom'[d].exists,
         \A d \in Domain : ~dom'[d].exists => status'[d] = NewStatus,
         phase' = "dead" => stops' > 0,
         phase' = "resume" /\ stops' = 0 => \A d \in Domain : status'[d] = NewStatus
  PROVE  RoundInv'
BY DEF RoundInv

\* A goroutine of the checker has domains less and less.
LEMMA CheckerRounds ==
  ASSUME MonitorBounds, HealthTypes, RoundInv, phase \notin {"dead", "resume"}, phase' = phase, NEW p \in Primary,
         \/ Probe(p) \/ RoundDone(p) \/ Pull(p) \/ Wake(p) \/ Notify(p)
         \/ \E d \in Domain : Apply(p, d) \/ ApplyFails(p, d)
  PROVE  RoundInv'
<1>1. /\ chk' = [chk EXCEPT ![p] = chk'[p]] /\ chk'[p].todo \subseteq chk[p].todo
      /\ chk'[p].at = "off" => chk'[p].todo = {}
  <2>1. Off.todo = {}
    BY DEF Off
  <2> QED
    BY <2>1, GoesOn
<1>2. \A q \in Primary : chk'[q].todo \subseteq chk[q].todo /\ (chk'[q].at = "off" => chk'[q].todo = {})
  <2> TAKE q \in Primary
  <2>1. q # p => chk'[q] = chk[q]
    BY <1>1 DEF HealthTypes
  <2> QED
    BY <1>1, <2>1 DEF RoundInv
<1>3. dom' = dom /\ \A d \in Domain : ~dom[d].exists => status'[d] = status[d]
  <2>1. ASSUME NEW d \in Domain, Apply(p, d) PROVE dom' = dom /\ \A e \in Domain : ~dom[e].exists => status'[e] = status[e]
    <3>1. dom' = dom /\ d \in chk[p].todo /\ \A e \in Domain \ {d} : status'[e] = status[e]
      BY <2>1, Zenon DEF Apply, HealthTypes
    <3>2. dom[d].exists
      BY <3>1 DEF RoundInv
    <3> QED
      BY <3>1, <3>2
  <2>2. CASE UNCHANGED <<dom, status>>
    BY <2>2
  <2> QED
    BY <2>1, <2>2 DEF Probe, RoundDone, Pull, Wake, Notify, ApplyFails
<1>4. \A q \in Primary : \A d \in chk'[q].todo : dom'[d].exists
  BY <1>2, <1>3 DEF RoundInv
<1>5. \A d \in Domain : ~dom'[d].exists => status'[d] = NewStatus
  BY <1>3 DEF RoundInv
<1> QED
  BY <1>2, <1>4, <1>5, RoundsKept

\* Administrators leave no goroutine with a domain that does not exist.
LEMMA AdminRounds ==
  ASSUME MonitorBounds, HealthTypes, RoundInv, phase = "run", phase' = phase, Admin
  PROVE  RoundInv'
<1>1. ASSUME NEW d \in Domain, NEW p \in Primary, NEW e \in BOOLEAN, UpdateDomain(d, p, e) PROVE RoundInv'
  <2>1. chk' = chk /\ status' = status /\ \A x \in Domain : dom'[x].exists = dom[x].exists
    BY <1>1 DEF UpdateDomain, HealthTypes, DomRow
  <2>2. \A q \in Primary : chk[q].todo \subseteq Domain
    BY DEF HealthTypes, ChkRow
  <2> QED
    BY <2>1, <2>2, RoundsKept DEF RoundInv
<1>2. ASSUME NEW d \in Domain, DeleteDomain(d) PROVE RoundInv'
  <2>1. \A q \in Primary : chk'[q].at = chk[q].at /\ chk'[q].todo = chk[q].todo \ {d} /\ chk[q].todo \subseteq Domain
    BY <1>2 DEF DeleteDomain, HealthTypes, ChkRow
  <2>2. status'[d] = NewStatus /\ \A x \in Domain \ {d} : dom'[x] = dom[x] /\ status'[x] = status[x]
    BY <1>2 DEF DeleteDomain, HealthTypes
  <2>3. \A q \in Primary : \A x \in chk'[q].todo : dom'[x].exists
    BY <2>1, <2>2 DEF RoundInv
  <2>4. \A x \in Domain : ~dom'[x].exists => status'[x] = NewStatus
    BY <2>2 DEF RoundInv
  <2>5. \A q \in Primary : chk'[q].todo \subseteq chk[q].todo /\ (chk'[q].at = "off" => chk'[q].todo = {})
    BY <2>1 DEF RoundInv
  <2> QED
    BY <2>3, <2>4, <2>5, RoundsKept
<1>3. ASSUME NEW d \in Domain, NEW p \in Primary, CreateDomain(d, p) PROVE RoundInv'
  <2>1. /\ chk' = chk /\ status'[d] = NewStatus /\ dom'[d].exists
        /\ \A x \in Domain \ {d} : dom'[x] = dom[x] /\ status'[x] = status[x]
    BY <1>3 DEF CreateDomain, HealthTypes
  <2>2. \A q \in Primary : chk[q].todo \subseteq Domain
    BY DEF HealthTypes, ChkRow
  <2> QED
    BY <2>1, <2>2, RoundsKept DEF RoundInv
<1> QED
  BY <1>1, <1>2, <1>3 DEF Admin

\* Rounds stay what they are in every step.
LEMMA NextRounds == MonitorBounds /\ TypeOK /\ RoundInv /\ [Next]_vars => RoundInv'
<1> SUFFICES ASSUME MonitorBounds, TypeOK, RoundInv, [Next]_vars PROVE RoundInv'
  OBVIOUS
<1>0. HealthTypes /\ ProcessTypes
  BY TypesAre
<1>1. CASE UNCHANGED <<dom, status, chk, phase, stops>>
  BY <1>1 DEF RoundInv
<1>2. CASE ResumeFails \/ \E d \in Domain : ResumeDomain(d)
  BY <1>1, <1>2 DEF ResumeFails, ResumeDomain, healthVars
<1>3. CASE Run \/ Signal
  <2>1. UNCHANGED <<dom, status, chk>> /\ phase' \notin {"dead", "resume"}
    BY <1>3 DEF Run, Signal, healthVars
  <2> QED
    BY <2>1 DEF RoundInv
<1>4. CASE Stop
  <2>1. chk' = [p \in Primary |-> Off] /\ UNCHANGED <<dom, status>> /\ phase' = "dead" /\ stops' > 0
    BY <1>0, <1>4, BoundsAreNumbers DEF Stop, FreshHealth, ProcessTypes
  <2>2. Off.todo = {}
    BY DEF Off
  <2> QED
    BY <2>1, <2>2, RoundsKept DEF RoundInv
<1>5. CASE Start
  <2>1. UNCHANGED <<dom, status, chk, stops>> /\ phase = "dead" /\ phase' = "resume"
    BY <1>5 DEF Start, healthVars
  <2>2. stops > 0
    BY <2>1 DEF RoundInv
  <2> QED
    BY <1>0, <2>1, <2>2, BoundsAreNumbers DEF RoundInv, ProcessTypes
<1>6. CASE phase = "run" /\ CheckAll /\ UNCHANGED procVars
  <2>1. \A p \in Primary : chk'[p] = IF Sharing(p) = {} THEN Off ELSE [Off EXCEPT !.at = "probe", !.todo = Sharing(p)]
    BY <1>6 DEF CheckAll
  <2>2. \A p \in Primary : chk'[p].todo = Sharing(p) /\ (chk'[p].at = "off" => chk'[p].todo = {})
    <3> TAKE p \in Primary
    <3>1. Off.todo = {} /\ Off.at = "off"
      BY DEF Off
    <3>2. [Off EXCEPT !.at = "probe", !.todo = Sharing(p)].todo = Sharing(p)
          /\ [Off EXCEPT !.at = "probe", !.todo = Sharing(p)].at = "probe"
      BY DEF Off
    <3> QED
      BY <2>1, <3>1, <3>2
  <2>3. UNCHANGED <<dom, status>> /\ phase' = "run"
    BY <1>6 DEF CheckAll, procVars
  <2> QED
    BY <2>2, <2>3 DEF RoundInv, Sharing
<1>7. ASSUME NEW p \in Primary, phase \in {"run", "stopping"}, Checker(p) \/ Notify(p), UNCHANGED procVars PROVE RoundInv'
  BY <1>0, <1>7, CheckerRounds DEF Checker, procVars
<1>8. CASE phase = "run" /\ Admin /\ UNCHANGED procVars
  BY <1>0, <1>8, AdminRounds DEF procVars
<1>9. CASE UNCHANGED procVars /\ (Loop \/ \E p \in Primary : Turn(p))
  BY <1>1, <1>9 DEF Loop, PassBegins, PassClaims, PassEnds, Turn, procVars
<1>10. CASE UNCHANGED <<healthVars, phase, stops>>
  BY <1>1, <1>10 DEF healthVars
<1> QED
  <2>1. CASE Next
    BY <2>1, <1>2, <1>3, <1>4, <1>5, <1>6, <1>7, <1>8, <1>9, <1>10 DEF Next, NotifyOther, procVars
  <2>2. CASE UNCHANGED vars
    BY <1>10, <2>2 DEF vars
  <2> QED
    BY <2>1, <2>2

-----------------------------------------------------------------------------
(* What is told.                                                           *)

\* How often something is told is a number.
LEMMA CountsTyped ==
  ASSUME MonitorBounds, AlerterTypes, NEW kind, NEW d \in Domain
  PROVE  /\ Of(heard[d], kind) \in Nat /\ Of(outbox, <<kind, d>>) \in Nat /\ On(emit, <<kind, d>>) \in Nat
         /\ Count(kind, d) \in Nat
<1>1. heard[d] \in Seq(News) /\ outbox \in Seq(Key)
  BY DEF AlerterTypes
<1>2. Of(heard[d], kind) \in Nat /\ Of(outbox, <<kind, d>>) \in Nat
  BY <1>1, PlacesAreFinite
<1>3. On(emit, <<kind, d>>) \in Nat
  BY UnderIsFinite
<1> QED
  BY <1>2, <1>3, CountIs

\* Nothing is told where no alert begins, goes on or is delivered.
LEMMA CountsStay ==
  ASSUME UNCHANGED <<heard, outbox, emit>>
  PROVE  \A kind, d : Count(kind, d)' = Count(kind, d)
BY CountIs

\* An alert that begins is told once more.
LEMMA OneMore ==
  ASSUME MonitorBounds, AlerterTypes, NEW a \in Timer \cup Caller, NEW kind, NEW d,
         emit[a].at = "idle", Emitting(a, <<kind, d>>), UNCHANGED <<heard, outbox>>,
         NEW other, NEW e \in Domain
  PROVE  Count(other, e)' = Count(other, e) + Bit(other = kind /\ e = d)
<1> DEFINE k == <<other, e>>
<1>0. \A b \in (Timer \cup Caller) \ {a} : emit'[b] = emit[b]
  BY DEF Emitting, AlerterTypes
<1>1. emit'[a] = [at |-> "throttle", key |-> <<kind, d>>]
  BY DEF Emitting, AlerterTypes
<1>2. On(emit', k) + Bit(emit[a].at # "idle" /\ emit[a].key = k) = On(emit, k) + Bit(emit'[a].at # "idle" /\ emit'[a].key = k)
  <2> HIDE DEF k
  <2> QED
    BY <1>0, OneOnItsWay
<1>3. emit'[a].at # "idle" /\ (emit'[a].key = k <=> other = kind /\ e = d)
  BY <1>1
<1>4. Bit(emit[a].at # "idle" /\ emit[a].key = k) = 0
  BY DEF Bit
<1>5. Bit(emit'[a].at # "idle" /\ emit'[a].key = k) = Bit(other = kind /\ e = d)
  BY <1>3 DEF Bit
<1>6. On(emit, k) \in Nat /\ On(emit', k) \in Nat
  BY UnderIsFinite
<1>7. On(emit', k) = On(emit, k) + Bit(other = kind /\ e = d)
  BY <1>2, <1>4, <1>5, <1>6 DEF Bit
<1>8. Of(heard[e], other) \in Nat /\ Of(outbox, k) \in Nat
  BY CountsTyped
<1> HIDE DEF k
<1> QED
  BY <1>6, <1>7, <1>8, CountIs DEF Bit, k

\* An alert that goes on is told as often as before, unless it gets no further.
LEMMA AlertsGoOn ==
  ASSUME MonitorBounds, AlerterTypes, NEW a \in Timer \cup Caller, ShouldSend(a) \/ Enqueue(a), NEW kind, NEW d \in Domain
  PROVE  /\ Count(kind, d)' <= Count(kind, d)
         /\ kind = "primary_down" => d \in unheard' \/ Count(kind, d)' = Count(kind, d)
         /\ unheard \subseteq unheard'
<1> DEFINE k == <<kind, d>>
           was == Bit(emit[a].at # "idle" /\ emit[a].key = k)
           now == Bit(emit'[a].at # "idle" /\ emit'[a].key = k)
           room == Bit(emit[a].key = k)
<1>0. /\ emit[a] \in EmitRow /\ emit[a].key \in Key /\ emit[a].at # "idle" /\ Idle.at = "idle"
      /\ \A b \in (Timer \cup Caller) \ {a} : emit'[b] = emit[b]
      /\ heard' = heard /\ was = room
  BY Beginnings DEF ShouldSend, Enqueue, AlerterTypes, EmitRow
<1>1. On(emit', k) + was = On(emit, k) + now
  <2> HIDE DEF k
  <2> QED
    BY <1>0, OneOnItsWay
<1>2. Of(heard[d], kind) \in Nat /\ Of(outbox, k) \in Nat /\ On(emit, k) \in Nat /\ On(emit', k) \in Nat
  BY CountsTyped, UnderIsFinite
<1>3. was \in 0..1 /\ now \in 0..1
  BY DEF Bit
<1>4. Count(kind, d) = Of(heard[d], kind) + Of(outbox, k) + On(emit, k)
      /\ Count(kind, d)' = Of(heard[d], kind) + Of(outbox', k) + On(emit', k)
  BY <1>0, CountIs
<1>5. Unheard(emit[a].key) => unheard \subseteq unheard' /\ (kind = "primary_down" /\ was = 1 => d \in unheard')
  BY <1>0 DEF Unheard, Bit
<1>6. CASE ShouldSend(a)
  <2>1. CASE emit[a].key \in lastSent
    <3>1. emit'[a] = Idle /\ outbox' = outbox /\ Unheard(emit[a].key)
      BY <1>6, <2>1 DEF ShouldSend, AlerterTypes
    <3>2. now = 0
      BY <1>0, <3>1 DEF Bit
    <3> HIDE DEF was, now, k
    <3> QED
      BY <1>1, <1>2, <1>3, <1>4, <1>5, <3>1, <3>2
  <2>2. CASE emit[a].key \notin lastSent
    <3>1. emit'[a].at = "send" /\ emit'[a].key = emit[a].key /\ outbox' = outbox /\ unheard' = unheard
      BY <1>0, <1>6, <2>2 DEF ShouldSend, AlerterTypes, EmitRow
    <3>2. now = was
      BY <1>0, <3>1 DEF Bit
    <3> HIDE DEF was, now, k
    <3> QED
      BY <1>1, <1>2, <1>3, <1>4, <3>1, <3>2
  <2> QED
    BY <2>1, <2>2
<1>7. CASE Enqueue(a)
  <2>1. emit'[a] = Idle
    BY <1>7 DEF Enqueue, AlerterTypes
  <2>2. now = 0
    BY <1>0, <2>1 DEF Bit
  <2>3. CASE outbox' = Append(outbox, emit[a].key) /\ UNCHANGED unheard
    <3>1. outbox \in Seq(Key)
      BY DEF AlerterTypes
    <3>2. Of(outbox', k) = Of(outbox, k) + was
      BY <1>0, <2>3, <3>1, OneAppended
    <3> HIDE DEF was, now, k
    <3> QED
      BY <1>1, <1>2, <1>3, <1>4, <2>2, <2>3, <3>2
  <2>4. CASE Unheard(emit[a].key) /\ UNCHANGED outbox
    <3> HIDE DEF was, now, k
    <3> QED
      BY <1>1, <1>2, <1>3, <1>4, <1>5, <2>2, <2>4
  <2> QED
    BY <1>7, <2>3, <2>4 DEF Enqueue
<1> QED
  BY <1>6, <1>7

\* An alert that is delivered was told before.
LEMMA DeliverCounts ==
  ASSUME MonitorBounds, AlerterTypes, Deliver, NEW kind \in News, NEW d \in Domain
  PROVE  Count(kind, d)' = Count(kind, d)
<1> DEFINE k == Head(outbox)
           b == Bit(k = <<kind, d>>)
<1>1. outbox \in Seq(Key) /\ outbox # << >> /\ outbox' = Tail(outbox) /\ k \in Key /\ emit' = emit
  BY DEF Deliver, AlerterTypes
<1>2. k[1] \in News \cup {"mail"} /\ k[2] \in Domain /\ k = <<k[1], k[2]>>
  BY <1>1 DEF Key
<1>3. Of(outbox', <<kind, d>>) + b = Of(outbox, <<kind, d>>)
  BY <1>1, OneTaken
<1>4. Of(heard'[d], kind) = Of(heard[d], kind) + b
  <2>1. heard \in [Domain -> Seq(News)]
    BY DEF AlerterTypes
  <2>2. CASE k[1] \in News /\ k[2] = d
    <3>1. heard'[d] = Append(heard[d], k[1])
      BY <2>1, <2>2 DEF Deliver
    <3>2. Of(Append(heard[d], k[1]), kind) = Of(heard[d], kind) + Bit(k[1] = kind)
      BY <2>1, <2>2, OneAppended
    <3>3. k = <<kind, d>> <=> k[1] = kind
      BY <1>2, <2>2
    <3>4. Bit(k[1] = kind) = b
      BY <3>3 DEF Bit
    <3> QED
      BY <3>1, <3>2, <3>4
  <2>3. CASE ~(k[1] \in News /\ k[2] = d)
    <3>1. heard'[d] = heard[d]
      BY <2>1, <2>3 DEF Deliver
    <3>2. b = 0
      BY <2>3 DEF Bit
    <3>3. Of(heard[d], kind) \in Nat
      BY CountsTyped
    <3> QED
      BY <3>1, <3>2, <3>3
  <2> QED
    BY <2>2, <2>3
<1>5. b \in 0..1 /\ Of(heard[d], kind) \in Nat /\ On(emit, <<kind, d>>) \in Nat /\ Of(outbox, <<kind, d>>) \in Nat
  BY CountsTyped DEF Bit
<1>6. Of(outbox', <<kind, d>>) \in Nat
  <2>1. Tail(outbox) \in Seq(Key)
    BY <1>1
  <2> QED
    BY <1>1, <2>1, PlacesAreFinite
<1>7. /\ Count(kind, d) = Of(heard[d], kind) + Of(outbox, <<kind, d>>) + On(emit, <<kind, d>>)
      /\ Count(kind, d)' = Of(heard'[d], kind) + Of(outbox', <<kind, d>>) + On(emit, <<kind, d>>)
  BY <1>1, CountIs
<1> HIDE DEF b, k
<1> QED
  BY <1>3, <1>4, <1>5, <1>6, <1>7

\* What is lost with the process was told, and is told no more.
LEMMA FreshCounts ==
  ASSUME MonitorBounds, AlerterTypes, Fresh, NEW kind, NEW d \in Domain
  PROVE  /\ Count(kind, d)' <= Count(kind, d)
         /\ kind = "primary_down" => d \in unheard' \/ Count(kind, d)' = Count(kind, d)
         /\ unheard \subseteq unheard'
<1> DEFINE k == <<kind, d>>
<1>1. heard' = heard /\ outbox' = << >> /\ \A a \in Timer \cup Caller : emit'[a].at = "idle"
  BY Beginnings DEF Fresh
<1>2. Places(outbox', k) = {} /\ Under(emit', k) = {}
  BY <1>1 DEF Places, Under
<1>3. Of(outbox', k) = 0 /\ On(emit', k) = 0
  BY <1>2, FS_EmptySet DEF Of, On
<1>4. Of(heard[d], kind) \in Nat /\ Of(outbox, k) \in Nat /\ On(emit, k) \in Nat
  BY CountsTyped
<1>5. ~Undelivered(d) /\ kind = "primary_down" => Of(outbox, k) = 0 /\ On(emit, k) = 0
  <2>1. ~Undelivered(d) /\ kind = "primary_down" => Places(outbox, k) = {} /\ Under(emit, k) = {}
    BY DEF Undelivered, Places, Under
  <2> QED
    BY <2>1, FS_EmptySet DEF Of, On
<1>6. Undelivered(d) => d \in unheard'
  BY DEF Fresh
<1>7. unheard \subseteq unheard'
  BY DEF Fresh
<1> HIDE DEF k
<1> QED
  BY <1>1, <1>3, <1>4, <1>5, <1>6, <1>7, CountIs DEF k

\* How often something is told after a step is a number, too.
LEMMA CountsTypedNext ==
  ASSUME MonitorBounds, AlerterTypes', NEW kind, NEW d \in Domain
  PROVE  Count(kind, d)' \in Nat
<1>1. heard'[d] \in Seq(News) /\ outbox' \in Seq(Key)
  BY DEF AlerterTypes
<1>2. Of(heard'[d], kind) \in Nat /\ Of(outbox', <<kind, d>>) \in Nat
  BY <1>1, PlacesAreFinite
<1>3. On(emit', <<kind, d>>) \in Nat
  BY UnderIsFinite
<1> QED
  BY <1>2, <1>3, CountIs

-----------------------------------------------------------------------------
(* Recoveries.                                                             *)

\* A step that tells no more of recoveries, or takes an outage back for it
LEMMA RecoveryKept ==
  ASSUME MonitorBounds, AlerterTypes, AlerterTypes', RecoveryInv, unheard \subseteq unheard',
         \A d \in Domain \ unheard' : /\ Count("primary_up", d)' + Bit(d \in fired') <= Count("primary_up", d) + Bit(d \in fired)
                                      /\ Count("primary_down", d)' = Count("primary_down", d)
  PROVE  RecoveryInv'
<1> SUFFICES ASSUME NEW d \in Domain \ unheard'
             PROVE  Count("primary_up", d)' + Bit(d \in fired') <= Count("primary_down", d)'
  BY DEF RecoveryInv
<1>1. /\ Count("primary_up", d) \in Nat /\ Count("primary_down", d) \in Nat
      /\ Count("primary_up", d)' \in Nat /\ Count("primary_down", d)' \in Nat
  BY CountsTyped, CountsTypedNext
<1>2. Bit(d \in fired) \in Nat /\ Bit(d \in fired') \in Nat
  BY DEF Bit
<1>3. Count("primary_up", d) + Bit(d \in fired) <= Count("primary_down", d)
  BY DEF RecoveryInv
<1>4. Count("primary_up", d)' + Bit(d \in fired') <= Count("primary_up", d) + Bit(d \in fired)
      /\ Count("primary_down", d)' = Count("primary_down", d)
  OBVIOUS
<1> QED
  BY <1>1, <1>2, <1>3, <1>4

\* A timer that fires announces the outage it marks.
LEMMA FireRecovers ==
  ASSUME MonitorBounds, AlerterTypes, AlerterTypes', EmitInv, RecoveryInv, NEW t \in Timer, Fire(t)
  PROVE  RecoveryInv'
<1> SUFFICES ASSUME NEW d \in Domain \ unheard'
             PROVE  Count("primary_up", d)' + Bit(d \in fired') <= Count("primary_down", d)'
  BY DEF RecoveryInv
<1> DEFINE b == Bit(d = timer[t].dom)
<1>1. /\ emit[t].at = "idle" /\ unheard' = unheard /\ fired' = fired \cup {timer[t].dom}
      /\ Emitting(t, <<"primary_down", timer[t].dom>>) /\ UNCHANGED <<heard, outbox>>
  BY DEF EmitInv, Fire
<1>2. /\ Count("primary_up", d)' = Count("primary_up", d)
      /\ Count("primary_down", d)' = Count("primary_down", d) + b
  <2>1. \A kind : Count(kind, d)' = Count(kind, d) + Bit(kind = "primary_down" /\ d = timer[t].dom)
    BY <1>1, OneMore
  <2>2. Bit("primary_up" = "primary_down" /\ d = timer[t].dom) = 0 /\ Bit("primary_down" = "primary_down" /\ d = timer[t].dom) = b
    BY DEF Bit
  <2>3. Count("primary_up", d) \in Nat
    BY CountsTyped
  <2> QED
    BY <2>1, <2>2, <2>3
<1>3. Bit(d \in fired') <= Bit(d \in fired) + b /\ Bit(d \in fired') \in 0..1 /\ Bit(d \in fired) \in 0..1 /\ b \in 0..1
  BY <1>1 DEF Bit
<1>4. Count("primary_up", d) + Bit(d \in fired) <= Count("primary_down", d)
  BY <1>1 DEF RecoveryInv
<1>5. Count("primary_up", d) \in Nat /\ Count("primary_down", d) \in Nat
  BY CountsTyped
<1> HIDE DEF b
<1> QED
  BY <1>2, <1>3, <1>4, <1>5

\* A recovery is announced where the mark of its outage is taken back.
LEMMA UpRecovers ==
  ASSUME MonitorBounds, AlerterTypes, AlerterTypes', RecoveryInv, NEW c \in Caller, NEW u \in Domain,
         emit[c].at = "idle", PrimaryUp(c, u)
  PROVE  RecoveryInv'
<1>1. unheard' = unheard /\ fired' = fired \ {u} /\ UNCHANGED <<heard, outbox>>
  BY DEF PrimaryUp
<1>2. ASSUME NEW d \in Domain
      PROVE  /\ Count("primary_up", d)' + Bit(d \in fired') <= Count("primary_up", d) + Bit(d \in fired)
             /\ Count("primary_down", d)' = Count("primary_down", d)
  <2>1. Count("primary_up", d) \in Nat /\ Count("primary_down", d) \in Nat
    BY CountsTyped
  <2>2. CASE u \in fired
    <3>1. Emitting(c, <<"primary_up", u>>)
      BY <2>2 DEF PrimaryUp
    <3>2. \A kind : Count(kind, d)' = Count(kind, d) + Bit(kind = "primary_up" /\ d = u)
      BY <1>1, <3>1, OneMore
    <3>3. Bit("primary_down" = "primary_up" /\ d = u) = 0 /\ Bit("primary_up" = "primary_up" /\ d = u) = Bit(d = u)
      BY DEF Bit
    <3>4. Bit(d = u) + Bit(d \in fired') = Bit(d \in fired) /\ Bit(d = u) \in 0..1 /\ Bit(d \in fired') \in 0..1
      BY <1>1, <2>2 DEF Bit
    <3> QED
      BY <2>1, <3>2, <3>3, <3>4
  <2>3. CASE u \notin fired
    <3>1. emit' = emit
      BY <2>3 DEF PrimaryUp
    <3>2. fired' = fired
      BY <1>1, <2>3
    <3>3. \A kind : Count(kind, d)' = Count(kind, d)
      BY <1>1, <3>1, CountsStay
    <3>4. Bit(d \in fired) \in Nat
      BY DEF Bit
    <3> QED
      BY <2>1, <3>2, <3>3, <3>4
  <2> QED
    BY <2>2, <2>3
<1> QED
  BY <1>1, <1>2, RecoveryKept

\* Every recovery keeps its outage in every step.
LEMMA NextRecovers == MonitorBounds /\ TypeOK /\ TypeOK' /\ EmitInv /\ RecoveryInv /\ [Next]_vars => RecoveryInv'
<1> SUFFICES ASSUME MonitorBounds, TypeOK, TypeOK', EmitInv, RecoveryInv, [Next]_vars PROVE RecoveryInv'
  OBVIOUS
<1>0. AlerterTypes /\ AlerterTypes' /\ HealthTypes
  BY TypesAre
<1>1. CASE UNCHANGED <<heard, outbox, emit, fired, unheard>>
  BY <1>1, CountsStay DEF RecoveryInv
<1>2. CASE UNCHANGED alertVars
  BY <1>1, <1>2 DEF alertVars
<1>3. CASE Stop
  <2>1. Fresh /\ fired' = {}
    BY <1>3 DEF Stop, Fresh
  <2>2. ASSUME NEW d \in Domain \ unheard'
        PROVE  /\ Count("primary_up", d)' + Bit(d \in fired') <= Count("primary_up", d) + Bit(d \in fired)
               /\ Count("primary_down", d)' = Count("primary_down", d)
    <3>1. Count("primary_up", d)' <= Count("primary_up", d) /\ Count("primary_down", d)' = Count("primary_down", d)
      BY <1>0, <2>1, FreshCounts
    <3>2. Count("primary_up", d) \in Nat /\ Count("primary_up", d)' \in Nat
      BY <1>0, CountsTyped, CountsTypedNext
    <3>3. Bit(d \in fired') = 0 /\ Bit(d \in fired) \in Nat
      BY <2>1 DEF Bit
    <3> QED
      BY <3>1, <3>2, <3>3
  <2>3. unheard \subseteq unheard'
    BY <2>1 DEF Fresh
  <2> QED
    BY <1>0, <2>2, <2>3, RecoveryKept
<1>4. CASE Signal \/ (\E t \in Timer : Elapse(t)) \/ \E k \in lastSent : IntervalElapses(k)
  BY <1>1, <1>4 DEF Signal, StopTimers, Elapse, IntervalElapses
<1>5. ASSUME NEW d \in Domain, ResumeDomain(d) PROVE RecoveryInv'
  BY <1>1, <1>5 DEF ResumeDomain, PrimaryDownSince, alertVars
<1>6. ASSUME NEW p \in Primary, Notify(p) PROVE RecoveryInv'
  <2>1. emit[p].at = "idle" /\ chk[p].cur \in Domain /\ p \in Caller
    BY <1>0, <1>6, BoundsAreNumbers DEF EmitInv, Notify, HealthTypes, ChkRow
  <2>2. CASE PrimaryUp(p, chk[p].cur)
    BY <1>0, <2>1, <2>2, UpRecovers
  <2>3. CASE PrimaryDownSince(chk[p].cur)
    BY <1>1, <2>3 DEF PrimaryDownSince
  <2> QED
    BY <1>2, <1>6, <2>2, <2>3 DEF Notify
<1>7. ASSUME NEW t \in Timer, Fire(t) PROVE RecoveryInv'
  BY <1>0, <1>7, FireRecovers
<1>8. ASSUME NEW a \in Timer \cup Caller, ShouldSend(a) \/ Enqueue(a) PROVE RecoveryInv'
  <2>1. fired' = fired
    BY <1>8 DEF ShouldSend, Enqueue
  <2>2. unheard \subseteq unheard'
    BY <1>8 DEF ShouldSend, Enqueue, Unheard
  <2>3. ASSUME NEW d \in Domain \ unheard'
        PROVE  /\ Count("primary_up", d)' + Bit(d \in fired') <= Count("primary_up", d) + Bit(d \in fired)
               /\ Count("primary_down", d)' = Count("primary_down", d)
    <3>1. Count("primary_up", d)' <= Count("primary_up", d) /\ Count("primary_down", d)' = Count("primary_down", d)
      BY <1>0, <1>8, AlertsGoOn
    <3>2. Count("primary_up", d) \in Nat /\ Count("primary_up", d)' \in Nat /\ Bit(d \in fired) \in Nat
      BY <1>0, CountsTyped, CountsTypedNext DEF Bit
    <3> QED
      BY <2>1, <3>1, <3>2
  <2> QED
    BY <1>0, <2>2, <2>3, RecoveryKept
<1>9. CASE Deliver
  <2>1. UNCHANGED <<fired, unheard>>
    BY <1>9 DEF Deliver
  <2>2. \A d \in Domain : Count("primary_up", d)' = Count("primary_up", d) /\ Count("primary_down", d)' = Count("primary_down", d)
    BY <1>0, <1>9, DeliverCounts DEF News
  <2> QED
    BY <2>1, <2>2 DEF RecoveryInv
<1>10. ASSUME NEW c \in Caller, NEW m \in Domain, NotifyMail(c, m) PROVE RecoveryInv'
  <2>1. UNCHANGED <<fired, unheard, heard, outbox>> /\ emit[c].at = "idle" /\ Emitting(c, <<"mail", m>>)
    BY <1>10 DEF NotifyMail
  <2>2. \A d \in Domain : Count("primary_up", d)' = Count("primary_up", d) /\ Count("primary_down", d)' = Count("primary_down", d)
    <3> TAKE d \in Domain
    <3>1. \A kind : Count(kind, d)' = Count(kind, d) + Bit(kind = "mail" /\ d = m)
      BY <1>0, <2>1, OneMore
    <3>2. Bit("primary_up" = "mail" /\ d = m) = 0 /\ Bit("primary_down" = "mail" /\ d = m) = 0
      BY DEF Bit
    <3>3. Count("primary_up", d) \in Nat /\ Count("primary_down", d) \in Nat
      BY <1>0, CountsTyped
    <3> QED
      BY <3>1, <3>2, <3>3
  <2> QED
    BY <2>1, <2>2 DEF RecoveryInv
<1> QED
  <2>1. CASE Next
    BY <2>1, <1>2, <1>3, <1>4, <1>5, <1>6, <1>7, <1>8, <1>9, <1>10 DEF Next, NotifyOther, Checker, ResumeFails, Run, Start
  <2>2. CASE UNCHANGED vars
    BY <1>2, <2>2 DEF vars
  <2> QED
    BY <2>1, <2>2

-----------------------------------------------------------------------------
(* Outages.                                                                *)

\* Timers and goroutines are finitely many, and so are the alarms.
LEMMA AlarmsTyped ==
  ASSUME MonitorBounds, NEW d \in Domain
  PROVE  /\ IsFiniteSet(Pending(d)) /\ IsFiniteSet(Telling(d))
         /\ IsFiniteSet(Pending(d)') /\ IsFiniteSet(Telling(d)')
         /\ Cardinality(Pending(d)) \in Nat /\ Cardinality(Telling(d)) \in Nat
         /\ Cardinality(Pending(d)') \in Nat /\ Cardinality(Telling(d)') \in Nat
         /\ AlerterTypes => Alarms(d) \in Nat
         /\ AlerterTypes' => Alarms(d)' \in Nat
<1>1. /\ Pending(d) \in SUBSET Timer /\ Pending(d)' \in SUBSET Timer
      /\ Telling(d) \in SUBSET Primary /\ Telling(d)' \in SUBSET Primary
  BY DEF Pending, Telling
<1>2. /\ IsFiniteSet(Pending(d)) /\ IsFiniteSet(Telling(d))
      /\ IsFiniteSet(Pending(d)') /\ IsFiniteSet(Telling(d)')
  <2>1. \A S \in SUBSET Timer : IsFiniteSet(S)
    BY FS_Subset, BoundsAreNumbers
  <2>2. \A S \in SUBSET Primary : IsFiniteSet(S)
    BY FS_Subset, BoundsAreNumbers
  <2> QED
    BY <1>1, <2>1, <2>2
<1>3. /\ Cardinality(Pending(d)) \in Nat /\ Cardinality(Telling(d)) \in Nat
      /\ Cardinality(Pending(d)') \in Nat /\ Cardinality(Telling(d)') \in Nat
  <2>1. \A S : IsFiniteSet(S) => Cardinality(S) \in Nat
    BY FS_CardinalityType
  <2> QED
    BY <1>2, <2>1
<1>4. ASSUME AlerterTypes PROVE Alarms(d) \in Nat
  <2>1. Count("primary_down", d) \in Nat
    BY <1>4, CountsTyped
  <2> QED
    BY <1>3, <2>1 DEF Alarms
<1>5. AlerterTypes' => Alarms(d)' \in Nat
  BY <1>3, CountsTypedNext DEF Alarms
<1> QED
  BY <1>2, <1>3, <1>4, <1>5

\* Nothing new is told, no timer begins and nobody is about to tell the alerter.
LEMMA AlarmsFall ==
  ASSUME MonitorBounds, AlerterTypes, AlerterTypes', NEW d \in Domain,
         Count("primary_down", d)' <= Count("primary_down", d),
         Pending(d)' \subseteq Pending(d), Telling(d)' \subseteq Telling(d)
  PROVE  Alarms(d)' <= Alarms(d)
<1>1. Count("primary_down", d) \in Nat /\ Count("primary_down", d)' \in Nat
  BY CountsTyped, CountsTypedNext
<1>2. Pending(d)' \in SUBSET Pending(d) /\ Telling(d)' \in SUBSET Telling(d)
  OBVIOUS
<1>3. Cardinality(Pending(d)') <= Cardinality(Pending(d)) /\ Cardinality(Telling(d)') <= Cardinality(Telling(d))
  BY <1>2, FS_Subset, AlarmsTyped
<1>4. /\ Cardinality(Pending(d)) \in Nat /\ Cardinality(Telling(d)) \in Nat
      /\ Cardinality(Pending(d)') \in Nat /\ Cardinality(Telling(d)') \in Nat
  BY AlarmsTyped
<1>5. /\ Alarms(d) = Count("primary_down", d) + Cardinality(Pending(d)) + Cardinality(Telling(d))
      /\ Alarms(d)' = Count("primary_down", d)' + Cardinality(Pending(d)') + Cardinality(Telling(d)')
  BY DEF Alarms
<1> QED
  BY <1>1, <1>3, <1>4, <1>5

\* A timer that is begun is one alarm.
LEMMA OnePending ==
  ASSUME MonitorBounds, AlerterTypes, NEW d \in Domain, NEW u \in Domain, NEW t \in Timer, Unused(t),
         Arm(u, t) \/ FireNow(u, t)
  PROVE  Cardinality(Pending(d)') <= Cardinality(Pending(d)) + Bit(d = u)
<1>1. timer[t].at = "idle" /\ timer'[t].dom = u /\ \A s \in Timer \ {t} : timer'[s] = timer[s]
  BY DEF Unused, Arm, FireNow, AlerterTypes
<1>2. Pending(d) \ {t} = Pending(d)' \ {t} /\ t \notin Pending(d) /\ (t \in Pending(d)' => d = u)
  BY <1>1 DEF Pending
<1>3. IsFiniteSet(Pending(d)) /\ Cardinality(Pending(d)) \in Nat /\ Cardinality(Pending(d)') \in Nat
  BY AlarmsTyped
<1>4. Cardinality(Pending(d)') + Bit(t \in Pending(d)) = Cardinality(Pending(d)) + Bit(t \in Pending(d)')
  BY <1>2, <1>3, ButForOne
<1>5. Bit(t \in Pending(d)) = 0 /\ Bit(t \in Pending(d)') <= Bit(d = u) /\ Bit(t \in Pending(d)') \in 0..1 /\ Bit(d = u) \in 0..1
  BY <1>2 DEF Bit
<1> QED
  BY <1>3, <1>4, <1>5

\* The alerter's steps make no alarm.
LEMMA AlerterAlarms ==
  ASSUME MonitorBounds, AlerterTypes, AlerterTypes', EmitInv, chk' = chk, NEW d \in Domain,
         \/ \E t \in Timer : Elapse(t) \/ Fire(t)
         \/ \E a \in Timer \cup Caller : ShouldSend(a) \/ Enqueue(a)
         \/ Deliver \/ \E k \in lastSent : IntervalElapses(k)
         \/ \E e \in Domain, c \in Caller \ Primary : NotifyMail(c, e)
         \/ StopTimers \/ UNCHANGED alertVars
  PROVE  Alarms(d)' <= Alarms(d)
<1>0. Telling(d)' = Telling(d) /\ Count("primary_down", d) \in Nat
  BY CountsTyped DEF Telling
<1>1. CASE timer' = timer /\ Count("primary_down", d)' <= Count("primary_down", d)
  <2>1. Pending(d)' = Pending(d)
    BY <1>1 DEF Pending
  <2> QED
    BY <1>0, <1>1, <2>1, AlarmsFall
<1>2. ASSUME NEW t \in Timer, Elapse(t) PROVE Alarms(d)' <= Alarms(d)
  <2>1. Pending(d)' \subseteq Pending(d)
    BY <1>2 DEF Elapse, Pending, AlerterTypes, TimerRow
  <2>2. Count("primary_down", d)' = Count("primary_down", d)
    BY <1>2, CountsStay DEF Elapse
  <2> QED
    BY <1>0, <2>1, <2>2, AlarmsFall
<1>3. ASSUME NEW t \in Timer, Fire(t) PROVE Alarms(d)' <= Alarms(d)
  <2> DEFINE b == Bit(d = timer[t].dom)
  <2>1. /\ emit[t].at = "idle" /\ Emitting(t, <<"primary_down", timer[t].dom>>) /\ UNCHANGED <<heard, outbox>>
        /\ timer[t].at # "idle" /\ timer' = [timer EXCEPT ![t] = Rest]
    BY <1>3 DEF EmitInv, Fire
  <2>2. Count("primary_down", d)' = Count("primary_down", d) + b
    <3>1. Count("primary_down", d)' = Count("primary_down", d) + Bit("primary_down" = "primary_down" /\ d = timer[t].dom)
      BY <2>1, OneMore
    <3>2. Bit("primary_down" = "primary_down" /\ d = timer[t].dom) = b
      BY DEF Bit
    <3> QED
      BY <3>1, <3>2
  <2>3. Pending(d) \ {t} = Pending(d)' \ {t} /\ t \notin Pending(d)' /\ (t \in Pending(d) <=> d = timer[t].dom)
    BY <2>1, Beginnings DEF Pending, AlerterTypes
  <2>4. IsFiniteSet(Pending(d)) /\ Cardinality(Pending(d)) \in Nat /\ Cardinality(Pending(d)') \in Nat
    BY AlarmsTyped
  <2>5. Cardinality(Pending(d)') + Bit(t \in Pending(d)) = Cardinality(Pending(d)) + Bit(t \in Pending(d)')
    BY <2>3, <2>4, ButForOne
  <2>6. Bit(t \in Pending(d)') = 0 /\ Bit(t \in Pending(d)) = b /\ b \in 0..1
    BY <2>3 DEF Bit
  <2>7. /\ Alarms(d) = Count("primary_down", d) + Cardinality(Pending(d)) + Cardinality(Telling(d))
        /\ Alarms(d)' = Count("primary_down", d)' + Cardinality(Pending(d)') + Cardinality(Telling(d))
    BY <1>0 DEF Alarms
  <2>8. Cardinality(Telling(d)) \in Nat
    BY AlarmsTyped
  <2> HIDE DEF b
  <2> QED
    BY <1>0, <2>2, <2>4, <2>5, <2>6, <2>7, <2>8
<1>4. ASSUME NEW a \in Timer \cup Caller, ShouldSend(a) \/ Enqueue(a) PROVE Alarms(d)' <= Alarms(d)
  BY <1>1, <1>4, AlertsGoOn DEF ShouldSend, Enqueue
<1>5. CASE Deliver
  <2>1. Count("primary_down", d)' = Count("primary_down", d)
    BY <1>5, DeliverCounts DEF News
  <2> QED
    BY <1>0, <1>1, <1>5, <2>1 DEF Deliver
<1>6. CASE (\E k \in lastSent : IntervalElapses(k)) \/ UNCHANGED alertVars
  <2>1. UNCHANGED <<timer, heard, outbox, emit>>
    BY <1>6 DEF IntervalElapses, alertVars
  <2>2. Count("primary_down", d)' = Count("primary_down", d)
    BY <2>1, CountsStay
  <2> QED
    BY <1>0, <1>1, <2>1, <2>2
<1>7. ASSUME NEW e \in Domain, NEW c \in Caller, NotifyMail(c, e) PROVE Alarms(d)' <= Alarms(d)
  <2>1. UNCHANGED <<timer, heard, outbox>> /\ emit[c].at = "idle" /\ Emitting(c, <<"mail", e>>)
    BY <1>7 DEF NotifyMail
  <2>2. Count("primary_down", d)' = Count("primary_down", d) + Bit("primary_down" = "mail" /\ d = e)
    BY <2>1, OneMore
  <2>3. Bit("primary_down" = "mail" /\ d = e) = 0
    BY DEF Bit
  <2> QED
    BY <1>0, <1>1, <2>1, <2>2, <2>3
<1>8. CASE StopTimers
  <2>1. Pending(d)' \subseteq Pending(d)
    BY <1>8, Beginnings DEF StopTimers, Pending
  <2>2. Count("primary_down", d)' = Count("primary_down", d)
    BY <1>8, CountsStay DEF StopTimers
  <2> QED
    BY <1>0, <2>1, <2>2, AlarmsFall
<1> QED
  BY <1>2, <1>3, <1>4, <1>5, <1>6, <1>7, <1>8

\* The numbers the alarms are compared with, before and after a step
LEMMA LevelsTyped ==
  ASSUME MonitorBounds, TypeOK, TypeOK', NEW d \in Domain
  PROVE  /\ turns \in Nat /\ edits \in Nat /\ stops \in Nat /\ Level(d) \in 0..2
         /\ turns' \in Nat /\ edits' \in Nat /\ stops' \in Nat /\ Level(d)' \in 0..2
         /\ Alarms(d) \in Nat /\ Alarms(d)' \in Nat
         /\ Spent(d) \in Nat /\ Had(d) \in Nat /\ Spent(d)' \in Nat /\ Had(d)' \in Nat
         /\ Bit(Resuming(d)) \in 0..1 /\ Bit(Resuming(d)') \in 0..1
<1>0. AlerterTypes /\ AlerterTypes' /\ HealthTypes /\ HealthTypes' /\ ProcessTypes /\ ProcessTypes'
  BY TypesAre
<1>1. turns \in Nat /\ edits \in Nat /\ stops \in Nat /\ turns' \in Nat /\ edits' \in Nat /\ stops' \in Nat
  BY <1>0, BoundsAreNumbers DEF HealthTypes, ProcessTypes
<1>2. Alarms(d) \in Nat /\ Alarms(d)' \in Nat
  BY <1>0, AlarmsTyped
<1>3. Level(d) \in 0..2 /\ Level(d)' \in 0..2
  BY DEF Level
<1>4. Bit(Resuming(d)) \in 0..1 /\ Bit(Resuming(d)') \in 0..1
  BY DEF Bit
<1>5. Spent(d) = 2 * Alarms(d) + 2 * Bit(Resuming(d)) /\ Spent(d)' = 2 * Alarms(d)' + 2 * Bit(Resuming(d)')
  BY DEF Spent
<1>6. Had(d) = turns + edits + 2 * stops + Level(d) /\ Had(d)' = turns' + edits' + 2 * stops' + Level(d)'
  BY DEF Had
<1> QED
  BY <1>1, <1>2, <1>3, <1>4, <1>5, <1>6

\* A step after which as many more changes may have been gone through as are owed
LEMMA OutageStep ==
  ASSUME MonitorBounds, TypeOK, TypeOK', NEW d \in Domain, NEW x \in Nat,
         Settled(d), \A p \in Primary : InHand(p, d),
         Spent(d)' <= Spent(d), Had(d)' = Had(d) + x,
         \A p \in Primary : d \in chk'[p].todo <=> d \in chk[p].todo,
         Change(d, dom[d].host \in answers)' <= Change(d, dom[d].host \in answers) + x,
         \A p \in Primary : d \in chk[p].todo =>
           Change(d, Result(p))' + Overtaken(p, d)' <= Change(d, Result(p)) + Overtaken(p, d) + x
  PROVE  Settled(d)' /\ \A p \in Primary : InHand(p, d)'
<1>1. Spent(d) \in Nat /\ Had(d) \in Nat /\ Spent(d)' \in Nat /\ Had(d)' \in Nat
  BY LevelsTyped
<1>2. Settled(d)'
  <2> SUFFICES ASSUME \A p \in Primary : d \notin chk'[p].todo
               PROVE  Spent(d)' + Change(d, dom[d].host \in answers)' <= Had(d)'
    BY DEF Settled
  <2>1. Spent(d) + Change(d, dom[d].host \in answers) <= Had(d)
    BY DEF Settled
  <2>2. Change(d, dom[d].host \in answers) \in 0..1 /\ Change(d, dom[d].host \in answers)' \in 0..1
    BY DEF Change, Bit
  <2> QED
    BY <1>1, <2>1, <2>2
<1>3. ASSUME NEW p \in Primary PROVE InHand(p, d)'
  <2> SUFFICES ASSUME d \in chk'[p].todo
               PROVE  Spent(d)' + Change(d, Result(p))' + Overtaken(p, d)' <= Had(d)'
    BY DEF InHand
  <2>1. Spent(d) + Change(d, Result(p)) + Overtaken(p, d) <= Had(d)
    BY DEF InHand
  <2>2. /\ Change(d, Result(p)) \in 0..1 /\ Change(d, Result(p))' \in 0..1
        /\ Overtaken(p, d) \in 0..1 /\ Overtaken(p, d)' \in 0..1
    BY DEF Change, Overtaken, Bit
  <2>3. Change(d, Result(p))' + Overtaken(p, d)' <= Change(d, Result(p)) + Overtaken(p, d) + x
    OBVIOUS
  <2> QED
    BY <1>1, <2>1, <2>2, <2>3
<1> QED
  BY <1>2, <1>3

\* A step that changes neither answers nor statuses, and begins no alarm that a
\* restart does not pay for
LEMMA OutageKept ==
  ASSUME MonitorBounds, TypeOK, TypeOK', NEW d \in Domain,
         Settled(d), \A p \in Primary : InHand(p, d),
         Alarms(d)' + Bit(Resuming(d)') <= Alarms(d) + Bit(Resuming(d)),
         UNCHANGED <<turns, edits, stops, answers>>, dom'[d] = dom[d], status'[d] = status[d],
         \A p \in Primary : /\ d \in chk'[p].todo <=> d \in chk[p].todo
                            /\ d \in chk[p].todo => (Result(p)' <=> Result(p))
  PROVE  Settled(d)' /\ \A p \in Primary : InHand(p, d)'
<1>1. Spent(d)' <= Spent(d)
  <2>1. /\ Alarms(d) \in Nat /\ Alarms(d)' \in Nat
        /\ Bit(Resuming(d)) \in 0..1 /\ Bit(Resuming(d)') \in 0..1
    BY LevelsTyped
  <2>2. Spent(d) = 2 * Alarms(d) + 2 * Bit(Resuming(d)) /\ Spent(d)' = 2 * Alarms(d)' + 2 * Bit(Resuming(d)')
    BY DEF Spent
  <2> QED
    BY <2>1, <2>2
<1>2. Had(d)' = Had(d) + 0
  <2>1. Level(d)' = Level(d)
    BY DEF Level
  <2>2. Had(d)' = Had(d) /\ Had(d) \in Nat
    BY <2>1, LevelsTyped DEF Had
  <2> QED
    BY <2>2
<1>3. Change(d, dom[d].host \in answers)' = Change(d, dom[d].host \in answers)
  BY DEF Change
<1>4. Change(d, dom[d].host \in answers) \in Nat
  BY DEF Change, Bit
<1>5. ASSUME NEW p \in Primary, d \in chk[p].todo
      PROVE  /\ Change(d, Result(p))' + Overtaken(p, d)' <= Change(d, Result(p)) + Overtaken(p, d) + 0
  <2>1. Result(p)' <=> Result(p)
    BY <1>5
  <2>2. Change(d, Result(p))' = Change(d, Result(p)) /\ Overtaken(p, d)' = Overtaken(p, d)
    BY <2>1 DEF Change, Overtaken, Bit
  <2>3. Change(d, Result(p)) \in Nat /\ Overtaken(p, d) \in Nat
    BY DEF Change, Overtaken, Bit
  <2> QED
    BY <2>2, <2>3
<1> QED
  BY <1>1, <1>2, <1>3, <1>4, <1>5, OutageStep

\* The alerter's steps keep outages accounted for.
LEMMA AlerterOutages ==
  ASSUME MonitorBounds, TypeOK, TypeOK', EmitInv, OutageInv, UNCHANGED <<healthVars, todo, stops>>,
         phase' = phase \/ {phase, phase'} \subseteq {"run", "stopping"},
         \/ \E t \in Timer : Elapse(t) \/ Fire(t)
         \/ \E a \in Timer \cup Caller : ShouldSend(a) \/ Enqueue(a)
         \/ Deliver \/ \E k \in lastSent : IntervalElapses(k)
         \/ \E e \in Domain, c \in Caller \ Primary : NotifyMail(c, e)
         \/ StopTimers \/ UNCHANGED alertVars
  PROVE  OutageInv'
<1> SUFFICES ASSUME NEW d \in Domain PROVE Settled(d)' /\ \A p \in Primary : InHand(p, d)'
  BY DEF OutageInv
<1>0. AlerterTypes /\ AlerterTypes' /\ chk' = chk
  BY TypesAre DEF healthVars
<1>1. Alarms(d)' <= Alarms(d)
  BY <1>0, AlerterAlarms
<1>2. Bit(Resuming(d)') = Bit(Resuming(d))
  BY DEF Resuming
<1>3. Alarms(d)' + Bit(Resuming(d)') <= Alarms(d) + Bit(Resuming(d))
  BY <1>1, <1>2, LevelsTyped
<1>4. \A p \in Primary : Result(p)' <=> Result(p)
  BY DEF Result, healthVars
<1>5. Settled(d) /\ \A p \in Primary : InHand(p, d)
  BY DEF OutageInv
<1>6. UNCHANGED <<turns, edits, answers, dom, status, chk>>
  BY DEF healthVars
<1> QED
  BY <1>3, <1>4, <1>5, <1>6, OutageKept

\* The timer of one domain more is one alarm.
LEMMA OneAlarm ==
  ASSUME MonitorBounds, AlerterTypes, AlerterTypes', NEW d \in Domain, NEW u \in Domain,
         UNCHANGED <<heard, outbox, emit, chk>>,
         \/ PrimaryDownSince(u)
         \/ \E t \in Timer : Unused(t) /\ FireNow(u, t)
  PROVE  Alarms(d)' <= Alarms(d) + Bit(d = u)
<1>1. Cardinality(Pending(d)') <= Cardinality(Pending(d)) + Bit(d = u)
  <2>1. CASE timer' = timer
    <3>1. Pending(d)' = Pending(d)
      BY <2>1 DEF Pending
    <3>2. Cardinality(Pending(d)) \in Nat /\ Bit(d = u) \in Nat
      BY AlarmsTyped DEF Bit
    <3> QED
      BY <3>1, <3>2
  <2>2. CASE \E t \in Timer : Unused(t) /\ (Arm(u, t) \/ FireNow(u, t))
    BY <2>2, OnePending
  <2> QED
    BY <2>1, <2>2 DEF PrimaryDownSince
<1>2. Count("primary_down", d)' = Count("primary_down", d) /\ Telling(d)' = Telling(d)
  BY CountsStay DEF Telling
<1>3. /\ Count("primary_down", d) \in Nat /\ Cardinality(Telling(d)) \in Nat
      /\ Cardinality(Pending(d)) \in Nat /\ Cardinality(Pending(d)') \in Nat /\ Bit(d = u) \in Nat
  BY CountsTyped, AlarmsTyped DEF Bit
<1>4. /\ Alarms(d) = Count("primary_down", d) + Cardinality(Pending(d)) + Cardinality(Telling(d))
      /\ Alarms(d)' = Count("primary_down", d) + Cardinality(Pending(d)') + Cardinality(Telling(d))
  BY <1>2 DEF Alarms
<1> QED
  BY <1>1, <1>3, <1>4

\* A process that is started again may announce an outage it finds, once.
LEMMA ResumeOutages ==
  ASSUME MonitorBounds, TypeOK, TypeOK', RoundInv, OutageInv, NEW u \in Domain, ResumeDomain(u)
  PROVE  OutageInv'
<1> SUFFICES ASSUME NEW d \in Domain PROVE Settled(d)' /\ \A p \in Primary : InHand(p, d)'
  BY DEF OutageInv
<1>0. AlerterTypes /\ AlerterTypes' /\ HealthTypes /\ ProcessTypes
  BY TypesAre
<1>1. phase = "resume" /\ u \in todo /\ todo' = todo \ {u} /\ UNCHANGED <<phase, stops, healthVars>>
  BY DEF ResumeDomain
<1>2. Alarms(d)' + Bit(Resuming(d)') <= Alarms(d) + Bit(Resuming(d))
  <2>1. Alarms(d) \in Nat /\ Alarms(d)' \in Nat /\ Bit(Resuming(d)) \in 0..1 /\ Bit(Resuming(d)') \in 0..1
    BY LevelsTyped
  <2>2. CASE UNCHANGED alertVars
    <3>1. UNCHANGED <<timer, heard, outbox, emit, chk>>
      BY <1>1, <2>2 DEF alertVars, healthVars
    <3>2. Pending(d)' = Pending(d) /\ Telling(d)' = Telling(d) /\ Count("primary_down", d)' = Count("primary_down", d)
      BY <3>1, CountsStay DEF Pending, Telling
    <3>3. Alarms(d)' = Alarms(d)
      BY <3>2 DEF Alarms
    <3>4. Bit(Resuming(d)') <= Bit(Resuming(d))
      BY <1>1 DEF Resuming, Bit
    <3> QED
      BY <2>1, <3>3, <3>4
  <2>3. CASE ~UNCHANGED alertVars
    <3>1. Down(u)
      BY <2>3 DEF ResumeDomain
    <3>2. stops > 0
      <4>1. status[u] # NewStatus
        BY <3>1 DEF Down, NewStatus
      <4>2. stops # 0
        BY <1>1, <4>1 DEF RoundInv
      <4> QED
        BY <1>0, <4>2, BoundsAreNumbers DEF ProcessTypes
    <3>3. Bit(Resuming(d)') + Bit(d = u) = Bit(Resuming(d)) /\ Bit(d = u) \in 0..1
      BY <1>1, <3>2 DEF Resuming, Bit
    <3>4. UNCHANGED <<heard, outbox, emit, chk>>
      BY <1>1, <2>3 DEF ResumeDomain, PrimaryDownSince, healthVars
    <3>5. PrimaryDownSince(u) \/ \E t \in Timer : Unused(t) /\ FireNow(u, t)
      BY <2>3 DEF ResumeDomain
    <3>6. Alarms(d)' <= Alarms(d) + Bit(d = u)
      BY <1>0, <3>4, <3>5, OneAlarm
    <3> QED
      BY <2>1, <3>3, <3>6
  <2> QED
    BY <2>2, <2>3
<1>3. \A p \in Primary : Result(p)' <=> Result(p)
  BY <1>1 DEF Result, healthVars
<1>4. Settled(d) /\ \A p \in Primary : InHand(p, d)
  BY DEF OutageInv
<1>5. UNCHANGED <<turns, edits, answers, dom, status, chk>>
  BY <1>1 DEF healthVars
<1> QED
  BY <1>1, <1>2, <1>3, <1>4, <1>5, OutageKept

\* The process that begins or has begun has no more to come to.
LEMMA StartOutages ==
  ASSUME MonitorBounds, TypeOK, TypeOK', RoundInv, OutageInv, ResumeFails \/ Run \/ Start
  PROVE  OutageInv'
<1> SUFFICES ASSUME NEW d \in Domain PROVE Settled(d)' /\ \A p \in Primary : InHand(p, d)'
  BY DEF OutageInv
<1>0. UNCHANGED <<alertVars, turns, edits, answers, dom, status, chk, stops>>
  BY DEF ResumeFails, Run, Start, healthVars
<1>1. Resuming(d)' => Resuming(d)
  BY DEF ResumeFails, Run, Start, Resuming
<1>2. Bit(Resuming(d)') <= Bit(Resuming(d))
  BY <1>1 DEF Bit
<1>3. Alarms(d)' = Alarms(d)
  <2>1. UNCHANGED <<timer, heard, outbox, emit, chk>>
    BY <1>0 DEF alertVars
  <2>2. Pending(d)' = Pending(d) /\ Telling(d)' = Telling(d) /\ Count("primary_down", d)' = Count("primary_down", d)
    BY <2>1, CountsStay DEF Pending, Telling
  <2> QED
    BY <2>2 DEF Alarms
<1>4. Alarms(d)' + Bit(Resuming(d)') <= Alarms(d) + Bit(Resuming(d))
  BY <1>2, <1>3, LevelsTyped
<1>5. \A p \in Primary : Result(p)' <=> Result(p)
  BY <1>0 DEF Result
<1>6. Settled(d) /\ \A p \in Primary : InHand(p, d)
  BY DEF OutageInv
<1> QED
  BY <1>0, <1>4, <1>5, <1>6, OutageKept

\* A round begins with domains nobody has in hand, and asks their own primaries.
LEMMA RoundOutages ==
  ASSUME MonitorBounds, TypeOK, TypeOK', RoundInv, OutageInv, CheckAll, UNCHANGED <<alertVars, phase, todo, stops>>
  PROVE  OutageInv'
<1> SUFFICES ASSUME NEW d \in Domain PROVE Settled(d)' /\ \A p \in Primary : InHand(p, d)'
  BY DEF OutageInv
<1>1. /\ \A p \in Primary : chk[p].at = "off" /\ chk[p].todo = {}
      /\ \A p \in Primary : chk'[p] = IF Sharing(p) = {} THEN Off ELSE [Off EXCEPT !.at = "probe", !.todo = Sharing(p)]
      /\ UNCHANGED <<answers, dom, status, turns, edits>>
  BY DEF CheckAll, RoundInv
<1>2. Spent(d) + Change(d, dom[d].host \in answers) <= Had(d)
  BY <1>1 DEF OutageInv, Settled
<1>3. Spent(d)' = Spent(d) /\ Had(d)' = Had(d)
  <2>1. Telling(d) = {} /\ Telling(d)' = {}
    <3>1. \A p \in Primary : chk'[p].at # "notify"
      <4>1. Off.at = "off" /\ \A p \in Primary : [Off EXCEPT !.at = "probe", !.todo = Sharing(p)].at = "probe"
        BY DEF Off
      <4> QED
        BY <1>1, <4>1
    <3> QED
      BY <1>1, <3>1 DEF Telling
  <2>2. UNCHANGED <<timer, heard, outbox, emit>>
    BY DEF alertVars
  <2>3. Pending(d)' = Pending(d) /\ Count("primary_down", d)' = Count("primary_down", d)
    BY <2>2, CountsStay DEF Pending
  <2>4. Alarms(d)' = Alarms(d)
    BY <2>1, <2>3 DEF Alarms
  <2>5. Resuming(d)' <=> Resuming(d)
    BY DEF Resuming
  <2>6. Bit(Resuming(d)') = Bit(Resuming(d)) /\ Level(d)' = Level(d)
    BY <1>1, <2>5 DEF Level, Bit
  <2> QED
    BY <1>1, <2>4, <2>6 DEF Spent, Had
<1>4. Change(d, dom[d].host \in answers)' = Change(d, dom[d].host \in answers)
  BY <1>1 DEF Change
<1>5. Settled(d)'
  BY <1>2, <1>3, <1>4 DEF Settled
<1>6. ASSUME NEW p \in Primary, d \in chk'[p].todo PROVE Spent(d)' + Change(d, Result(p))' + Overtaken(p, d)' <= Had(d)'
  <2>1. d \in Sharing(p) /\ chk'[p].at = "probe"
    <3>1. Off.todo = {}
      BY DEF Off
    <3>2. [Off EXCEPT !.at = "probe", !.todo = Sharing(p)].todo = Sharing(p)
          /\ [Off EXCEPT !.at = "probe", !.todo = Sharing(p)].at = "probe"
      BY DEF Off
    <3> QED
      BY <1>1, <1>6, <3>1, <3>2
  <2>2. dom[d].host = p /\ (Result(p)' <=> p \in answers)
    BY <1>1, <2>1 DEF Sharing, Result
  <2>3. Overtaken(p, d)' = 0 /\ Change(d, Result(p))' = Change(d, dom[d].host \in answers)
    BY <1>1, <2>2 DEF Overtaken, Change, Bit
  <2>4. Spent(d) \in Nat /\ Change(d, dom[d].host \in answers) \in Nat
    BY LevelsTyped DEF Change, Bit
  <2> QED
    BY <1>2, <1>3, <2>3, <2>4
<1> QED
  BY <1>5, <1>6 DEF InHand

\* A goroutine of the checker that applies nothing begins no alarm: the outage it
\* tells the alerter of was one before.
LEMMA CheckerOutages ==
  ASSUME MonitorBounds, TypeOK, TypeOK', OutageInv, EmitInv, NEW p \in Primary, UNCHANGED <<phase, todo, stops>>,
         \/ UNCHANGED alertVars /\ (Probe(p) \/ RoundDone(p) \/ Pull(p) \/ Wake(p))
         \/ Notify(p)
  PROVE  OutageInv'
<1> SUFFICES ASSUME NEW d \in Domain PROVE Settled(d)' /\ \A q \in Primary : InHand(q, d)'
  BY DEF OutageInv
<1>0. AlerterTypes /\ AlerterTypes' /\ HealthTypes /\ HealthTypes' /\ chk \in [Primary -> ChkRow]
  BY TypesAre DEF HealthTypes
<1>1. UNCHANGED <<answers, dom, status, turns, edits>>
  BY DEF Probe, RoundDone, Pull, Wake, Notify
<1>2. chk' = [chk EXCEPT ![p] = chk'[p]]
  BY <1>0, GoesOn
<1>3. \A q \in Primary \ {p} : chk'[q] = chk[q]
  BY <1>0, <1>2
<1>4. (d \in chk'[p].todo <=> d \in chk[p].todo) /\ (d \in chk[p].todo => (Result(p)' <=> Result(p)))
  <2>1. CASE Probe(p)
    <3>1. chk[p].at = "probe" /\ chk'[p].at = "record" /\ (chk'[p].ok <=> p \in answers) /\ chk'[p].todo = chk[p].todo
      BY <1>0, <2>1, GoesOn
    <3> QED
      BY <1>1, <3>1 DEF Result
  <2>2. CASE RoundDone(p)
    <3>1. chk[p].todo = {} /\ chk'[p] = Off /\ Off.todo = {}
      BY <1>0, <2>2, GoesOn DEF Off
    <3> QED
      BY <3>1
  <2>3. CASE Pull(p) \/ Wake(p) \/ Notify(p)
    <3>1. chk[p].at # "probe" /\ chk'[p].at # "probe" /\ chk'[p].ok = chk[p].ok /\ chk'[p].todo = chk[p].todo
      BY <1>0, <2>3, GoesOn
    <3> QED
      BY <3>1 DEF Result
  <2> QED
    BY <2>1, <2>2, <2>3
<1>5. \A q \in Primary : (d \in chk'[q].todo <=> d \in chk[q].todo) /\ (d \in chk[q].todo => (Result(q)' <=> Result(q)))
  <2> TAKE q \in Primary
  <2>1. q # p => (Result(q)' <=> Result(q))
    BY <1>1, <1>3 DEF Result
  <2> QED
    BY <1>3, <1>4, <2>1
<1>6. Alarms(d)' <= Alarms(d)
  <2>1. CASE UNCHANGED alertVars /\ (Probe(p) \/ RoundDone(p) \/ Pull(p) \/ Wake(p))
    <3>1. chk'[p].at # "notify"
      <4>1. Off.at = "off"
        BY DEF Off
      <4> QED
        BY <1>0, <2>1, <4>1, GoesOn
    <3>2. Telling(d)' \subseteq Telling(d)
      BY <1>3, <3>1 DEF Telling
    <3>3. UNCHANGED <<timer, heard, outbox, emit>>
      BY <2>1 DEF alertVars
    <3>4. Pending(d)' = Pending(d) /\ Count("primary_down", d)' = Count("primary_down", d)
      BY <3>3, CountsStay DEF Pending
    <3>5. Count("primary_down", d) \in Nat
      BY <1>0, CountsTyped
    <3> QED
      BY <1>0, <3>2, <3>4, <3>5, AlarmsFall
  <2>2. CASE Notify(p)
    <3>0. chk[p].cur \in Domain /\ chk[p].at = "notify" /\ chk'[p].at # "notify" /\ p \in Caller
      BY <1>0, <2>2, GoesOn, BoundsAreNumbers DEF ChkRow
    <3>1. Telling(d)' \subseteq Telling(d)
      BY <1>3, <3>0 DEF Telling
    <3>2. Count("primary_down", d) \in Nat
      BY <1>0, CountsTyped
    <3>3. CASE UNCHANGED alertVars
      <4>1. UNCHANGED <<timer, heard, outbox, emit>>
        BY <3>3 DEF alertVars
      <4>2. Pending(d)' = Pending(d) /\ Count("primary_down", d)' = Count("primary_down", d)
        BY <4>1, CountsStay DEF Pending
      <4> QED
        BY <1>0, <3>1, <3>2, <4>2, AlarmsFall
    <3>4. CASE PrimaryUp(p, chk[p].cur)
      <4>1. Pending(d)' \subseteq Pending(d)
        BY <3>4, Beginnings DEF PrimaryUp, Pending
      <4>2. Count("primary_down", d)' = Count("primary_down", d)
        <5>1. CASE chk[p].cur \in fired
          <6>1. emit[p].at = "idle" /\ Emitting(p, <<"primary_up", chk[p].cur>>) /\ UNCHANGED <<heard, outbox>>
            BY <3>0, <3>4, <5>1 DEF EmitInv, PrimaryUp
          <6>2. Count("primary_down", d)' = Count("primary_down", d) + Bit("primary_down" = "primary_up" /\ d = chk[p].cur)
            BY <1>0, <3>0, <6>1, OneMore
          <6>3. Bit("primary_down" = "primary_up" /\ d = chk[p].cur) = 0
            BY DEF Bit
          <6> QED
            BY <3>2, <6>2, <6>3
        <5>2. CASE chk[p].cur \notin fired
          BY <3>4, <5>2, CountsStay DEF PrimaryUp
        <5> QED
          BY <5>1, <5>2
      <4> QED
        BY <1>0, <3>1, <3>2, <4>1, <4>2, AlarmsFall
    <3>5. CASE ~chk[p].up /\ PrimaryDownSince(chk[p].cur)
      <4> DEFINE b == Bit(d = chk[p].cur)
      <4>1. Telling(d)' = Telling(d) \ {p} /\ (p \in Telling(d) <=> d = chk[p].cur)
        BY <1>3, <3>0, <3>5 DEF Telling
      <4>2. Cardinality(Telling(d)') + b = Cardinality(Telling(d))
        <5>1. IsFiniteSet(Telling(d)) /\ Cardinality(Telling(d)) \in Nat /\ Cardinality(Telling(d)') \in Nat
          BY AlarmsTyped
        <5>2. Telling(d) \ {p} = Telling(d)' \ {p} /\ p \notin Telling(d)'
          BY <4>1
        <5>3. Cardinality(Telling(d)') + Bit(p \in Telling(d)) = Cardinality(Telling(d)) + Bit(p \in Telling(d)')
          BY <5>1, <5>2, ButForOne
        <5>4. Bit(p \in Telling(d)) = b /\ Bit(p \in Telling(d)') = 0
          BY <4>1, <5>2 DEF Bit
        <5> QED
          BY <5>1, <5>3, <5>4
      <4>3. Cardinality(Pending(d)') <= Cardinality(Pending(d)) + b
        <5>1. CASE timer' = timer
          <6>1. Pending(d)' = Pending(d) /\ Cardinality(Pending(d)) \in Nat /\ b \in Nat
            BY <5>1, AlarmsTyped DEF Pending, Bit
          <6> QED
            BY <6>1
        <5>2. CASE \E t \in Timer : Unused(t) /\ Arm(chk[p].cur, t)
          BY <1>0, <3>0, <5>2, OnePending
        <5> QED
          BY <3>5, <5>1, <5>2 DEF PrimaryDownSince
      <4>4. Count("primary_down", d)' = Count("primary_down", d)
        BY <3>5, CountsStay DEF PrimaryDownSince
      <4>5. /\ Alarms(d) = Count("primary_down", d) + Cardinality(Pending(d)) + Cardinality(Telling(d))
            /\ Alarms(d)' = Count("primary_down", d) + Cardinality(Pending(d)') + Cardinality(Telling(d)')
        BY <4>4 DEF Alarms
      <4>6. /\ Cardinality(Pending(d)) \in Nat /\ Cardinality(Telling(d)) \in Nat /\ b \in 0..1
            /\ Cardinality(Pending(d)') \in Nat /\ Cardinality(Telling(d)') \in Nat
        BY AlarmsTyped DEF Bit
      <4> HIDE DEF b
      <4> QED
        BY <3>2, <4>2, <4>3, <4>5, <4>6
    <3> QED
      BY <2>2, <3>3, <3>4, <3>5 DEF Notify
  <2> QED
    BY <2>1, <2>2
<1>7. Resuming(d)' <=> Resuming(d)
  BY DEF Resuming
<1>8. Alarms(d)' + Bit(Resuming(d)') <= Alarms(d) + Bit(Resuming(d))
  <2>1. Bit(Resuming(d)') = Bit(Resuming(d))
    BY <1>7 DEF Bit
  <2> QED
    BY <1>6, <2>1, LevelsTyped
<1>9. Settled(d) /\ \A q \in Primary : InHand(q, d)
  BY DEF OutageInv
<1> QED
  BY <1>1, <1>5, <1>8, <1>9, OutageKept

\* What RecordProbe makes of an answer
LEMMA ProbeResults ==
  ASSUME MonitorBounds, NEW s \in Status, NEW ok \in BOOLEAN
  PROVE  /\ RecordProbe(s, ok).checked /\ (RecordProbe(s, ok).succ > 0 <=> ok)
         /\ RecordProbe(s, ok).up \in BOOLEAN
         /\ ok /\ s.up => RecordProbe(s, ok).up
         /\ ~ok /\ ~s.up => ~RecordProbe(s, ok).up
<1>1. FailureThreshold \in Nat \ {0} /\ SuccessThreshold \in Nat \ {0}
  BY DEF MonitorBounds, HealthBounds
<1>2. s.up \in BOOLEAN /\ s.fails \in 0..FailureThreshold /\ s.succ \in 0..SuccessThreshold
  BY DEF Status
<1> QED
  BY <1>1, <1>2 DEF RecordProbe

\* The step of an outage is paid by the answer that differs from the last one.
LEMMA AnswersPay ==
  ASSUME MonitorBounds, TypeOK, NEW d \in Domain, dom[d].exists, dom'[d] = dom[d], NEW ok \in BOOLEAN,
         status'[d] = RecordProbe(status[d], ok)
  PROVE  2 * Bit(Flipped(status[d], ok) /\ ~status'[d].up) + Level(d) <= Level(d)' + Change(d, ok)
<1> DEFINE s == status[d]
           r == RecordProbe(s, ok)
<1>0. s \in Status /\ s.up \in BOOLEAN /\ s.checked \in BOOLEAN /\ s.succ \in Nat
  BY TypesAre, BoundsAreNumbers DEF HealthTypes, Status, MonitorBounds, HealthBounds
<1>1. r.checked /\ (r.succ > 0 <=> ok) /\ r.up \in BOOLEAN /\ (ok /\ s.up => r.up) /\ (~ok /\ ~s.up => ~r.up)
  BY <1>0, ProbeResults
<1>2. Flipped(s, ok) <=> ~(r.up <=> s.up) \/ (~ok /\ ~s.checked)
  BY <1>0, <1>1 DEF Flipped
<1>3. Level(d)' = IF ok THEN 1 ELSE IF r.up THEN 0 ELSE 2
  BY <1>1 DEF Level
<1>4. Level(d) = IF ~s.checked THEN 0 ELSE IF s.succ > 0 THEN 1 ELSE IF s.up THEN 0 ELSE 2
  BY DEF Level
<1>5. Change(d, ok) = Bit(s.checked /\ ~(ok <=> s.succ > 0))
  BY DEF Change
<1>6. Flipped(s, ok) /\ ~status'[d].up <=> Flipped(s, ok) /\ ~r.up
  OBVIOUS
<1> DEFINE flips == Flipped(s, ok) /\ ~r.up
           differs == s.checked /\ ~(ok <=> s.succ > 0)
<1>7. CASE ok
  <2>1. ~flips
    BY <1>1, <1>2, <1>7
  <2>2. Bit(flips) = 0
    BY <2>1 DEF Bit
  <2>3. Level(d) = 2 => Bit(differs) = 1
    BY <1>0, <1>4, <1>7 DEF Bit
  <2>4. Bit(differs) \in 0..1
    BY DEF Bit
  <2>5. Level(d)' = 1
    BY <1>3, <1>7
  <2>6. Level(d) \in 0..2
    BY DEF Level
  <2>7. Bit(Flipped(s, ok) /\ ~status'[d].up) = 0
    BY <1>6, <2>1 DEF Bit
  <2> HIDE DEF s, r, differs
  <2> QED
    BY <1>5, <2>3, <2>4, <2>5, <2>6, <2>7 DEF s, differs
<1>8. CASE ~ok
  <2>1. CASE r.up
    <3>1. s.up /\ Bit(flips) = 0 /\ Level(d)' = 0
      BY <1>1, <1>3, <1>8, <2>1 DEF Bit
    <3>2. Level(d) = Bit(differs)
      BY <1>0, <1>4, <1>8, <3>1 DEF Bit
    <3> QED
      BY <1>5, <1>6, <3>1, <3>2 DEF Bit
  <2>2. CASE ~r.up
    <3>1. Level(d)' = 2
      BY <1>3, <1>8, <2>2
    <3>2. CASE s.checked /\ s.succ > 0
      <4>1. Level(d) = 1 /\ Bit(differs) = 1 /\ Bit(flips) \in 0..1
        BY <1>4, <1>8, <3>2 DEF Bit
      <4> QED
        BY <1>5, <1>6, <3>1, <4>1 DEF Bit
    <3>3. CASE s.checked /\ ~(s.succ > 0) /\ ~s.up
      <4>1. Level(d) = 2 /\ Bit(flips) = 0 /\ Bit(differs) \in 0..1
        BY <1>2, <1>4, <2>2, <3>3 DEF Bit
      <4> QED
        BY <1>5, <1>6, <3>1, <4>1 DEF Bit
    <3>4. CASE ~s.checked \/ (~(s.succ > 0) /\ s.up)
      <4>1. Level(d) = 0 /\ Bit(flips) \in 0..1 /\ Bit(differs) \in 0..1
        BY <1>4, <3>4 DEF Bit
      <4> QED
        BY <1>5, <1>6, <3>1, <4>1 DEF Bit
    <3> QED
      BY <1>0, <3>2, <3>3, <3>4
  <2> QED
    BY <1>1, <2>1, <2>2
<1> QED
  BY <1>7, <1>8

\* Whoever has a domain in hand, it owes no less than what its primary answers now.
LEMMA OwesNow ==
  ASSUME MonitorBounds, TypeOK, TypeOK', OutageInv, NEW d \in Domain
  PROVE  Spent(d) + Change(d, dom[d].host \in answers) <= Had(d)
<1>1. CASE \A p \in Primary : d \notin chk[p].todo
  BY <1>1 DEF OutageInv, Settled
<1>2. ASSUME NEW p \in Primary, d \in chk[p].todo PROVE Spent(d) + Change(d, dom[d].host \in answers) <= Had(d)
  <2>1. Spent(d) + Change(d, Result(p)) + Overtaken(p, d) <= Had(d)
    BY <1>2 DEF OutageInv, InHand
  <2>2. Change(d, dom[d].host \in answers) <= Change(d, Result(p)) + Overtaken(p, d)
    BY DEF Change, Overtaken, Bit
  <2>3. Change(d, dom[d].host \in answers) \in 0..1 /\ Change(d, Result(p)) \in 0..1 /\ Overtaken(p, d) \in 0..1
    BY DEF Change, Overtaken, Bit
  <2> QED
    BY <2>1, <2>2, <2>3, LevelsTyped
<1> QED
  BY <1>1, <1>2

\* An answer that is applied
LEMMA ApplyOutages ==
  ASSUME MonitorBounds, TypeOK, TypeOK', RoundInv, OutageInv, NEW p \in Primary, NEW u \in Domain, Apply(p, u),
         UNCHANGED <<alertVars, phase, todo, stops>>
  PROVE  OutageInv'
<1> SUFFICES ASSUME NEW d \in Domain PROVE Settled(d)' /\ \A q \in Primary : InHand(q, d)'
  BY DEF OutageInv
<1> DEFINE flips == Flipped(status[u], chk[p].ok)
<1>0. AlerterTypes /\ AlerterTypes' /\ HealthTypes /\ HealthTypes' /\ chk \in [Primary -> ChkRow]
  BY TypesAre DEF HealthTypes
<1>1. /\ UNCHANGED <<answers, dom, turns, edits>> /\ u \in chk[p].todo /\ chk[p].at = "record"
      /\ status' = [status EXCEPT ![u] = RecordProbe(status[u], chk[p].ok)]
  BY DEF Apply
<1>2. /\ chk' = [chk EXCEPT ![p] = chk'[p]] /\ chk'[p].at = (IF flips THEN "notify" ELSE "record")
      /\ chk'[p].ok = chk[p].ok /\ chk'[p].todo = chk[p].todo \ {u}
      /\ chk'[p].cur = u /\ chk'[p].up = status'[u].up
  BY <1>0, GoesOn
<1>3. \A q \in Primary \ {p} : chk'[q] = chk[q]
  BY <1>0, <1>2
<1>4. status'[u] = RecordProbe(status[u], chk[p].ok) /\ \A e \in Domain \ {u} : status'[e] = status[e]
  BY <1>0, <1>1 DEF HealthTypes
<1>5. Resuming(d)' <=> Resuming(d)
  BY DEF Resuming
<1>6. Bit(Resuming(d)') = Bit(Resuming(d))
  BY <1>5 DEF Bit
<1>7. Pending(d)' = Pending(d) /\ Count("primary_down", d)' = Count("primary_down", d)
  <2>1. UNCHANGED <<timer, heard, outbox, emit>>
    BY DEF alertVars
  <2> QED
    BY <2>1, CountsStay DEF Pending
<1>8. CASE d # u
  <2>1. Telling(d)' = Telling(d)
    <3>1. p \notin Telling(d) /\ p \notin Telling(d)'
      BY <1>1, <1>2, <1>8 DEF Telling
    <3> QED
      BY <1>3, <3>1 DEF Telling
  <2>2. Alarms(d)' = Alarms(d)
    BY <1>7, <2>1 DEF Alarms
  <2>3. Alarms(d)' + Bit(Resuming(d)') <= Alarms(d) + Bit(Resuming(d))
    BY <1>6, <2>2, LevelsTyped
  <2>4. \A q \in Primary : (d \in chk'[q].todo <=> d \in chk[q].todo) /\ (d \in chk[q].todo => (Result(q)' <=> Result(q)))
    <3> TAKE q \in Primary
    <3>1. CASE q = p
      <4>1. chk'[p].at # "probe"
        BY <1>2
      <4>2. Result(p)' <=> Result(p)
        BY <1>1, <1>2, <4>1 DEF Result
      <4> QED
        BY <1>2, <1>8, <3>1, <4>2
    <3>2. CASE q # p
      BY <1>1, <1>3, <3>2 DEF Result
    <3> QED
      BY <3>1, <3>2
  <2>5. dom'[d] = dom[d] /\ status'[d] = status[d] /\ UNCHANGED <<turns, edits, stops, answers>>
    BY <1>1, <1>4, <1>8
  <2>6. Settled(d) /\ \A q \in Primary : InHand(q, d)
    BY DEF OutageInv
  <2> QED
    BY <2>3, <2>4, <2>5, <2>6, OutageKept
<1>9. CASE d = u
  <2> DEFINE b == Bit(flips /\ ~status'[u].up)
             over == Overtaken(p, u)
             owed == Change(u, Result(p))
             owes == Change(u, dom[u].host \in answers)'
  <2>1. \A q \in Primary : u \notin chk'[q].todo
    BY <1>1, <1>2, <1>3 DEF RoundInv
  <2>2. Spent(u) + owed + over <= Had(u)
    BY <1>1, <1>9 DEF OutageInv, InHand
  <2>3. Alarms(u)' = Alarms(u) + b
    <3>1. p \notin Telling(u) /\ (p \in Telling(u)' <=> flips /\ ~status'[u].up)
      BY <1>1, <1>2 DEF Telling
    <3>2. Telling(u)' \ {p} = Telling(u) \ {p}
      BY <1>3 DEF Telling
    <3>3. IsFiniteSet(Telling(u)) /\ Cardinality(Telling(u)) \in Nat /\ Cardinality(Telling(u)') \in Nat
          /\ Cardinality(Pending(u)) \in Nat
      BY AlarmsTyped
    <3>4. Cardinality(Telling(u)') + Bit(p \in Telling(u)) = Cardinality(Telling(u)) + Bit(p \in Telling(u)')
      BY <3>2, <3>3, ButForOne
    <3>5. Bit(p \in Telling(u)) = 0 /\ Bit(p \in Telling(u)') = b /\ b \in 0..1
      BY <3>1 DEF Bit
    <3>6. Cardinality(Telling(u)') = Cardinality(Telling(u)) + b
      BY <3>3, <3>4, <3>5
    <3>7. Count("primary_down", u) \in Nat
      BY <1>0, CountsTyped
    <3>8. /\ Alarms(u) = Count("primary_down", u) + Cardinality(Pending(u)) + Cardinality(Telling(u))
          /\ Alarms(u)' = Count("primary_down", u) + Cardinality(Pending(u)) + Cardinality(Telling(u)')
      BY <1>7, <1>9 DEF Alarms
    <3> HIDE DEF b
    <3> QED
      BY <3>3, <3>5, <3>6, <3>7, <3>8
  <2>4. 2 * b + Level(u) <= Level(u)' + owed
    <3>1. dom[u].exists /\ dom'[u] = dom[u] /\ chk[p].ok \in BOOLEAN
      BY <1>0, <1>1 DEF RoundInv, ChkRow
    <3>2. 2 * Bit(Flipped(status[u], chk[p].ok) /\ ~status'[u].up) + Level(u) <= Level(u)' + Change(u, chk[p].ok)
      BY <1>4, <3>1, AnswersPay
    <3>3. Result(p) <=> chk[p].ok
      BY <1>1 DEF Result
    <3>4. owed = Change(u, chk[p].ok)
      BY <3>3 DEF Change, Bit
    <3> QED
      BY <3>2, <3>4
  <2>5. owes <= over
    <3>1. status[u] \in Status /\ chk[p].ok \in BOOLEAN
      BY <1>0 DEF HealthTypes, ChkRow
    <3>2. status'[u].succ > 0 <=> chk[p].ok
      BY <1>4, <3>1, ProbeResults
    <3>3. owes = 1 => ~(dom[u].host \in answers <=> chk[p].ok)
      BY <1>1, <3>2 DEF Change, Bit
    <3>4. ~(dom[u].host \in answers <=> chk[p].ok) => over = 1
      BY <1>1 DEF Overtaken, Result, Bit
    <3>5. owes \in 0..1 /\ over \in 0..1
      BY DEF Change, Overtaken, Bit
    <3> QED
      BY <3>3, <3>4, <3>5
  <2>6. Spent(u)' + owes <= Had(u)'
    <3>1. /\ Spent(u) = 2 * Alarms(u) + 2 * Bit(Resuming(u)) /\ Spent(u)' = 2 * Alarms(u)' + 2 * Bit(Resuming(u))
          /\ Had(u) = turns + edits + 2 * stops + Level(u) /\ Had(u)' = turns + edits + 2 * stops + Level(u)'
      BY <1>1, <1>6, <1>9 DEF Spent, Had
    <3>2. /\ Alarms(u) \in Nat /\ Bit(Resuming(u)) \in 0..1 /\ turns \in Nat /\ edits \in Nat /\ stops \in Nat
          /\ Level(u) \in 0..2 /\ Level(u)' \in 0..2
      BY LevelsTyped
    <3>3. b \in 0..1 /\ owed \in 0..1 /\ owes \in 0..1 /\ over \in 0..1
      BY DEF Change, Overtaken, Bit
    <3> HIDE DEF b, owed, owes, over
    <3> QED
      BY <2>2, <2>3, <2>4, <2>5, <3>1, <3>2, <3>3
  <2> QED
    BY <1>9, <2>1, <2>6 DEF Settled, InHand
<1> QED
  BY <1>8, <1>9

\* An answer that is not applied is given up for the primary's next one.
LEMMA FailOutages ==
  ASSUME MonitorBounds, TypeOK, TypeOK', RoundInv, OutageInv, NEW p \in Primary, NEW u \in Domain, ApplyFails(p, u),
         UNCHANGED <<alertVars, phase, todo, stops>>
  PROVE  OutageInv'
<1> SUFFICES ASSUME NEW d \in Domain PROVE Settled(d)' /\ \A q \in Primary : InHand(q, d)'
  BY DEF OutageInv
<1>0. AlerterTypes /\ AlerterTypes' /\ HealthTypes /\ HealthTypes' /\ chk \in [Primary -> ChkRow]
  BY TypesAre DEF HealthTypes
<1>1. UNCHANGED <<answers, dom, status, turns, edits>> /\ u \in chk[p].todo /\ chk[p].at = "record"
  BY DEF ApplyFails
<1>2. /\ chk' = [chk EXCEPT ![p] = chk'[p]] /\ chk'[p].at = "record"
      /\ chk'[p].ok = chk[p].ok /\ chk'[p].todo = chk[p].todo \ {u}
  BY <1>0, GoesOn
<1>3. \A q \in Primary \ {p} : chk'[q] = chk[q]
  BY <1>0, <1>2
<1>4. Alarms(d)' = Alarms(d)
  <2>1. UNCHANGED <<timer, heard, outbox, emit>>
    BY DEF alertVars
  <2>2. Pending(d)' = Pending(d) /\ Count("primary_down", d)' = Count("primary_down", d)
    BY <2>1, CountsStay DEF Pending
  <2>3. Telling(d)' = Telling(d)
    BY <1>1, <1>2, <1>3 DEF Telling
  <2> QED
    BY <2>2, <2>3 DEF Alarms
<1>5. Resuming(d)' <=> Resuming(d)
  BY DEF Resuming
<1>6. Bit(Resuming(d)') = Bit(Resuming(d))
  BY <1>5 DEF Bit
<1>7. CASE d # u
  <2>1. Alarms(d)' + Bit(Resuming(d)') <= Alarms(d) + Bit(Resuming(d))
    BY <1>4, <1>6, LevelsTyped
  <2>2. \A q \in Primary : (d \in chk'[q].todo <=> d \in chk[q].todo) /\ (d \in chk[q].todo => (Result(q)' <=> Result(q)))
    <3> TAKE q \in Primary
    <3>1. CASE q = p
      BY <1>1, <1>2, <1>7, <3>1 DEF Result
    <3>2. CASE q # p
      BY <1>1, <1>3, <3>2 DEF Result
    <3> QED
      BY <3>1, <3>2
  <2>3. Settled(d) /\ \A q \in Primary : InHand(q, d)
    BY DEF OutageInv
  <2>4. dom'[d] = dom[d] /\ status'[d] = status[d]
    BY <1>1
  <2> QED
    BY <1>1, <2>1, <2>2, <2>3, <2>4, OutageKept
<1>8. CASE d = u
  <2>1. \A q \in Primary : u \notin chk'[q].todo
    BY <1>1, <1>2, <1>3 DEF RoundInv
  <2>2. Spent(u) + Change(u, dom[u].host \in answers) <= Had(u)
    BY OwesNow
  <2>3. Change(u, dom[u].host \in answers)' = Change(u, dom[u].host \in answers)
    BY <1>1 DEF Change
  <2>4. Spent(u)' = Spent(u)
    BY <1>4, <1>6, <1>8 DEF Spent
  <2>5. Had(u)' = Had(u)
    <3>1. Level(u)' = Level(u)
      BY <1>1 DEF Level
    <3> QED
      BY <1>1, <3>1 DEF Had
  <2>6. Spent(u)' + Change(u, dom[u].host \in answers)' <= Had(u)'
    BY <2>2, <2>3, <2>4, <2>5
  <2> QED
    BY <1>8, <2>1, <2>6 DEF Settled, InHand
<1> QED
  BY <1>7, <1>8

\* Where nothing is announced, begun or told, alarms are what they were.
LEMMA AlarmsStay ==
  ASSUME UNCHANGED alertVars, NEW d, \A p \in Primary : chk'[p].at = chk[p].at /\ chk'[p].up = chk[p].up /\ chk'[p].cur = chk[p].cur
  PROVE  Alarms(d)' = Alarms(d)
<1>1. UNCHANGED <<timer, heard, outbox, emit>>
  BY DEF alertVars
<1>2. Pending(d)' = Pending(d) /\ Count("primary_down", d)' = Count("primary_down", d)
  BY <1>1, CountsStay DEF Pending
<1>3. Telling(d)' = Telling(d)
  BY DEF Telling
<1> QED
  BY <1>2, <1>3 DEF Alarms

\* A primary that turns changes one thing about a domain: what it answers now, or
\* the answer that a goroutine is about to get.
LEMMA TurnOutages ==
  ASSUME MonitorBounds, TypeOK, TypeOK', OutageInv, NEW p \in Primary, Turn(p), UNCHANGED <<alertVars, phase, todo, stops>>
  PROVE  OutageInv'
<1> SUFFICES ASSUME NEW d \in Domain PROVE Settled(d)' /\ \A q \in Primary : InHand(q, d)'
  BY DEF OutageInv
<1>1. UNCHANGED <<dom, status, chk, edits>> /\ turns' = turns + 1
  BY DEF Turn
<1>2. Alarms(d)' = Alarms(d)
  BY <1>1, AlarmsStay
<1>3. Resuming(d)' <=> Resuming(d)
  BY DEF Resuming
<1>4. Spent(d)' = Spent(d)
  BY <1>2, <1>3 DEF Spent, Bit
<1>5. Had(d)' = Had(d) + 1
  <2>1. Level(d)' = Level(d)
    BY <1>1 DEF Level
  <2>2. Had(d) = turns + edits + 2 * stops + Level(d) /\ Had(d)' = (turns + 1) + edits + 2 * stops + Level(d)
    BY <1>1, <2>1 DEF Had
  <2> QED
    BY <2>2, LevelsTyped
<1>6. Change(d, dom[d].host \in answers)' <= Change(d, dom[d].host \in answers) + 1
  BY DEF Change, Bit
<1>7. ASSUME NEW q \in Primary
      PROVE  Change(d, Result(q))' + Overtaken(q, d)' <= Change(d, Result(q)) + Overtaken(q, d) + 1
  <2>1. CASE chk[q].at = "probe"
    <3>1. Overtaken(q, d)' = Overtaken(q, d)
      BY <1>1, <2>1 DEF Overtaken, Result, Bit
    <3>2. Change(d, Result(q))' \in 0..1 /\ Change(d, Result(q)) \in 0..1 /\ Overtaken(q, d) \in 0..1
      BY DEF Change, Overtaken, Bit
    <3> QED
      BY <3>1, <3>2
  <2>2. CASE chk[q].at # "probe"
    <3>1. Change(d, Result(q))' = Change(d, Result(q))
      BY <1>1, <2>2 DEF Change, Result
    <3>2. Change(d, Result(q)) \in 0..1 /\ Overtaken(q, d) \in 0..1 /\ Overtaken(q, d)' \in 0..1
      BY DEF Change, Overtaken, Bit
    <3> QED
      BY <3>1, <3>2
  <2> QED
    BY <2>1, <2>2
<1>8. Settled(d) /\ \A q \in Primary : InHand(q, d)
  BY DEF OutageInv
<1>9. Spent(d)' <= Spent(d) /\ \A q \in Primary : d \in chk'[q].todo <=> d \in chk[q].todo
  BY <1>1, <1>4, LevelsTyped
<1> QED
  BY <1>5, <1>6, <1>7, <1>8, <1>9, OutageStep

\* A domain that is moved, deleted or made changes once.
LEMMA AdminOutages ==
  ASSUME MonitorBounds, TypeOK, TypeOK', RoundInv, OutageInv, Admin, UNCHANGED <<alertVars, phase, todo, stops>>
  PROVE  OutageInv'
<1> SUFFICES ASSUME NEW d \in Domain PROVE Settled(d)' /\ \A q \in Primary : InHand(q, d)'
  BY DEF OutageInv
<1>0. HealthTypes /\ HealthTypes'
  BY TypesAre
<1>1. /\ UNCHANGED <<answers, turns>> /\ edits' = edits + 1
      /\ \A p \in Primary : chk'[p].at = chk[p].at /\ chk'[p].up = chk[p].up /\ chk'[p].cur = chk[p].cur /\ chk'[p].ok = chk[p].ok
  <2>1. CASE chk' = chk /\ UNCHANGED <<answers, turns>> /\ Edit
    BY <2>1 DEF Edit
  <2>2. ASSUME NEW u \in Domain, DeleteDomain(u)
        PROVE  /\ UNCHANGED <<answers, turns>> /\ edits' = edits + 1
               /\ \A p \in Primary : chk'[p].at = chk[p].at /\ chk'[p].up = chk[p].up
                                     /\ chk'[p].cur = chk[p].cur /\ chk'[p].ok = chk[p].ok
    BY <1>0, <2>2 DEF DeleteDomain, Edit, HealthTypes, ChkRow
  <2> QED
    BY <2>1, <2>2 DEF Admin, UpdateDomain, CreateDomain
<1>2. Alarms(d)' = Alarms(d)
  BY <1>1, AlarmsStay
<1>3. Resuming(d)' <=> Resuming(d)
  BY DEF Resuming
<1>4. Spent(d)' = Spent(d)
  BY <1>2, <1>3 DEF Spent, Bit
<1>5. Settled(d) /\ \A q \in Primary : InHand(q, d)
  BY DEF OutageInv
<1>6. /\ Had(d) = turns + edits + 2 * stops + Level(d) /\ Had(d)' = turns + (edits + 1) + 2 * stops + Level(d)'
      /\ turns \in Nat /\ edits \in Nat /\ stops \in Nat /\ Level(d) \in 0..2 /\ Level(d)' \in 0..2
      /\ Spent(d) \in Nat
  BY <1>1, LevelsTyped DEF Had
<1>7. \A q \in Primary : Result(q)' <=> Result(q)
  BY <1>1 DEF Result
<1>8. ASSUME status'[d] = status[d], dom'[d].exists = dom[d].exists,
             \A q \in Primary : d \in chk'[q].todo <=> d \in chk[q].todo
      PROVE  Settled(d)' /\ \A q \in Primary : InHand(q, d)'
  <2>1. Level(d)' = Level(d)
    BY <1>8 DEF Level
  <2>2. Had(d)' = Had(d) + 1
    BY <1>6, <2>1
  <2>3. Change(d, dom[d].host \in answers)' <= Change(d, dom[d].host \in answers) + 1
    BY DEF Change, Bit
  <2>4. ASSUME NEW q \in Primary
        PROVE  Change(d, Result(q))' + Overtaken(q, d)' <= Change(d, Result(q)) + Overtaken(q, d) + 1
    <3>1. Change(d, Result(q))' = Change(d, Result(q))
      BY <1>7, <1>8 DEF Change, Bit
    <3>2. Change(d, Result(q)) \in 0..1 /\ Overtaken(q, d) \in 0..1 /\ Overtaken(q, d)' \in 0..1
      BY DEF Change, Overtaken, Bit
    <3> QED
      BY <3>1, <3>2
  <2>5. Spent(d)' <= Spent(d)
    BY <1>4, <1>6
  <2> QED
    BY <1>5, <1>8, <2>2, <2>3, <2>4, <2>5, OutageStep
<1>9. ASSUME NEW u \in Domain, NEW p \in Primary, NEW e \in BOOLEAN, UpdateDomain(u, p, e)
      PROVE  Settled(d)' /\ \A q \in Primary : InHand(q, d)'
  <2>1. status' = status /\ chk' = chk /\ dom'[d].exists = dom[d].exists
    BY <1>0, <1>9 DEF UpdateDomain, HealthTypes, DomRow
  <2> QED
    BY <1>8, <2>1
<1>10. ASSUME NEW u \in Domain, DeleteDomain(u) PROVE Settled(d)' /\ \A q \in Primary : InHand(q, d)'
  <2>1. \A q \in Primary : chk'[q].todo = chk[q].todo \ {u}
    BY <1>0, <1>10 DEF DeleteDomain, HealthTypes, ChkRow
  <2>2. CASE d # u
    <3>1. status'[d] = status[d] /\ dom'[d] = dom[d]
      BY <1>0, <1>10, <2>2 DEF DeleteDomain, HealthTypes
    <3> QED
      BY <1>8, <2>1, <2>2, <3>1
  <2>3. CASE d = u
    <3>1. ~dom'[d].exists /\ status'[d] = NewStatus
      BY <1>0, <1>10, <2>3 DEF DeleteDomain, HealthTypes, DomRow
    <3>2. Level(d)' = 1 /\ Change(d, dom[d].host \in answers)' = 0
      BY <3>1 DEF Level, Change, NewStatus, Bit
    <3>3. Spent(d) <= Had(d)
      <4>1. Spent(d) + Change(d, dom[d].host \in answers) <= Had(d) /\ Change(d, dom[d].host \in answers) \in 0..1
        BY OwesNow DEF Change, Bit
      <4> QED
        BY <1>6, <4>1, LevelsTyped
    <3>4. Spent(d)' + Change(d, dom[d].host \in answers)' <= Had(d)'
      BY <1>4, <1>6, <3>2, <3>3
    <3>5. \A q \in Primary : d \notin chk'[q].todo
      BY <2>1, <2>3
    <3> QED
      BY <3>4, <3>5 DEF Settled, InHand
  <2> QED
    BY <2>2, <2>3
<1>11. ASSUME NEW u \in Domain, NEW p \in Primary, CreateDomain(u, p) PROVE Settled(d)' /\ \A q \in Primary : InHand(q, d)'
  <2>1. chk' = chk /\ ~dom[u].exists
    BY <1>11 DEF CreateDomain
  <2>2. CASE d # u
    <3>1. status'[d] = status[d] /\ dom'[d] = dom[d]
      BY <1>0, <1>11, <2>2 DEF CreateDomain, HealthTypes
    <3> QED
      BY <1>8, <2>1, <3>1
  <2>3. CASE d = u
    <3>1. dom'[d].exists /\ status'[d] = NewStatus
      BY <1>0, <1>11, <2>3 DEF CreateDomain, HealthTypes
    <3>2. Level(d) = 1 /\ Level(d)' = 0 /\ Change(d, dom[d].host \in answers)' = 0
      BY <2>1, <2>3, <3>1 DEF Level, Change, NewStatus, Bit
    <3>3. Spent(d) <= Had(d)
      <4>1. Spent(d) + Change(d, dom[d].host \in answers) <= Had(d) /\ Change(d, dom[d].host \in answers) \in 0..1
        BY OwesNow DEF Change, Bit
      <4> QED
        BY <1>6, <4>1, LevelsTyped
    <3>4. Spent(d)' + Change(d, dom[d].host \in answers)' <= Had(d)'
      BY <1>4, <1>6, <3>2, <3>3
    <3>5. \A q \in Primary : d \notin chk'[q].todo
      BY <2>1, <2>3 DEF RoundInv
    <3> QED
      BY <3>4, <3>5 DEF Settled, InHand
  <2> QED
    BY <2>2, <2>3
<1> QED
  BY <1>9, <1>10, <1>11 DEF Admin

\* A restart may announce an outage again, and is allowed to.
LEMMA StopOutages ==
  ASSUME MonitorBounds, TypeOK, TypeOK', OutageInv, Stop
  PROVE  OutageInv'
<1> SUFFICES ASSUME NEW d \in Domain PROVE Settled(d)' /\ \A q \in Primary : InHand(q, d)'
  BY DEF OutageInv
<1>0. AlerterTypes /\ AlerterTypes'
  BY TypesAre
<1>1. /\ chk' = [p \in Primary |-> Off] /\ timer' = [t \in Timer |-> Rest] /\ Fresh
      /\ UNCHANGED <<answers, dom, status, turns, edits>> /\ stops' = stops + 1 /\ phase' = "dead"
  BY DEF Stop, Fresh, FreshHealth
<1>2. Alarms(d)' <= Alarms(d)
  <2>1. Pending(d)' = {} /\ Telling(d)' = {}
    BY <1>1 DEF Pending, Telling, Rest, Off
  <2>2. Count("primary_down", d)' <= Count("primary_down", d)
    BY <1>0, <1>1, FreshCounts
  <2> QED
    BY <1>0, <2>1, <2>2, AlarmsFall
<1>3. Spent(d)' <= Spent(d) + 2
  <2>1. Spent(d) = 2 * Alarms(d) + 2 * Bit(Resuming(d)) /\ Spent(d)' = 2 * Alarms(d)' + 2 * Bit(Resuming(d)')
    BY DEF Spent
  <2> QED
    BY <1>2, <2>1, LevelsTyped
<1>4. Had(d)' = Had(d) + 2
  <2>1. Level(d)' = Level(d)
    BY <1>1 DEF Level
  <2>2. Had(d) = turns + edits + 2 * stops + Level(d) /\ Had(d)' = turns + edits + 2 * (stops + 1) + Level(d)
    BY <1>1, <2>1 DEF Had
  <2> QED
    BY <2>2, LevelsTyped
<1>5. Change(d, dom[d].host \in answers)' = Change(d, dom[d].host \in answers)
  BY <1>1 DEF Change
<1>6. Change(d, dom[d].host \in answers) \in 0..1
  BY DEF Change, Bit
<1>7. Spent(d) + Change(d, dom[d].host \in answers) <= Had(d)
  BY OwesNow
<1>8. Spent(d)' + Change(d, dom[d].host \in answers)' <= Had(d)'
  BY <1>3, <1>4, <1>5, <1>6, <1>7, LevelsTyped
<1>9. \A p \in Primary : d \notin chk'[p].todo
  BY <1>1 DEF Off
<1> QED
  BY <1>8, <1>9 DEF Settled, InHand

\* Outages stay accounted for in every step.
LEMMA NextOutages ==
  MonitorBounds /\ TypeOK /\ TypeOK' /\ EmitInv /\ RoundInv /\ OutageInv /\ [Next]_vars => OutageInv'
<1> SUFFICES ASSUME MonitorBounds, TypeOK, TypeOK', EmitInv, RoundInv, OutageInv, [Next]_vars PROVE OutageInv'
  OBVIOUS
<1>1. CASE /\ UNCHANGED <<healthVars, todo, stops>>
           /\ phase' = phase \/ {phase, phase'} \subseteq {"run", "stopping"}
           /\ \/ \E t \in Timer : Elapse(t) \/ Fire(t)
              \/ \E a \in Timer \cup Caller : ShouldSend(a) \/ Enqueue(a)
              \/ Deliver \/ \E k \in lastSent : IntervalElapses(k)
              \/ \E e \in Domain, c \in Caller \ Primary : NotifyMail(c, e)
              \/ StopTimers \/ UNCHANGED alertVars
  BY <1>1, AlerterOutages
<1>2. CASE Signal
  BY <1>1, <1>2 DEF Signal
<1>3. CASE ResumeFails \/ Run \/ Start
  BY <1>3, StartOutages
<1>4. ASSUME NEW d \in Domain, ResumeDomain(d) PROVE OutageInv'
  BY <1>4, ResumeOutages
<1>5. CASE Stop
  BY <1>5, StopOutages
<1>6. CASE CheckAll /\ UNCHANGED alertVars /\ UNCHANGED procVars
  BY <1>6, RoundOutages DEF procVars
<1>7. ASSUME NEW p \in Primary, UNCHANGED procVars, Checker(p) \/ Notify(p) PROVE OutageInv'
  <2>1. CASE \E d \in Domain : Apply(p, d) /\ UNCHANGED alertVars
    BY <1>7, <2>1, ApplyOutages DEF procVars
  <2>2. CASE \E d \in Domain : ApplyFails(p, d) /\ UNCHANGED alertVars
    BY <1>7, <2>2, FailOutages DEF procVars
  <2>3. CASE Notify(p) \/ (UNCHANGED alertVars /\ (Probe(p) \/ RoundDone(p) \/ Pull(p) \/ Wake(p)))
    BY <1>7, <2>3, CheckerOutages DEF procVars
  <2> QED
    BY <1>7, <2>1, <2>2, <2>3 DEF Checker
<1>8. CASE Loop /\ UNCHANGED alertVars /\ UNCHANGED procVars
  <2> SUFFICES ASSUME NEW d \in Domain PROVE Settled(d)' /\ \A p \in Primary : InHand(p, d)'
    BY DEF OutageInv
  <2>1. UNCHANGED <<answers, dom, status, chk, turns, edits, phase, todo, stops>>
    BY <1>8 DEF Loop, PassBegins, PassClaims, PassEnds, procVars
  <2>2. Alarms(d)' = Alarms(d)
    BY <1>8, <2>1, AlarmsStay
  <2>3. (Resuming(d)' <=> Resuming(d)) /\ \A p \in Primary : Result(p)' <=> Result(p)
    BY <2>1 DEF Resuming, Result
  <2>4. Alarms(d)' + Bit(Resuming(d)') <= Alarms(d) + Bit(Resuming(d))
    <3>1. Bit(Resuming(d)') = Bit(Resuming(d))
      BY <2>3 DEF Bit
    <3> QED
      BY <2>2, <3>1, LevelsTyped
  <2>5. Settled(d) /\ \A p \in Primary : InHand(p, d)
    BY DEF OutageInv
  <2> QED
    BY <2>1, <2>3, <2>4, <2>5, OutageKept
<1>9. ASSUME NEW p \in Primary, Turn(p), UNCHANGED <<alertVars, procVars>> PROVE OutageInv'
  BY <1>9, TurnOutages DEF procVars
<1>10. CASE Admin /\ UNCHANGED <<alertVars, procVars>>
  BY <1>10, AdminOutages DEF procVars
<1>11. CASE UNCHANGED <<healthVars, procVars>>
            /\ \/ \E t \in Timer : Elapse(t) \/ Fire(t)
               \/ \E a \in Timer \cup Caller : ShouldSend(a) \/ Enqueue(a)
               \/ Deliver \/ \E k \in lastSent : IntervalElapses(k)
  BY <1>1, <1>11 DEF procVars
<1>12. ASSUME NEW c \in Caller \ Primary, NEW d \in Domain, NotifyOther(c, d) PROVE OutageInv'
  BY <1>1, <1>12 DEF NotifyOther
<1>13. CASE UNCHANGED vars
  <2>1. UNCHANGED alertVars /\ UNCHANGED healthVars /\ UNCHANGED <<phase, todo, stops>>
    BY <1>13 DEF vars
  <2> QED
    BY <1>1, <2>1
<1> QED
  <2>1. CASE Next
    BY <2>1, <1>2, <1>3, <1>4, <1>5, <1>6, <1>7, <1>8, <1>9, <1>10, <1>11, <1>12 DEF Next
  <2> QED
    BY <2>1, <1>13

-----------------------------------------------------------------------------
(* The theorems.                                                           *)

\* The inductive invariant holds at the start.
LEMMA InitMonitorInv == MonitorBounds /\ Init => MonitorInv
<1> SUFFICES ASSUME MonitorBounds, Init PROVE MonitorInv
  OBVIOUS
<1> USE Beginnings, BoundsAreNumbers
<1>1. TypeOK
  <2>1. AlerterTypes
    <3>1. << >> \in Seq(Key) /\ Len(<< >>) = 0 /\ << >> \in Seq(News)
      OBVIOUS
    <3> QED
      BY <3>1 DEF Init, AlerterInit, AlerterTypes
  <2>2. HealthTypes
    BY DEF Init, HealthInit, HealthTypes, DomRow
  <2>3. ProcessTypes
    BY DEF Init, ProcessTypes
  <2> QED
    BY <2>1, <2>2, <2>3, TypesAre
<1>2. WakeInv
  BY DEF Init, HealthInit, WakeInv, Claimable
<1>3. EmitInv
  BY DEF Init, AlerterInit, HealthInit, EmitInv
<1>4. RoundInv
  BY DEF Init, HealthInit, RoundInv
<1>5. ASSUME NEW d \in Domain PROVE \A kind : Count(kind, d) = 0
  <2> TAKE kind
  <2>1. heard[d] = << >> /\ outbox = << >> /\ \A a \in Timer \cup Caller : emit[a].at = "idle"
    BY DEF Init, AlerterInit
  <2>2. Places(heard[d], kind) = {} /\ Places(outbox, <<kind, d>>) = {} /\ Under(emit, <<kind, d>>) = {}
    BY <2>1 DEF Places, Under
  <2>3. Of(heard[d], kind) = 0 /\ Of(outbox, <<kind, d>>) = 0 /\ On(emit, <<kind, d>>) = 0
    BY <2>2, FS_EmptySet DEF Of, On
  <2> QED
    BY <2>3, CountIs
<1>6. RecoveryInv
  BY <1>5 DEF Init, AlerterInit, RecoveryInv, Bit
<1>7. OutageInv
  <2> SUFFICES ASSUME NEW d \in Domain PROVE Settled(d) /\ \A p \in Primary : InHand(p, d)
    BY DEF OutageInv
  <2>1. Pending(d) = {} /\ Telling(d) = {}
    BY DEF Init, AlerterInit, HealthInit, Pending, Telling
  <2>2. Alarms(d) = 0
    BY <1>5, <2>1, FS_EmptySet DEF Alarms
  <2>3. ~Resuming(d) /\ ~status[d].checked
    BY DEF Init, HealthInit, Resuming, NewStatus
  <2>4. Spent(d) = 0 /\ Change(d, dom[d].host \in answers) = 0
    BY <2>2, <2>3 DEF Spent, Change, Bit
  <2>5. Had(d) = Level(d) /\ Level(d) \in 0..2
    <3>1. Level(d) \in 0..2
      BY DEF Level
    <3>2. turns = 0 /\ edits = 0 /\ stops = 0
      BY DEF Init, HealthInit
    <3> QED
      BY <3>1, <3>2 DEF Had
  <2>6. Settled(d)
    BY <2>4, <2>5 DEF Settled
  <2>7. \A p \in Primary : d \notin chk[p].todo
    BY DEF Init, HealthInit
  <2> QED
    BY <2>6, <2>7 DEF InHand
<1> QED
  BY <1>1, <1>2, <1>3, <1>4, <1>6, <1>7 DEF MonitorInv

\* It is kept by every step.
LEMMA NextMonitorInv == MonitorBounds /\ MonitorInv /\ [Next]_vars => MonitorInv'
<1> SUFFICES ASSUME MonitorBounds, MonitorInv, [Next]_vars PROVE MonitorInv'
  OBVIOUS
<1>1. TypeOK /\ WakeInv /\ EmitInv /\ RoundInv /\ RecoveryInv /\ OutageInv
  BY DEF MonitorInv
<1>2. TypeOK'
  BY <1>1, NextTyped
<1>3. WakeInv' /\ EmitInv' /\ RoundInv'
  BY <1>1, NextWakes, NextEmits, NextRounds
<1>4. RecoveryInv' /\ OutageInv'
  BY <1>1, <1>2, NextRecovers, NextOutages
<1> QED
  BY <1>2, <1>3, <1>4 DEF MonitorInv

\* Whatever probes, timers, alerts, restarts and edits do, in any order, wake-ups
\* are kept in mind, rounds are disjoint, recoveries take back outages and outages
\* are paid for by what primaries, administrators and restarts did.
THEOREM MonitorInvariant == MonitorBounds => (Spec => []MonitorInv)
<1> SUFFICES ASSUME MonitorBounds PROVE Spec => []MonitorInv
  OBVIOUS
<1>1. Init => MonitorInv
  BY InitMonitorInv
<1>2. MonitorInv /\ [Next]_vars => MonitorInv'
  BY NextMonitorInv
<1> QED
  BY <1>1, <1>2, PTL DEF Spec

\* The wake-up is not lost: mail of a primary that came back is claimed, or the
\* delivery loop is about to hear of it (health.go, apply; sender.go, Run).
THEOREM WakeupsKept == MonitorBounds => (Spec => []NoLostWakeup)
<1> SUFFICES ASSUME MonitorBounds PROVE Spec => []NoLostWakeup
  OBVIOUS
<1>1. MonitorInv => NoLostWakeup
  BY DEF MonitorInv, WakeInv, NoLostWakeup
<1> QED
  BY <1>1, MonitorInvariant, PTL

\* Every recovery the operator hears of has an outage of its own, and no outage is
\* told more often than there was one to tell (alert.go, primaryDownSince,
\* primaryUp, shouldSend; health.go, apply).
THEOREM AlertsTrue == MonitorBounds => (Spec => []AlertsAreTrue)
<1> SUFFICES ASSUME MonitorBounds PROVE Spec => []AlertsAreTrue
  OBVIOUS
<1>1. MonitorInv => RecoveriesHaveOutages
  <2> SUFFICES ASSUME MonitorInv, NEW d \in Domain \ unheard PROVE Count("primary_up", d) <= Count("primary_down", d)
    BY DEF RecoveriesHaveOutages
  <2>1. AlerterTypes
    BY TypesAre DEF MonitorInv
  <2>2. Count("primary_up", d) \in Nat /\ Count("primary_down", d) \in Nat
    BY <2>1, CountsTyped
  <2>3. Bit(d \in fired) \in 0..1
    BY DEF Bit
  <2>4. Count("primary_up", d) + Bit(d \in fired) <= Count("primary_down", d)
    BY DEF MonitorInv, RecoveryInv
  <2> QED
    BY <2>2, <2>3, <2>4
<1>2. MonitorInv => OutagesAreToldOnce
  <2> SUFFICES ASSUME MonitorInv, NEW d \in Domain
               PROVE  Count("primary_down", d) <= 1 + stops + (turns + edits) \div 2
    BY DEF OutagesAreToldOnce
  <2>0. AlerterTypes /\ TypeOK
    BY TypesAre DEF MonitorInv
  <2> DEFINE n == Count("primary_down", d)
             m == Cardinality(Pending(d))
             l == Cardinality(Telling(d))
  <2>1. n \in Nat /\ m \in Nat /\ l \in Nat
    BY <2>0, CountsTyped, AlarmsTyped
  <2>2. turns \in Nat /\ edits \in Nat /\ stops \in Nat
    BY <2>0, TypesAre, BoundsAreNumbers DEF HealthTypes, ProcessTypes
  <2>3. Bit(Resuming(d)) \in 0..1 /\ Level(d) \in 0..2
    BY DEF Bit, Level
  <2>4. Spent(d) = 2 * (n + m + l) + 2 * Bit(Resuming(d)) /\ Had(d) = turns + edits + 2 * stops + Level(d)
    BY DEF Spent, Had, Alarms
  <2>5. Spent(d) <= Had(d)
    <3>1. CASE \A p \in Primary : d \notin chk[p].todo
      <4>1. Spent(d) + Change(d, dom[d].host \in answers) <= Had(d) /\ Change(d, dom[d].host \in answers) \in 0..1
        BY <3>1 DEF MonitorInv, OutageInv, Settled, Change, Bit
      <4> HIDE DEF n, m, l
      <4> QED
        BY <2>1, <2>2, <2>3, <2>4, <4>1
    <3>2. ASSUME NEW p \in Primary, d \in chk[p].todo PROVE Spent(d) <= Had(d)
      <4>1. Spent(d) + Change(d, Result(p)) + Overtaken(p, d) <= Had(d)
            /\ Change(d, Result(p)) \in 0..1 /\ Overtaken(p, d) \in 0..1
        BY <3>2 DEF MonitorInv, OutageInv, InHand, Change, Overtaken, Bit
      <4> HIDE DEF n, m, l
      <4> QED
        BY <2>1, <2>2, <2>3, <2>4, <4>1
    <3> QED
      BY <3>1, <3>2
  <2>6. 2 * n <= turns + edits + 2 * stops + 2
    <3> HIDE DEF n, m, l
    <3> QED
      BY <2>1, <2>2, <2>3, <2>4, <2>5
  <2> HIDE DEF n
  <2>7. n <= 1 + stops + (turns + edits) \div 2
    BY <2>1, <2>2, <2>6
  <2> QED
    BY <2>7 DEF n
<1> QED
  BY <1>1, <1>2, MonitorInvariant, PTL DEF AlertsAreTrue
=============================================================================
