-------------------------------- MODULE Health --------------------------------
(***************************************************************************)
(* internal/health and the primary_status table: the checker probes every  *)
(* primary once a round and applies the answer to the domains that share   *)
(* it.  RecordProbe turns answers into a status with two thresholds; a     *)
(* status that flips is told to the alerter, and a primary that comes back *)
(* pulls its queue forward and wakes the delivery loop.                    *)
(*                                                                         *)
(* A round has one goroutine per primary, which works on the domains that  *)
(* were listed when the round began; administrators change the domains     *)
(* meanwhile.  The record of the event log is left out here: RecordEvent's *)
(* error is only logged.                                                   *)
(***************************************************************************)
EXTENDS Alerter

CONSTANTS Primary,          \* host, port and TLS mode of a primary
          FailureThreshold, \* health.failure_threshold
          SuccessThreshold, \* health.success_threshold
          WakeDepth,        \* capacity of the wake-up channel
          MaxTurns,         \* bound: times a primary goes away or comes back
          MaxEdits,         \* bound: changes of domains
          MaxFaults         \* bound: database errors injected

HealthBounds == /\ FailureThreshold \in Nat \ {0}
                /\ SuccessThreshold \in Nat \ {0}
                /\ WakeDepth \in Nat \ {0}
                /\ Primary \subseteq Caller
                /\ MaxTurns \in Nat /\ MaxEdits \in Nat /\ MaxFaults \in Nat

VARIABLES
  answers, \* the primaries that answer a probe now
  dom,     \* [Domain -> record]: the domains table
  status,  \* [Domain -> record]: the primary_status table
  chk,     \* [Primary -> record]: the goroutine of this round for that primary
  wake,    \* messages in the wake-up channel
  sender,  \* the delivery loop: waiting, in a pass, or about to wait
  due,     \* history: domains pulled forward by this process, and since then neither
           \* claimed from nor disabled or enabled
  turns, edits, faults

healthVars == <<answers, dom, status, chk, wake, sender, due, turns, edits, faults>>

\* The counters are compared with their threshold only: capped there
Status == [up : BOOLEAN, checked : BOOLEAN,
           fails : 0..FailureThreshold, succ : 0..SuccessThreshold]

\* CreateDomain seeds a status that was never checked
NewStatus == [up |-> FALSE, checked |-> FALSE, fails |-> 0, succ |-> 0]

Off == [at |-> "off", todo |-> {}, cur |-> CHOOSE d \in Domain : TRUE,
        ok |-> FALSE, up |-> FALSE]

HealthTypeOK ==
  /\ answers \subseteq Primary
  /\ dom \in [Domain -> [exists : BOOLEAN, enabled : BOOLEAN, host : Primary]]
  /\ status \in [Domain -> Status]
  /\ chk \in [Primary -> [at : {"off", "probe", "record", "notify", "pull", "wake"},
                          todo : SUBSET Domain, cur : Domain,
                          ok : BOOLEAN, up : BOOLEAN]]
  /\ wake \in 0..WakeDepth
  /\ sender \in {"wait", "pass", "leave"}
  /\ due \subseteq Domain
  /\ turns \in 0..MaxTurns /\ edits \in 0..MaxEdits /\ faults \in 0..MaxFaults

HealthInit ==
  /\ answers \in SUBSET Primary
  /\ dom \in [Domain -> [exists : BOOLEAN, enabled : BOOLEAN, host : Primary]]
  /\ status = [d \in Domain |-> NewStatus]
  /\ chk = [p \in Primary |-> Off]
  /\ wake = 0 /\ sender = "wait" /\ due = {}
  /\ turns = 0 /\ edits = 0 /\ faults = 0

FreshHealth ==
  /\ chk' = [p \in Primary |-> Off]
  /\ wake' = 0 /\ sender' = "wait" /\ due' = {}
  /\ UNCHANGED <<answers, dom, status, turns, edits, faults>>

-----------------------------------------------------------------------------
(* RecordProbe.                                                            *)

RecordProbe(s, ok) ==
  LET succ  == IF ok /\ s.succ < SuccessThreshold THEN s.succ + 1 ELSE s.succ
      fails == IF ~ok /\ s.fails < FailureThreshold THEN s.fails + 1 ELSE s.fails
  IN  [up      |-> IF ok THEN s.up \/ succ = SuccessThreshold
                         ELSE s.up /\ fails # FailureThreshold,
       checked |-> TRUE,
       fails   |-> IF ok THEN 0 ELSE fails,
       succ    |-> IF ok THEN succ ELSE 0]

\* Mutant: every probe that fails is news
FlippedAgain(s, ok) == RecordProbe(s, ok).up # s.up \/ ~ok

\* A status is news when it changes, and when the very first probe fails
Flipped(s, ok) == RecordProbe(s, ok).up # s.up \/ (~ok /\ ~s.checked)

Fault == faults < MaxFaults /\ faults' = faults + 1

-----------------------------------------------------------------------------
(* A round.                                                                *)

\* Mutant: one domain of those that share a primary is taken
SharingOne(p) ==
  LET S == {d \in Domain : dom[d].exists /\ dom[d].enabled /\ dom[d].host = p}
  IN  IF S = {} THEN S ELSE {CHOOSE d \in S : TRUE}

\* ListDomains, and the groups by primaryKey
Sharing(p) == {d \in Domain : dom[d].exists /\ dom[d].enabled /\ dom[d].host = p}

\* checkAll, at the start and at every tick, once the round before has ended
CheckAll ==
  /\ \A p \in Primary : chk[p].at = "off"
  /\ chk' = [p \in Primary |->
               IF Sharing(p) = {} THEN Off
               ELSE [Off EXCEPT !.at = "probe", !.todo = Sharing(p)]]
  /\ UNCHANGED <<answers, dom, status, wake, sender, due, turns, edits, faults>>

Probe(p) ==
  /\ chk[p].at = "probe"
  /\ chk' = [chk EXCEPT ![p].at = "record", ![p].ok = p \in answers]
  /\ UNCHANGED <<answers, dom, status, wake, sender, due, turns, edits, faults>>

\* apply, the transaction of RecordProbe
Apply(p, d) ==
  /\ chk[p].at = "record" /\ d \in chk[p].todo
  /\ status' = [status EXCEPT ![d] = RecordProbe(@, chk[p].ok)]
  /\ chk' = [chk EXCEPT ![p].todo = @ \ {d}, ![p].cur = d,
                        ![p].up = status'[d].up,
                        ![p].at = IF Flipped(status[d], chk[p].ok) THEN "notify" ELSE "record"]
  /\ UNCHANGED <<answers, dom, wake, sender, due, turns, edits, faults>>

ApplyFails(p, d) ==
  /\ chk[p].at = "record" /\ d \in chk[p].todo /\ Fault
  /\ chk' = [chk EXCEPT ![p].todo = @ \ {d}]
  /\ UNCHANGED <<answers, dom, status, wake, sender, due, turns, edits>>

RoundDone(p) ==
  /\ chk[p].at = "record" /\ chk[p].todo = {}
  /\ chk' = [chk EXCEPT ![p] = Off]
  /\ UNCHANGED <<answers, dom, status, wake, sender, due, turns, edits, faults>>

\* apply, the alerter's Notify
Notify(p) ==
  /\ chk[p].at = "notify"
  /\ \/ ~Enabled /\ UNCHANGED alertVars
     \/ Enabled /\ chk[p].up /\ PrimaryUp(p, chk[p].cur)
     \/ Enabled /\ ~chk[p].up /\ PrimaryDownSince(chk[p].cur)
  /\ chk' = [chk EXCEPT ![p].at = IF chk[p].up THEN "pull" ELSE "record"]
  /\ UNCHANGED <<answers, dom, status, wake, sender, due, turns, edits, faults>>

\* apply, RetryDomainNow once Notify has returned
Pull(p) ==
  /\ chk[p].at = "pull" /\ emit[p].at = "idle"
  /\ chk' = [chk EXCEPT ![p].at = "wake"]
  /\ \/ due' = due \cup {chk[p].cur} /\ UNCHANGED faults
     \/ Fault /\ UNCHANGED due
  /\ UNCHANGED <<answers, dom, status, wake, sender, turns, edits>>

\* Mutant: a channel without a buffer
WakeUnbuffered(p) ==
  /\ chk[p].at = "wake"
  /\ wake' = IF sender = "wait" THEN 1 ELSE wake
  /\ chk' = [chk EXCEPT ![p].at = "record"]
  /\ UNCHANGED <<answers, dom, status, sender, due, turns, edits, faults>>

\* apply, the send on the wake-up channel, which never blocks
Wake(p) ==
  /\ chk[p].at = "wake"
  /\ wake' = IF wake < WakeDepth THEN wake + 1 ELSE wake
  /\ chk' = [chk EXCEPT ![p].at = "record"]
  /\ UNCHANGED <<answers, dom, status, sender, due, turns, edits, faults>>

-----------------------------------------------------------------------------
(* The delivery loop as far as it is woken here (module Sender has it in   *)
(* full): a pass claims until nothing is left to claim.                    *)

Claimable == {d \in due : dom[d].exists /\ dom[d].enabled /\ status[d].up}

\* A tick of the delivery loop, or a message in the wake-up channel
PassBegins ==
  /\ sender = "wait"
  /\ sender' = "pass"
  /\ wake' \in {wake} \cup (IF wake > 0 THEN {wake - 1} ELSE {})
  /\ UNCHANGED <<answers, dom, status, chk, due, turns, edits, faults>>

PassClaims ==
  /\ sender = "pass"
  /\ IF Claimable = {} THEN sender' = "leave" /\ UNCHANGED due
                       ELSE due' = due \ Claimable /\ UNCHANGED sender
  /\ UNCHANGED <<answers, dom, status, chk, wake, turns, edits, faults>>

PassEnds ==
  /\ sender = "leave"
  /\ sender' = "wait"
  /\ UNCHANGED <<answers, dom, status, chk, wake, due, turns, edits, faults>>

-----------------------------------------------------------------------------
(* The primaries and the administrators.                                   *)

Turn(p) ==
  /\ turns < MaxTurns /\ turns' = turns + 1
  /\ answers' = IF p \in answers THEN answers \ {p} ELSE answers \cup {p}
  /\ UNCHANGED <<dom, status, chk, wake, sender, due, edits, faults>>

Edit == edits < MaxEdits /\ edits' = edits + 1

\* UpdateDomain: the status and its counters stay those of the old primary
UpdateDomain(d, p, e) ==
  /\ Edit /\ dom[d].exists
  /\ dom' = [dom EXCEPT ![d].host = p, ![d].enabled = e]
  /\ due' = IF dom[d].enabled /\ e THEN due ELSE due \ {d}
  /\ UNCHANGED <<answers, status, chk, wake, sender, turns, faults>>

\* DeleteDomain: ids are not used again, so RecordProbe of a goroutine that
\* still has the domain finds no row
DeleteDomain(d) ==
  /\ Edit /\ dom[d].exists
  /\ dom' = [dom EXCEPT ![d].exists = FALSE]
  /\ status' = [status EXCEPT ![d] = NewStatus]
  /\ chk' = [p \in Primary |-> [chk[p] EXCEPT !.todo = @ \ {d}]]
  /\ due' = due \ {d}
  /\ UNCHANGED <<answers, wake, sender, turns, faults>>

CreateDomain(d, p) ==
  /\ Edit /\ ~dom[d].exists
  /\ dom' = [dom EXCEPT ![d] = [exists |-> TRUE, enabled |-> TRUE, host |-> p]]
  /\ status' = [status EXCEPT ![d] = NewStatus]
  /\ UNCHANGED <<answers, chk, wake, sender, due, turns, faults>>
=============================================================================
