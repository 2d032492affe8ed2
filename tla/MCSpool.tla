-------------------------------- MODULE MCSpool --------------------------------
(***************************************************************************)
(* The mail path on small instances.  DeliverySpec: one received message   *)
(* to two recipients, with two of a request of an administrator, an error  *)
(* of the database and a crash at any point; and two messages that two     *)
(* workers deliver at once.  MailSpec: a bounce, a request about it, a     *)
(* submission, and a crash, in turn.  The mode of a behaviour says which   *)
(* messages come in and what may happen besides.                           *)
(***************************************************************************)
EXTENDS Spool, TLC

CONSTANTS m1, m2, o1

VARIABLE mode

DeliveryMode == IF mode = "one"
                THEN session[m2] = "none" /\ requests + faults + stops <= (IF ctx = "done" THEN 1 ELSE 2)
                ELSE /\ requests = 0 /\ stops = 0 /\ faults = 0 /\ ctx = "live"
                     /\ \A m \in InMsg : Cardinality(rcpts[m]) <= 1

DeliveryInit == Init /\ mode \in {"one", "pair"}
DeliveryNext == Next /\ UNCHANGED mode /\ DeliveryMode'
DeliverySpec == DeliveryInit /\ [][DeliveryNext]_<<vars, mode>>

-----------------------------------------------------------------------------
\* The messages that come in, the recipients they have at most, the requests of
\* administrators, the ends of the process and errors of the database, the
\* attempts, and whether a retention runs out.
Mode == [bounces    |-> [comes |-> {m1}, rcpts |-> 2, requests |-> 0, troubles |-> 0, attempts |-> 1, expires |-> TRUE],
         answers    |-> [comes |-> {m1}, rcpts |-> 2, requests |-> 1, troubles |-> 0, attempts |-> 1, expires |-> FALSE],
         submission |-> [comes |-> {o1}, rcpts |-> 2, requests |-> 0, troubles |-> 0, attempts |-> 2, expires |-> FALSE],
         crash      |-> [comes |-> {m1}, rcpts |-> 1, requests |-> 0, troubles |-> 1, attempts |-> 1, expires |-> FALSE]]

InMode(k) ==
  /\ \A m \in InMsg \cup OutMsg : m \in k.comes \/ session[m] = "none"
  /\ \A m \in Msg : Cardinality(rcpts[m]) <= k.rcpts /\ (queue[m].overdue => k.expires)
  /\ requests <= k.requests /\ stops <= k.troubles /\ faults <= k.troubles
  /\ ctx = "done" => k.troubles > 0

MailInit == Init /\ mode \in DOMAIN Mode
MailNext == /\ Next /\ UNCHANGED mode
            /\ InMode(Mode[mode])'
            /\ \A m \in Msg : queue[m].tries >= Mode[mode].attempts => ~BackoffElapses(m)
MailSpec == MailInit /\ [][MailNext]_<<vars, mode>>

\* Recipients are told apart by nothing.
Alike == Permutations(Rcpt)
================================================================================
