------------------------------ MODULE MCWebhooks ------------------------------
(***************************************************************************)
(* Webhooks, in two modes: two subscriptions and the tailer, with two of   *)
(* an error, an end of the process and a request of an administrator (the  *)
(* behaviours in which the delivery loop never gets a turn: the tailer     *)
(* reads nothing it writes, so that they show all the tailer can do); and  *)
(* one subscription whose rows are delivered, with attempts that fail.     *)
(***************************************************************************)
EXTENDS Webhooks, TLC

VARIABLE mode

InMode ==
  CASE mode = "fanout"  -> requests + faults + stops <= (IF ctx = "done" THEN 1 ELSE 2)
    [] mode = "retries" -> /\ Cardinality({h \in Hook : hooks[h].exists}) <= 1 /\ Len(types) <= 2 /\ rows <= 2
                           /\ requests + faults <= 1 /\ stops = 0 /\ ctx = "live"

TurnsInit == Init /\ mode \in {"fanout", "retries"} /\ InMode
TurnsNext == /\ IF mode = "fanout" THEN LogNext \/ Process ELSE Next
             /\ UNCHANGED mode /\ InMode'
TurnsSpec == TurnsInit /\ [][TurnsNext]_<<vars, mode>>

\* Subscriptions are told apart by nothing
Symmetry == Permutations(Hook)
===============================================================================
