----------------------------- MODULE MCReception -----------------------------
(***************************************************************************)
(* What stands between a connection and the queue.  Listeners, block       *)
(* lists, checks and filters share no variable and each property is about  *)
(* one of them, so that it is enough to follow the behaviours in which one *)
(* of them moves, from an initial state of the others: focus says which.   *)
(* Listeners are followed three times: mail for the same domain on both    *)
(* ports; received mail with failing writes, a bounce and a crash; and     *)
(* submissions over two months with a limit that changes, inserts that     *)
(* fail and a crash.  Filters are followed twice: one message with two     *)
(* priorities and a restart, and the counters of two messages with filters *)
(* that are enabled and a read that fails.                                 *)
(***************************************************************************)
EXTENDS Admission, Screening, TLC

ASSUME ListenersAssumption == AdmissionBounds

VARIABLE focus

inspectionVars == <<cfg, says, at, live, body, spf, verdict, streamed, scan, hold, row, reply>>
filterVars == <<table, matches, lastId, rules, load, req, walk, tables, inForce, changes, restarts, fails>>
listVars == <<call, address, answer, lookup, ctx, ch, closed, heard, details, result>>

TwoEach == [p \in {"mx", "sub"} |-> 2]

\* The listeners that are used, the recipients of a message and the connections
\* at most, what operators do, and whether there are bounces, crashes and failures.
Listeners ==
    [both       |-> [ports |-> {"mx", "sub"}, rcpts |-> 1, open |-> 3, ops |-> {"drain", "account"},
                     bounces |-> 0, crashes |-> 0, months |-> 1, fails |-> FALSE],
     inbound    |-> [ports |-> {"mx"}, rcpts |-> 2, open |-> 3, ops |-> {"domain", "disk"},
                     bounces |-> 1, crashes |-> 1, months |-> 1, fails |-> TRUE],
     submission |-> [ports |-> {"sub"}, rcpts |-> 2, open |-> 2, ops |-> {"limit"},
                     bounces |-> 0, crashes |-> 1, months |-> 2, fails |-> TRUE]]

Within(k) ==
    /\ \A c \in Conn : conn[c].n <= k.rcpts /\ (Busy(c) => conn[c].port \in k.ports)
                       /\ (conn[c].at = "failed" => k.fails)
    /\ Cardinality({c \in Conn : conn[c].at # "free"}) <= k.open
    /\ bounces <= k.bounces /\ crashes <= k.crashes /\ month <= k.months
    /\ draining => "drain" \in k.ops
    /\ lowDisk => "disk" \in k.ops
    /\ ~account => "account" \in k.ops
    /\ \A d \in Domain : ~dom[d].on => "domain" \in k.ops
    /\ reopened # {} => "limit" \in k.ops

\* Connections are told apart by nothing.
Alike == Permutations(Conn)

\* rspamd out of reach, or an answer, of the whole chain or not
RspamdDown == [down |-> TRUE, action |-> "none", skipped |-> FALSE]
AnyRspamd == {RspamdDown} \union [down : {FALSE}, action : {"none", "soft reject", "reject"}, skipped : BOOLEAN]

\* One initial state of the others, while one of them moves.
ListenersAtRest == \A d \in Domain : dom[d].limit = 1
ChecksAtRest ==
    /\ cfg = (CHOOSE c \in Checks!Config : TRUE)
    /\ says = [filter |-> "none", rspamd |-> RspamdDown, clamd |-> "ok", auth |-> "nobody"]
ListsAtRest == call = "check" /\ address = "public" /\ answer = [z \in Zone |-> "notfound"]

\* The filters a behaviour is about.
OneMessage == /\ fails = 0 /\ walk["m2"].at = "no"
              /\ \A i \in FilterId : table[i].match \subseteq {"m1"}
TwoMessages == /\ restarts = 0
               /\ \A i \in FilterId : table[i].id = 0 \/ (/\ table[i].prio = 1 /\ table[i].on
                                                       /\ table[i].match = {"m1", "m2"})

Init ==
    /\ focus \in DOMAIN Listeners \union {"checks", "verdicts", "counts", "lists"}
    /\ AdmissionInit /\ (focus \notin DOMAIN Listeners => ListenersAtRest)
    /\ IF focus = "checks" THEN Checks!InspectionInit ELSE ChecksAtRest /\ Checks!InspectionInit
    /\ Rules!FiltersInit
    /\ IF focus = "lists" THEN Lists!DnsblInit ELSE ListsAtRest /\ Lists!DnsblInit

Next ==
    \/ /\ focus \in DOMAIN Listeners /\ AdmissionNext
       /\ UNCHANGED <<focus, inspectionVars, filterVars, listVars>> /\ Within(Listeners[focus])'
    \/ focus = "checks" /\ Checks!InspectionNext /\ UNCHANGED <<focus, vars, filterVars, listVars>>
    \/ focus = "verdicts" /\ Rules!FiltersNext /\ OneMessage' /\ UNCHANGED <<focus, vars, inspectionVars, listVars>>
    \/ focus = "counts" /\ Rules!FiltersNext /\ TwoMessages' /\ UNCHANGED <<focus, vars, inspectionVars, listVars>>
    \/ focus = "lists" /\ Lists!DnsblNext /\ UNCHANGED <<focus, vars, inspectionVars, filterVars>>

Spec == Init /\ [][Next]_<<focus, vars, inspectionVars, filterVars, listVars>>
==============================================================================
