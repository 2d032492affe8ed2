------------------------------ MODULE MCCluster ------------------------------
(***************************************************************************)
(* Nodes that synchronise, in three instances: a primary and a follower    *)
(* with imports through the API and of the rounds at the same time, with   *)
(* every operation, or with more of the ones about domains; and, with the  *)
(* constants of the configuration, three nodes, of which none, one or two  *)
(* are primaries and one calls the others.                                 *)
(***************************************************************************)
EXTENDS Cluster

CONSTANTS a, b, c, d1, u1

VARIABLE focus

\* Nothing configured; or the same domain on every node, and an account or none.
Empty == [n \in Node |-> [dom |-> (d1 :> Nothing), acct |-> (u1 :> "none")]]
Same(account) == [n \in Node |-> [dom |-> (d1 :> [host |-> a, limit |-> 1, rcpt |-> {"r"}]), acct |-> (u1 :> account)]]

FollowerCalls == [n \in Node |-> IF n = b THEN {a} ELSE {}]
ThirdCalls == [n \in Node |-> IF n = c THEN {a, b} ELSE {}]
SendsFor == u1 :> {d1}
StartAccounts == {Empty, Same("on")}
StartDomains == {Same("none")}
StartEmpty == {Empty}
AnyLeaders == {{}, {a}, {a, b}}

Import == INSTANCE Cluster WITH
    Peers <- FollowerCalls, Leaders <- {{a}}, Start <- StartAccounts,
    Ops <- {"domain", "limit", "recipients", "delete", "account", "enable", "drop", "import", "forget"},
    MaxEdits <- 2, MaxFaults <- 0

Overlap == INSTANCE Cluster WITH
    Peers <- FollowerCalls, Leaders <- {{a}}, Start <- StartDomains,
    Ops <- {"limit", "recipients", "delete", "import"}, MaxEdits <- 3, MaxFaults <- 0

ASSUME ClusterAssumption == ClusterBounds /\ Import!ClusterBounds /\ Overlap!ClusterBounds

\* The third node takes no part, and nobody uploads its document.
WithoutThird ==
    /\ round'[c] = round[c] /\ conf'[c] = conf[c] /\ imp'[c] = imp[c] /\ c \notin led'

Init ==
    /\ focus \in {"import", "overlap", "spread"}
    /\ \/ focus = "import" /\ Import!ClusterInit
       \/ focus = "overlap" /\ Overlap!ClusterInit
       \/ focus = "spread" /\ ClusterInit

Next ==
    \/ focus = "import" /\ Import!ClusterNext /\ WithoutThird /\ UNCHANGED focus
    \/ focus = "overlap" /\ Overlap!ClusterNext /\ WithoutThird /\ UNCHANGED focus
    \/ focus = "spread" /\ ClusterNext /\ edits' <= 2 /\ UNCHANGED focus

Spec == Init /\ [][Next]_<<focus, vars>>
==============================================================================
