------------------------------- MODULE MCUpkeep -------------------------------
(***************************************************************************)
(* What works beside the queue: the encrypted store of bodies, the text of *)
(* times, backups, certificates and the guard on their issuance, DKIM keys *)
(* and outbound routes.  The seven share no variable and each property is  *)
(* about one of them, so that it is enough to follow the behaviours in     *)
(* which one of them moves, from an initial state of the others: focus     *)
(* says which, and with which sizes and bounds.                            *)
(***************************************************************************)
EXTENDS Upkeep

VARIABLE focus

blobVars == <<keyFile, used, opened, len, put, file, rd, damaged, damage, crashes>>
timeVars == <<clock, retry, retryDue, claimed>>
backupVars == <<now, at, files, stamp, due, taken, left, stops, faults>>
certVars == <<time, ca, cert, issued, lastErr, loop, delay, upSince, outage, flips, restarts>>
guardVars == <<moment, tokens, lastFill, until, free, through, atOnce>>
signVars == <<row, generated, dns, published, forced, patch, signature, sent, changes>>
routeVars == <<routes, lastId, routePatch, envelope, todo, gone, routeChanges, errors>>
vars == <<focus, blobVars, timeVars, backupVars, certVars, guardVars, signVars, routeVars>>

-----------------------------------------------------------------------------
(* Bodies: files damaged from outside, in one process, which is the        *)
(* instance of Upkeep; and two processes that open the store while one of  *)
(* them crashes, with a size limit.                                        *)

Keys == INSTANCE BlobStore WITH
    Proc <- {"p1", "p2"}, MaxBytes <- 2, MaxDamage <- 0, MaxCrashes <- 2

ASSUME KeysAssumption == Keys!BlobBounds

-----------------------------------------------------------------------------
(* Routes whose patterns overlap, and messages to one destination each.    *)

Apex == <<"acme", "net">>
Mx == <<"mx", "acme", "net">>
Deep == <<"a", "mx", "acme", "net">>
Patterns == [sub : BOOLEAN, labels : {Apex, Mx}]
Destinations == {<<Apex>>, <<Mx>>, <<Deep>>}

-----------------------------------------------------------------------------
\* One initial state of the components that have several, while others move.
BodiesAtRest == len = [i \in Id |-> 0]
RoutesAtRest == envelope = [m \in Mail |-> <<Apex>>]

Init ==
    /\ focus \in {"damage", "keys", "times", "backups", "renewals", "guard", "keypairs", "routes"}
    /\ \/ focus = "damage" /\ Bodies!BlobInit
       \/ focus = "keys" /\ Keys!BlobInit
       \/ focus \notin {"damage", "keys"} /\ BodiesAtRest /\ Bodies!BlobInit
    /\ IF focus = "times" THEN Times!TimeInit ELSE clock = 0 /\ retryDue = 0 /\ Times!TimeInit
    /\ IF focus = "renewals" THEN Renewals!CertificatesInit ELSE ca = TRUE /\ Renewals!CertificatesInit
    /\ Backups!BackupInit /\ Guard!GuardInit /\ Keypairs!SigningInit
    /\ IF focus = "routes" THEN Routes!RoutingInit ELSE RoutesAtRest /\ Routes!RoutingInit

Next ==
    \/ /\ focus = "damage" /\ Bodies!BlobNext
       /\ UNCHANGED <<focus, timeVars, backupVars, certVars, guardVars, signVars, routeVars>>
    \/ /\ focus = "keys" /\ Keys!BlobNext
       /\ UNCHANGED <<focus, timeVars, backupVars, certVars, guardVars, signVars, routeVars>>
    \/ /\ focus = "times" /\ Times!TimeNext
       /\ UNCHANGED <<focus, blobVars, backupVars, certVars, guardVars, signVars, routeVars>>
    \/ /\ focus = "backups" /\ Backups!BackupNext
       /\ UNCHANGED <<focus, blobVars, timeVars, certVars, guardVars, signVars, routeVars>>
    \/ /\ focus = "renewals" /\ Renewals!CertificatesNext
       /\ UNCHANGED <<focus, blobVars, timeVars, backupVars, guardVars, signVars, routeVars>>
    \/ /\ focus = "guard" /\ Guard!GuardNext
       /\ UNCHANGED <<focus, blobVars, timeVars, backupVars, certVars, signVars, routeVars>>
    \/ /\ focus = "keypairs" /\ Keypairs!SigningNext
       /\ UNCHANGED <<focus, blobVars, timeVars, backupVars, certVars, guardVars, routeVars>>
    \/ /\ focus = "routes" /\ Routes!RoutingNext
       /\ UNCHANGED <<focus, blobVars, timeVars, backupVars, certVars, guardVars, signVars>>

Spec == Init /\ [][Next]_vars
==============================================================================
