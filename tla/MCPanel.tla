------------------------------- MODULE MCPanel -------------------------------
(***************************************************************************)
(* What stands behind the panel: accounts and their sessions, the second   *)
(* factor of an account, the limit on sign-ins and the live stream.  The   *)
(* four share no variable and each property is about one of them, so that  *)
(* it is enough to follow the behaviours in which one of them moves, from  *)
(* the initial state of the others: focus says which, and with which sizes *)
(* and bounds.                                                             *)
(***************************************************************************)
EXTENDS Panel

CONSTANTS c1, c2  \* recovery codes

VARIABLE focus

accountVars == <<users, nextId, sess, tok, req, first>>
factorVars == <<on, secret, last, codes, step, made, batch, proof, used, twice>>
limitVars == <<now, attempts, open, tried>>
liveVars == <<at, chan, clients, closed, server, events, from, got, missed, panic>>
vars == <<focus, accountVars, factorVars, limitVars, liveVars>>

-----------------------------------------------------------------------------
(* Accounts: every operation, one request after the other; two setups and  *)
(* sign-ins of the provider at the same time; two requests that change     *)
(* accounts while an address is given to a new one ("races"), which is the *)
(* instance of Panel.                                                      *)

Passwords == INSTANCE Accounts WITH
    Request <- {"r1"}, Session <- {"s1", "s2"}, Token <- {}, Email <- {"e1", "e2"},
    Subject <- {"i1"}, Nobody <- "nobody", MaxId <- 2, MaxPassword <- 2,
    Ops <- {"setup", "login", "logout", "password", "create", "delete"},
    AutoProvision <- FALSE, PasswordLogin <- TRUE, DefaultRole <- "viewer", Aborts <- FALSE

Serial == INSTANCE Accounts WITH
    Request <- {"r1"}, Session <- {"s1"}, Token <- {"t1"}, Email <- {"e1", "e2"},
    Subject <- {"i1", "i2"}, Nobody <- "nobody", MaxId <- 2, MaxPassword <- 1,
    Ops <- {"setup", "login", "logout", "create", "update", "delete", "oidc", "token"},
    AutoProvision <- FALSE, PasswordLogin <- TRUE, DefaultRole <- "viewer", Aborts <- FALSE

Setups == INSTANCE Accounts WITH
    Request <- {"r1", "r2"}, Session <- {"s1"}, Token <- {}, Email <- {"e1", "e2"},
    Subject <- {"i1"}, Nobody <- "nobody", MaxId <- 2, MaxPassword <- 1,
    Ops <- {"setup", "login", "oidc"},
    AutoProvision <- TRUE, PasswordLogin <- TRUE, DefaultRole <- "viewer", Aborts <- TRUE

AccountFocus == {"passwords", "serial", "setups", "races"}

-----------------------------------------------------------------------------
(* Second factors: two enrolments, one request after the other; requests   *)
(* within one enrolment at the same time ("codes"), the instance of Panel.  *)

Enrolments == INSTANCE SecondFactor WITH
    now <- step, req <- proof, Request <- {"r1"}, RecoveryCode <- {c1, c2},
    Ops <- {"login", "setup", "enable", "disable", "renew", "reset"},
    MaxSecret <- 2, MaxBatch <- 2, MaxStep <- 3

FactorFocus == {"enrolments", "codes"}

ASSUME BoundsAssumption ==
    /\ Passwords!AccountBounds /\ Serial!AccountBounds /\ Setups!AccountBounds
    /\ Enrolments!SecondFactorBounds

-----------------------------------------------------------------------------
Init ==
    /\ focus \in AccountFocus \union FactorFocus \union {"limit", "streams"}
    /\ \/ focus = "setups" /\ Setups!AccountsInit
       \/ focus = "races" /\ Users!AccountsInit
       \/ focus = "passwords" /\ Passwords!AccountsInit
       \/ focus \notin {"setups", "races", "passwords"} /\ Serial!AccountsInit
    /\ \/ focus = "codes" /\ Factor!SecondFactorInit
       \/ focus # "codes" /\ Enrolments!SecondFactorInit
    /\ Limit!LimiterInit
    /\ Streams!LiveInit

Next ==
    \/ focus = "serial" /\ Serial!AccountsNext /\ UNCHANGED <<focus, factorVars, limitVars, liveVars>>
    \/ focus = "passwords" /\ Passwords!AccountsNext /\ UNCHANGED <<focus, factorVars, limitVars, liveVars>>
    \/ focus = "setups" /\ Setups!AccountsNext /\ UNCHANGED <<focus, factorVars, limitVars, liveVars>>
    \/ focus = "races" /\ Users!AccountsNext /\ UNCHANGED <<focus, factorVars, limitVars, liveVars>>
    \/ focus = "enrolments" /\ Enrolments!SecondFactorNext
         /\ UNCHANGED <<focus, accountVars, limitVars, liveVars>>
    \/ focus = "codes" /\ Factor!SecondFactorNext /\ UNCHANGED <<focus, accountVars, limitVars, liveVars>>
    \/ focus = "limit" /\ Limit!LimiterNext /\ UNCHANGED <<focus, accountVars, factorVars, liveVars>>
    \/ focus = "streams" /\ Streams!LiveNext /\ UNCHANGED <<focus, accountVars, factorVars, limitVars>>

Spec == Init /\ [][Next]_vars
==============================================================================
