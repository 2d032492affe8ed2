------------------------------ MODULE MailService ------------------------------
(***************************************************************************)
(* What the appliance promises about mail, with the queue table, the spool *)
(* directory, the goroutines and the failures left out: it owes a message  *)
(* to the recipients it accepted it for, and stops owing it to one of them *)
(* only because a destination took it or refused it for good, or because   *)
(* the message was written off in the open.                                *)
(***************************************************************************)
CONSTANTS Message, Rcpt

VARIABLES envelope, \* [Message -> recipients it was accepted for, {}: not accepted]
          owed,     \* [Message -> recipients it is kept for]
          taken,    \* [Message -> recipients a destination took it for]
          denied,   \* [Message -> recipients a destination refused for good]
          dropped   \* messages that expired or an administrator removed

serviceVars == <<envelope, owed, taken, denied, dropped>>

Nobody == [m \in Message |-> {}]

ServiceInit ==
  /\ envelope = Nobody /\ owed = Nobody /\ taken = Nobody /\ denied = Nobody
  /\ dropped = {}

\* Responsibility for a new message is taken with all of its recipients
AcceptMail(m, R) ==
  /\ envelope[m] = {} /\ R # {}
  /\ envelope' = [envelope EXCEPT ![m] = R]
  /\ owed' = [owed EXCEPT ![m] = R]
  /\ UNCHANGED <<taken, denied, dropped>>

\* Destinations answer for recipients of the message, of whom some may be
\* served again after a failure; nobody is forgotten yet
Answered(m, T, N) ==
  /\ T \cup N # {} /\ T \cup N \subseteq envelope[m]
  /\ taken' = [taken EXCEPT ![m] = @ \cup T]
  /\ denied' = [denied EXCEPT ![m] = @ \cup N]
  /\ UNCHANGED <<envelope, owed, dropped>>

\* Recipients who have their answer are owed nothing any more
Discharge(m, S) ==
  /\ S # {} /\ S \subseteq owed[m]
  /\ S \subseteq taken[m] \cup denied[m] \/ m \in dropped
  /\ owed' = [owed EXCEPT ![m] = @ \ S]
  /\ UNCHANGED <<envelope, taken, denied, dropped>>

\* Messages expire or are removed by an administrator; what is owed may stay
\* for a while
WriteOff(S, kept) ==
  /\ \A m \in S : envelope[m] # {}
  /\ dropped' = dropped \cup S
  /\ owed' = [m \in Message |-> IF m \in S \ kept THEN {} ELSE owed[m]]
  /\ UNCHANGED <<envelope, taken, denied>>

\* An administrator has a finished message sent again
Reopen(m, R) ==
  /\ owed[m] = {} /\ R # {} /\ R \subseteq envelope[m]
  /\ owed' = [owed EXCEPT ![m] = R]
  /\ UNCHANGED <<envelope, taken, denied, dropped>>

ServiceNext ==
  \/ \E m \in Message, R \in SUBSET Rcpt : AcceptMail(m, R) \/ Discharge(m, R) \/ Reopen(m, R)
  \/ \E m \in Message, T, N \in SUBSET Rcpt : Answered(m, T, N)
  \/ \E S, kept \in SUBSET Message : WriteOff(S, kept)

ServiceSpec == ServiceInit /\ [][ServiceNext]_serviceVars
================================================================================
