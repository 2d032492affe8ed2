-------------------------------- MODULE Panel --------------------------------
(***************************************************************************)
(* What stands behind the panel: accounts and their sessions (Accounts),   *)
(* the second factor of an account (SecondFactor), the live stream         *)
(* (LiveEvents) and the limit on sign-ins (Limiter).  They share no state; *)
(* here are their instances, for any number of requests, accounts, codes,  *)
(* streams and addresses, and what is promised of each.                    *)
(***************************************************************************)
EXTENDS Integers, Sequences, FiniteSets, TLC

CONSTANTS Request, Session, Token, Email, Subject, Nobody, MaxId, MaxPassword, Ops,
          AutoProvision, PasswordLogin, DefaultRole, Aborts              \* Accounts
VARIABLES users, nextId, sess, tok, req, first
Users == INSTANCE Accounts

CONSTANTS Client,    \* requests on the second factor of one account
          Handlers,  \* the handlers they use
          RecoveryCode, MaxSecret, MaxBatch, MaxStep                     \* SecondFactor
VARIABLES on, secret, last, codes, step, made, batch, proof, used, twice
Factor == INSTANCE SecondFactor WITH now <- step, req <- proof, Request <- Client, Ops <- Handlers

CONSTANTS Stream, Buffer, MaxEvents                                      \* LiveEvents
VARIABLES at, chan, clients, closed, server, events, from, got, missed, panic
Streams == INSTANCE LiveEvents

CONSTANTS Key, Budget, Window, MaxKeys, MaxOpen, MaxTime                 \* Limiter
VARIABLES now, attempts, open, tried
Limit == INSTANCE Limiter

ASSUME PanelAssumption ==
    Users!AccountBounds /\ Factor!SecondFactorBounds /\ Streams!LiveBounds /\ Limit!LimiterBounds

\* With requests one after the other, and accounts made by setup or by an
\* administrator, the last administrator is neither deleted nor demoted, by a
\* handler or by the roles a provider sends, and setup makes one only (users.go,
\* CreateFirstUser, DeleteUser, UpdateUserScope).
AdministratorRemains == Users!OneAtATime /\ ~AutoProvision => Users!AdministratorRemains /\ Users!SetupOnce

\* With requests one after the other, each waited for, a password change leaves no
\* session that rests on the former password (handleChangePassword).
ChangeEndsSessions == Users!OneAtATime /\ ~Aborts => Users!ChangeEndsSessions

\* No statement reaches an account that its request was not about, also when the
\* address of a deleted account is given again (handleUpdateUser, handleDeleteUser).
TargetsStay == Users!TargetsStay

\* No code of an authenticator and no recovery code is accepted twice, by requests
\* one after the other over several enrolments, or at the same time within one
\* (ConsumeTOTPStep, ConsumeRecoveryCode, EnableTOTP).
CodesAreUsedOnce == Factor!CodesAreUsedOnce

\* A stream gets in order every event that found room in its own channel, so that a
\* slow client costs the others nothing; no channel is closed twice or sent on when
\* closed (hub.go, Notify, Unsubscribe, Close).
SlowClientsAreAlone == Streams!SlowClientsAreAlone /\ Streams!NoPanic

\* No address is let in more often than its budget within a window, whatever the
\* sweep of the table drops, and one whose attempts are older than the window is
\* let in again (ratelimit.go, Allow).
BudgetHolds == Limit!BudgetHolds /\ Limit!NobodyIsLockedOut

\* What tells who somebody is does not change hands: no session and no token stands
\* for a deleted account; the wizard makes no administrator beside the first account;
\* an account stays with the subject of the provider it is bound to, with requests
\* one after the other; no overlap of requests replaces the secret of a factor that
\* stays on or takes back the steps it has accepted; and, with requests one after
\* the other, a factor is on only with a secret of which a code was shown
\* (DeleteUser; CreateFirstUser; LinkOIDC; SetPendingTOTP, EnableTOTP).
IdentitiesStay ==
    [][/\ Users!OwnersExist' /\ Users!SetupIsAlone'
       /\ Users!OneAtATime => Users!KeepsSubjects
       /\ Factor!KeepsSecret
       /\ (\A c, d \in DOMAIN proof : c = d) => Factor!SecretIsProven']_<<Users!vars, Factor!vars>>
==============================================================================
