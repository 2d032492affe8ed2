---------------------------- MODULE SecondFactor ----------------------------
(***************************************************************************)
(* The second factor of one account: the totp_ columns of its row, its     *)
(* recovery codes, and the requests that work on them.  A request reads    *)
(* the row once, when its session or its address is looked up; it decides  *)
(* on that copy and then runs one conditional UPDATE or transaction.  Two  *)
(* actions per handler: the decision, and the statement.                   *)
(***************************************************************************)
EXTENDS Integers, FiniteSets

CONSTANTS Request,      \* requests on this account at the same time
          RecoveryCode, \* positions of a code in its batch (ten in totp.go)
          Ops,          \* the handlers the clients of this instance call
          MaxSecret,    \* bound: secrets made by handleTOTPSetup
          MaxBatch,     \* bound: batches of recovery codes
          MaxStep       \* bound: 30 second steps of the clock

SecondFactorBounds == MaxSecret \in Nat /\ MaxBatch \in Nat /\ MaxStep \in Nat \ {0}

VARIABLES on,       \* totp_enabled
          secret,   \* totp_secret: the number of the secret, 0 for none
          last,     \* totp_last_step
          codes,    \* rows of totp_recovery_codes with used_at NULL
          now,      \* totp.Step of the clock
          made,     \* secrets made so far
          batch,    \* batches of recovery codes made so far
          req,      \* requests between their decision and their statement
          used,     \* history: the codes accepted so far
          twice     \* history: some code was accepted again

vars == <<on, secret, last, codes, now, made, batch, req, used, twice>>

AllOps == {"login", "setup", "enable", "disable", "renew", "reset"}
Skew == 1

\* What a client may type: what an authenticator shows for a secret and a
\* step, or a recovery code of a batch.
Totp == [kind : {"totp"}, of : 1..MaxSecret, n : 0..MaxStep + Skew]
Recovery == [kind : {"recovery"}, of : 1..MaxBatch, n : RecoveryCode]

Idle == [at |-> "idle"]
Accepting == [at : {"login", "disable", "renew"}, code : Totp \union Recovery]
Enabling == [at : {"enable"}, code : Totp]
Statement == Accepting \union Enabling
             \union [at : {"setup"}, secret : 1..MaxSecret]
             \union [at : {"disabling", "renewing", "resetting"}]

SecondFactorInit ==
    /\ on = FALSE /\ secret = 0 /\ last = 0 /\ codes = {}
    /\ now = 1 /\ made = 0 /\ batch = 0
    /\ req = [r \in Request |-> Idle]
    /\ used = {} /\ twice = FALSE

Tick ==
    /\ now < MaxStep /\ now' = now + 1
    /\ UNCHANGED <<on, secret, last, codes, made, batch, req, used, twice>>

-----------------------------------------------------------------------------
(* Decisions, on the row as it is when it is read.                         *)

\* totp.Verify: the steps around now, the ones up to lastStep left out.
Verify(s, code, lastStep) ==
    /\ s # 0 /\ code.of = s
    /\ code.n \in (now - Skew)..(now + Skew) /\ code.n > lastStep

Decide(r, op, rec) ==
    /\ op \in Ops /\ req[r] = Idle /\ req' = [req EXCEPT ![r] = rec]
    /\ UNCHANGED <<on, secret, last, codes, now, batch, used, twice>>

\* secondFactorValid, up to the statement: handleLogin with the factor on,
\* handleTOTPDisable and handleTOTPRecoveryCodes through confirmIdentity.
\* Of a recovery code only the statement decides.
Present(r, op, code) ==
    /\ on /\ (code.kind = "totp" => Verify(secret, code, last))
    /\ Decide(r, op, [at |-> op, code |-> code])
    /\ UNCHANGED made

\* handleTOTPSetup makes a secret when the factor is off.
BeginSetup(r) ==
    /\ ~on /\ made < MaxSecret /\ made' = made + 1
    /\ Decide(r, "setup", [at |-> "setup", secret |-> made + 1])

\* handleTOTPEnable checks a first code of the pending secret.
BeginEnable(r, code) ==
    /\ ~on /\ Verify(secret, code, 0) /\ batch < MaxBatch
    /\ Decide(r, "enable", [at |-> "enable", code |-> code])
    /\ UNCHANGED made

\* handleUpdateUser with reset_totp, by an administrator.
BeginReset(r) ==
    /\ on /\ Decide(r, "reset", [at |-> "resetting"])
    /\ UNCHANGED made

-----------------------------------------------------------------------------
(* Statements, on the row as it is by then.                                *)

Reply(r, next) == req' = [req EXCEPT ![r] = next]

Accept(code) == used' = used \union {code} /\ twice' = (twice \/ code \in used)

Consumed(r) == Reply(r, IF req[r].at = "login" THEN Idle
                        ELSE [at |-> IF req[r].at = "disable" THEN "disabling" ELSE "renewing"])

\* Mutant: the step is not compared with the last one
ConsumeAnyStep(r) ==
    /\ req[r] \in Accepting /\ req[r].code.kind = "totp"
    /\ on /\ last' = req[r].code.n /\ Accept(req[r].code) /\ Consumed(r)
    /\ UNCHANGED <<on, secret, codes, now, made, batch>>

\* UPDATE ... WHERE totp_enabled = 1 AND totp_last_step < step
ConsumeTOTPStep(r) ==
    /\ req[r] \in Accepting /\ req[r].code.kind = "totp"
    /\ \/ on /\ last < req[r].code.n /\ last' = req[r].code.n /\ Accept(req[r].code) /\ Consumed(r)
       \/ ~(on /\ last < req[r].code.n) /\ Reply(r, Idle) /\ UNCHANGED <<last, used, twice>>
    /\ UNCHANGED <<on, secret, codes, now, made, batch>>

\* UPDATE ... WHERE code_hash = ? AND used_at IS NULL
ConsumeRecoveryCode(r) ==
    /\ req[r] \in Accepting /\ req[r].code.kind = "recovery"
    /\ \/ req[r].code \in codes /\ codes' = codes \ {req[r].code} /\ Accept(req[r].code) /\ Consumed(r)
       \/ req[r].code \notin codes /\ Reply(r, Idle) /\ UNCHANGED <<codes, used, twice>>
    /\ UNCHANGED <<on, secret, last, now, made, batch>>

\* Mutant: the statement does not ask whether the factor is off
SetAnyTOTP(r) ==
    /\ req[r].at = "setup" /\ Reply(r, Idle)
    /\ secret' = req[r].secret /\ last' = 0
    /\ UNCHANGED <<on, codes, now, made, batch, used, twice>>

\* UPDATE ... WHERE totp_enabled = 0
SetPendingTOTP(r) ==
    /\ req[r].at = "setup" /\ Reply(r, Idle)
    /\ \/ ~on /\ secret' = req[r].secret /\ last' = 0
       \/ on /\ UNCHANGED <<secret, last>>
    /\ UNCHANGED <<on, codes, now, made, batch, used, twice>>

NewBatch == {[kind |-> "recovery", of |-> batch + 1, n |-> i] : i \in RecoveryCode}

\* UPDATE ... WHERE totp_enabled = 0 AND totp_secret <> '', with the codes, in
\* one transaction
EnableTOTP(r) ==
    /\ req[r].at = "enable" /\ Reply(r, Idle)
    /\ \/ /\ ~on /\ secret # 0 /\ batch < MaxBatch
          /\ on' = TRUE /\ last' = req[r].code.n /\ Accept(req[r].code)
          /\ codes' = NewBatch /\ batch' = batch + 1
       \/ (on \/ secret = 0) /\ UNCHANGED <<on, last, codes, batch, used, twice>>
    /\ UNCHANGED <<secret, now, made>>

\* By the account itself or by an administrator; the row's state is not asked.
DisableTOTP(r) ==
    /\ req[r].at \in {"disabling", "resetting"} /\ Reply(r, Idle)
    /\ on' = FALSE /\ secret' = 0 /\ last' = 0 /\ codes' = {}
    /\ UNCHANGED <<now, made, batch, used, twice>>

ReplaceRecoveryCodes(r) ==
    /\ req[r].at = "renewing" /\ batch < MaxBatch /\ Reply(r, Idle)
    /\ codes' = NewBatch /\ batch' = batch + 1
    /\ UNCHANGED <<on, secret, last, now, made, used, twice>>

\* The client is gone or the process stops: the statement never runs.
Abort(r) ==
    /\ req[r] # Idle /\ Reply(r, Idle)
    /\ UNCHANGED <<on, secret, last, codes, now, made, batch, used, twice>>

SecondFactorNext ==
    \/ Tick
    \/ \E r \in Request :
         \/ \E op \in {"login", "disable", "renew"}, c \in Totp \union Recovery : Present(r, op, c)
         \/ \E c \in Totp : BeginEnable(r, c)
         \/ BeginSetup(r) \/ BeginReset(r)
         \/ ConsumeTOTPStep(r) \/ ConsumeRecoveryCode(r)
         \/ SetPendingTOTP(r) \/ EnableTOTP(r)
         \/ DisableTOTP(r) \/ ReplaceRecoveryCodes(r) \/ Abort(r)

SecondFactorSpec == SecondFactorInit /\ [][SecondFactorNext]_vars

-----------------------------------------------------------------------------
SecondFactorTypeOK ==
    /\ on \in BOOLEAN /\ twice \in BOOLEAN
    /\ secret \in 0..MaxSecret /\ made \in 0..MaxSecret /\ batch \in 0..MaxBatch
    /\ last \in 0..MaxStep + Skew /\ now \in 1..MaxStep
    /\ codes \subseteq Recovery /\ used \subseteq Totp \union Recovery
    /\ req \in [Request -> Statement \union {Idle}]

\* "A code is refused once used", and recovery codes are "single-use"
\* (CHANGELOG.md): no authenticator code and no recovery code is accepted a
\* second time, the code that turned the factor on included.
CodesAreUsedOnce == ~twice

\* While the factor stays on, no request replaces its secret and the steps it
\* accepts only grow, however the statements of the handlers interleave: a
\* setup that began before the factor was turned on comes too late.
KeepsSecret == on /\ on' => secret' = secret /\ last' >= last

\* A factor that is on has a secret, and with requests one at a time it is a
\* secret the account has shown a code of: nobody is asked for codes that
\* their authenticator cannot make.
SecretIsProven == on => \E c \in used : c.kind = "totp" /\ c.of = secret

-----------------------------------------------------------------------------
(* The inductive invariants behind CodesAreUsedOnce and SecretIsProven.    *)

\* The requests of an account come one after the other
OneAtATime == \A r, q \in Request : r = q
\* Nobody turns the factor off
StaysOn == Ops \intersect {"disable", "reset"} = {}

\* The codes that are left were not used, and a new batch is not an old one.
BatchInv ==
    /\ ~twice /\ codes \intersect used = {}
    /\ \A c \in codes \union used : c.kind = "recovery" => c.of <= batch

\* Within one enrolment the step alone tells used codes from new ones, whichever
\* secret the code that turned the factor on was made with.
EnrolmentInv ==
    /\ \A c \in used : c.kind = "totp" => on /\ c.n <= last
    /\ ~on => used = {} /\ codes = {}
    /\ \A r \in Request : /\ req[r].at \notin {"disable", "disabling", "resetting"}
                          /\ req[r].at \in {"login", "renew", "renewing"} => on

\* Over several enrolments: a secret is new, and the request that works on it
\* finds the row as it read it.
SecretInv ==
    /\ secret <= made
    /\ \A c \in used : c.kind = "totp" => c.of <= made /\ (c.of = secret => on /\ c.n <= last)
    /\ on => secret # 0
    /\ SecretIsProven
    /\ \A r \in Request :
         /\ req[r].at \in {"login", "disable", "renew"} /\ req[r].code.kind = "totp" => on /\ req[r].code.of = secret
         /\ req[r].at = "enable" => ~on /\ req[r].code.of = secret
         /\ req[r].at = "setup" => /\ ~on /\ req[r].secret <= made
                                  /\ \A c \in used : c.kind = "totp" => c.of # req[r].secret

FactorInv ==
    /\ SecondFactorTypeOK /\ BatchInv
    /\ StaysOn => EnrolmentInv
    /\ OneAtATime => SecretInv
=============================================================================
