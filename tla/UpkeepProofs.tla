---------------------------- MODULE UpkeepProofs ----------------------------
(***************************************************************************)
(* Certificates and their guard, DKIM keys, outbound routes, backups, the  *)
(* store of bodies and the text of times, for any sizes and bounds.  The   *)
(* inductive invariants are with the modules they are about; what is said  *)
(* of data (the longest route, the first digit that differs) rests on the  *)
(* least number of a set and on induction written with sets.               *)
(***************************************************************************)
EXTENDS Upkeep, FiniteSetTheorems, SequenceTheorems, WellFoundedInduction, TLAPS

-----------------------------------------------------------------------------
(* Numbers.                                                                *)

\* A set of natural numbers has a least one.
LEMMA Least ==
  ASSUME NEW T \in SUBSET Nat, T # {}
  PROVE  \E x \in T : \A y \in T : x <= y
<1> DEFINE R == {ss \in Nat \X Nat : ss[1] < ss[2]}
<1>1. IsWellFoundedOn(R, Nat)
  BY NatLessThanWellFounded DEF OpToRel
<1>2. \A x, y \in Nat : x < y => <<x, y>> \in R
  OBVIOUS
<1> HIDE DEF R
<1>3. \E x \in T : \A y \in T : ~(<<y, x>> \in R)
  BY <1>1, WFMin
<1>4. ASSUME NEW x \in T, \A y \in T : ~(<<y, x>> \in R)
      PROVE  \A y \in T : x <= y
  <2> TAKE y \in T
  <2>1. ~(y < x)
    BY <1>2, <1>4
  <2> QED
    BY <2>1
<1> QED
  BY <1>3, <1>4

\* Induction: a set with 0 and every successor has every natural number.
LEMMA Induction ==
  ASSUME NEW S, 0 \in S, \A n \in Nat : n \in S => n + 1 \in S
  PROVE  Nat \subseteq S
<1> SUFFICES ASSUME Nat \ S # {} PROVE FALSE
  OBVIOUS
<1>1. PICK x \in Nat \ S : \A y \in Nat \ S : x <= y
  BY Least, Nat \ S \in SUBSET Nat
<1>2. x # 0 /\ x - 1 \in Nat
  BY <1>1
<1>3. x - 1 \in S
  BY <1>1, <1>2
<1> QED
  BY <1>1, <1>2, <1>3

\* Quotient and remainder are what division leaves.
LEMMA DivUnique ==
  ASSUME NEW n \in Nat, NEW d \in Nat \ {0}, NEW q \in Nat, NEW r \in 0..d - 1, n = d * q + r
  PROVE  n \div d = q /\ n % d = r
OBVIOUS

\* The next multiple
LEMMA MulNext == \A d, q \in Int : d * (q + 1) = d * q + d /\ (q + 1) * d = q * d + d /\ q * d = d * q
OBVIOUS

\* Every number is a multiple and a remainder.
LEMMA DivFacts ==
  ASSUME NEW n \in Nat, NEW d \in Nat \ {0}
  PROVE  n \div d \in Nat /\ n % d \in 0..d - 1 /\ n = d * (n \div d) + (n % d)
<1> DEFINE S == {m \in Nat : \E q \in Nat, r \in 0..d - 1 : m = d * q + r}
<1>1. 0 \in S
  <2>1. 0 = d * 0 + 0
    OBVIOUS
  <2> QED
    BY <2>1
<1>2. ASSUME NEW m \in Nat, m \in S PROVE m + 1 \in S
  <2>1. PICK q \in Nat, r \in 0..d - 1 : m = d * q + r
    BY <1>2
  <2>2. CASE r + 1 \in 0..d - 1
    <3>1. m + 1 = d * q + (r + 1)
      BY <2>1
    <3> QED
      BY <2>2, <3>1
  <2>3. CASE r + 1 = d
    <3>1. m + 1 = d * (q + 1) + 0
      BY <2>1, <2>3, MulNext
    <3>2. m + 1 \in Nat /\ q + 1 \in Nat /\ 0 \in 0..d - 1
      OBVIOUS
    <3> QED
      BY <3>1, <3>2
  <2> QED
    BY <2>2, <2>3
<1>3. n \in S
  <2> HIDE DEF S
  <2> QED
    BY <1>1, <1>2, Induction
<1>4. PICK q \in Nat, r \in 0..d - 1 : n = d * q + r
  BY <1>3
<1> QED
  BY <1>4, DivUnique

\* Division keeps the order.
LEMMA DivMono ==
  ASSUME NEW n \in Nat, NEW m \in Nat, NEW d \in Nat \ {0}, n <= m
  PROVE  n \div d <= m \div d
OBVIOUS

-----------------------------------------------------------------------------
(* Certificates.                                                           *)

\* At the start there is no certificate and the loop obtains one.
LEMMA InitRenewals == ASSUME Renewals!CertificatesBounds, Renewals!CertificatesInit
                      PROVE  Renewals!CertificatesInv
BY DEF Renewals!CertificatesBounds, Renewals!CertificatesInit, Renewals!CertificatesInv,
       Renewals!CertificatesTypeOK, Renewals!None

\* Obtaining: what is adopted is the certificate autocert has, fresh or not.
LEMMA RenewalsObtain ==
  ASSUME Renewals!CertificatesInv, Renewals!CertificatesBounds, Renewals!Obtain \/ Renewals!ObtainFails
  PROVE  Renewals!CertificatesInv'
<1>1. CASE Renewals!Obtain
  BY <1>1 DEF Renewals!Obtain, Renewals!Adopt, Renewals!Sleep, Renewals!counts, Renewals!CertificatesInv,
     Renewals!CertificatesTypeOK, Renewals!CertificatesBounds, Renewals!None
<1>2. CASE Renewals!ObtainFails
  <2>1. Renewals!Double(delay) \in Nat /\ Renewals!Double(delay) <= RetryMax
    BY DEF Renewals!Double, Renewals!CertificatesBounds, Renewals!CertificatesInv, Renewals!CertificatesTypeOK
  <2> QED
    BY <1>2, <2>1 DEF Renewals!ObtainFails, Renewals!Sleep, Renewals!counts, Renewals!CertificatesInv,
       Renewals!CertificatesTypeOK, Renewals!CertificatesBounds, Renewals!None
<1> QED
  BY <1>1, <1>2

\* The loop wakes up, autocert renews, the authority or the process changes.
LEMMA RenewalsGoOn ==
  ASSUME Renewals!CertificatesInv, Renewals!CertificatesBounds,
         Renewals!Wake \/ Renewals!Renew \/ Renewals!AuthorityFlips \/ Renewals!Restart
  PROVE  Renewals!CertificatesInv'
<1>1. CASE Renewals!Wake
  BY <1>1 DEF Renewals!Wake, Renewals!counts, Renewals!CertificatesInv, Renewals!CertificatesTypeOK,
     Renewals!CertificatesBounds, Renewals!None
<1>2. CASE Renewals!Renew
  BY <1>2 DEF Renewals!Renew, Renewals!counts, Renewals!CertificatesInv, Renewals!CertificatesTypeOK,
     Renewals!CertificatesBounds, Renewals!None
<1>3. CASE Renewals!AuthorityFlips
  BY <1>3 DEF Renewals!AuthorityFlips, Renewals!counts, Renewals!CertificatesInv, Renewals!CertificatesTypeOK,
     Renewals!CertificatesBounds, Renewals!None
<1>4. CASE Renewals!Restart
  BY <1>4 DEF Renewals!Restart, Renewals!counts, Renewals!CertificatesInv, Renewals!CertificatesTypeOK,
     Renewals!CertificatesBounds, Renewals!None
<1> QED
  BY <1>1, <1>2, <1>3, <1>4

\* Time passes only while nothing can be done.
LEMMA RenewalsWait ==
  ASSUME Renewals!CertificatesInv, Renewals!CertificatesBounds, Renewals!TimePasses
  PROVE  Renewals!CertificatesInv'
BY DEF Renewals!TimePasses, Renewals!RenewalDue, Renewals!counts, Renewals!CertificatesInv,
   Renewals!CertificatesTypeOK, Renewals!CertificatesBounds, Renewals!None

\* The invariant of the certificates is kept by every step.
LEMMA NextRenewals ==
  ASSUME Renewals!CertificatesInv, Renewals!CertificatesBounds,
         [Renewals!CertificatesNext]_(Renewals!vars)
  PROVE  Renewals!CertificatesInv'
<1>1. CASE UNCHANGED Renewals!vars
  BY <1>1 DEF Renewals!vars, Renewals!counts, Renewals!CertificatesInv, Renewals!CertificatesTypeOK,
     Renewals!None
<1> QED
  BY <1>1, RenewalsObtain, RenewalsGoOn, RenewalsWait DEF Renewals!CertificatesNext

\* What is served is valid, and arrives in time, where the invariant holds.
LEMMA RenewalsSafe ==
  ASSUME Renewals!CertificatesInv, Renewals!CertificatesBounds
  PROVE  Renewals!ServedIsValid /\ Renewals!ArrivesInTime
BY DEF Renewals!ServedIsValid, Renewals!ArrivesInTime, Renewals!CertificatesInv,
   Renewals!CertificatesTypeOK, Renewals!CertificatesBounds

-----------------------------------------------------------------------------
(* DKIM keys.                                                              *)

\* At the start there is no key, and nothing is signed.
LEMMA InitKeypairs == ASSUME Keypairs!SigningInit PROVE Keypairs!SigningInv
BY DEF Keypairs!SigningInit, Keypairs!SigningInv, Keypairs!SigningTypeOK, Keypairs!SignaturesResolve,
   Keypairs!NoRow, Keypairs!Idle

\* The request of an administrator, and what it makes of the row.
LEMMA KeypairsRequest ==
  ASSUME Keypairs!SigningInv, Keypairs!SigningBounds, Keypairs!OneAtATime, NEW a \in Admin,
         \/ \E k \in Selector : Keypairs!CreateDKIM(a, k)
         \/ Keypairs!BeginEnable(a) \/ Keypairs!ForceEnable(a) \/ Keypairs!CheckDNS(a)
         \/ Keypairs!Enable(a) \/ Keypairs!Disable(a) \/ Keypairs!DeleteDKIM(a)
  PROVE  Keypairs!SigningInv'
<1>0. /\ Keypairs!SigningTypeOK /\ row \in [key : Selector \union {NoSelector}, enabled : BOOLEAN]
      /\ NoSelector \notin Selector /\ \A b \in Admin : b = a
  BY DEF Keypairs!SigningInv, Keypairs!SigningTypeOK, Keypairs!SigningBounds, Keypairs!OneAtATime
<1>1. ASSUME NEW k \in Selector, Keypairs!CreateDKIM(a, k)
      PROVE  Keypairs!SigningInv'
  BY <1>0, <1>1 DEF Keypairs!CreateDKIM, Keypairs!Idle, Keypairs!SigningInv, Keypairs!SigningTypeOK,
     Keypairs!SignaturesResolve, Keypairs!NoRow, Keypairs!dnsVars, Keypairs!mailVars
<1>2. CASE Keypairs!BeginEnable(a) \/ Keypairs!ForceEnable(a)
  BY <1>0, <1>2 DEF Keypairs!BeginEnable, Keypairs!ForceEnable, Keypairs!Patch, Keypairs!Idle,
     Keypairs!SigningInv, Keypairs!SigningTypeOK, Keypairs!SignaturesResolve, Keypairs!NoRow,
     Keypairs!dnsVars, Keypairs!mailVars
<1>3. CASE Keypairs!CheckDNS(a)
  <2>1. /\ UNCHANGED <<row, published, forced, signature>> /\ patch[a].at = "check"
        /\ \/ patch' = [patch EXCEPT ![a] = [at |-> "set", key |-> patch[a].key]] /\ patch[a].key \in published
           \/ patch' = [patch EXCEPT ![a] = [at |-> "idle", key |-> NoSelector]]
    <3>1. /\ UNCHANGED <<row, published, forced, signature>> /\ patch[a].at = "check"
          /\ \E records \in SUBSET published :
                patch' = [patch EXCEPT ![a] = [at |-> IF patch[a].key \in records THEN "set" ELSE "idle",
                                               key |-> IF patch[a].key \in records THEN patch[a].key ELSE NoSelector]]
      BY <1>3 DEF Keypairs!CheckDNS, Keypairs!Valid, Keypairs!Patch, Keypairs!dnsVars, Keypairs!mailVars
    <3>2. PICK records \in SUBSET published :
                patch' = [patch EXCEPT ![a] = [at |-> IF patch[a].key \in records THEN "set" ELSE "idle",
                                               key |-> IF patch[a].key \in records THEN patch[a].key ELSE NoSelector]]
      BY <3>1
    <3>3. CASE patch[a].key \in records
      BY <3>1, <3>2, <3>3
    <3>4. CASE patch[a].key \notin records
      BY <3>1, <3>2, <3>4
    <3> QED
      BY <3>3, <3>4
  <2> QED
    BY <1>0, <2>1 DEF Keypairs!SigningInv, Keypairs!SigningTypeOK, Keypairs!SignaturesResolve, Keypairs!NoRow
<1>4. CASE Keypairs!Enable(a)
  <2>1. /\ UNCHANGED <<published, signature>> /\ patch[a].at \in {"set", "force"}
        /\ row' = (IF row = Keypairs!NoRow THEN row ELSE [row EXCEPT !.enabled = TRUE])
        /\ forced' = (IF patch[a].at = "force" THEN forced \union {row.key} ELSE forced)
        /\ patch' = [patch EXCEPT ![a] = [at |-> "idle", key |-> NoSelector]]
    BY <1>4 DEF Keypairs!Enable, Keypairs!SetEnabled, Keypairs!Patch, Keypairs!dnsVars, Keypairs!mailVars
  <2>2. row.key \in published \union forced'
    BY <1>0, <2>1 DEF Keypairs!SigningInv
  <2>3. row' \in [key : Selector \union {NoSelector}, enabled : BOOLEAN] /\ row'.key = row.key
        /\ (row.key = NoSelector => row' = row)
    BY <1>0, <2>1 DEF Keypairs!SigningInv
  <2>4. forced \subseteq forced'
    BY <2>1
  <2>5. \A b \in Admin : patch'[b].at = "idle"
    BY <1>0, <2>1 DEF Keypairs!SigningInv, Keypairs!SigningTypeOK
  <2>6. Keypairs!SigningTypeOK'
    BY <1>0, <2>1, <2>3 DEF Keypairs!SigningTypeOK
  <2>7. Keypairs!SignaturesResolve'
    BY <2>1, <2>4 DEF Keypairs!SigningInv, Keypairs!SignaturesResolve
  <2> QED
    BY <2>1, <2>2, <2>3, <2>5, <2>6, <2>7 DEF Keypairs!SigningInv, Keypairs!NoRow
<1>5. CASE Keypairs!Disable(a) \/ Keypairs!DeleteDKIM(a)
  <2>1. /\ UNCHANGED <<published, forced, signature, patch>> /\ patch[a] = Keypairs!Idle
        /\ \/ row.enabled /\ row' = [row EXCEPT !.enabled = FALSE]
           \/ row' = Keypairs!NoRow
    BY <1>5 DEF Keypairs!Disable, Keypairs!DeleteDKIM, Keypairs!dnsVars, Keypairs!mailVars
  <2>2. \A b \in Admin : patch[b].at = "idle"
    BY <1>0, <2>1 DEF Keypairs!Idle
  <2>3. row' \in [key : Selector \union {NoSelector}, enabled : BOOLEAN] /\ row'.enabled = FALSE
    <3>1. CASE row.enabled /\ row' = [row EXCEPT !.enabled = FALSE]
      BY <1>0, <3>1
    <3>2. CASE row' = Keypairs!NoRow
      BY <3>2 DEF Keypairs!NoRow
    <3> QED
      BY <2>1, <3>1, <3>2
  <2>4. row'.key = NoSelector => row' = Keypairs!NoRow
    BY <1>0, <2>1, <2>3 DEF Keypairs!NoRow
  <2> QED
    BY <1>0, <2>1, <2>2, <2>3, <2>4
    DEF Keypairs!SigningInv, Keypairs!SigningTypeOK, Keypairs!SignaturesResolve, Keypairs!NoRow
<1> QED
  BY <1>1, <1>2, <1>3, <1>4, <1>5

\* The zone changes, or a message leaves.
LEMMA KeypairsWorld ==
  ASSUME Keypairs!SigningInv,
         \/ \E k \in Selector : Keypairs!Publish(k) \/ Keypairs!Withdraw(k)
         \/ \E m \in Mail : Keypairs!Send(m)
  PROVE  Keypairs!SigningInv'
<1>1. ASSUME NEW k \in Selector, Keypairs!Publish(k) \/ Keypairs!Withdraw(k)
      PROVE  Keypairs!SigningInv'
  BY <1>1 DEF Keypairs!Publish, Keypairs!Withdraw, Keypairs!SigningInv, Keypairs!SigningTypeOK,
     Keypairs!SignaturesResolve, Keypairs!NoRow, Keypairs!mailVars
<1>2. ASSUME NEW m \in Mail, Keypairs!Send(m)
      PROVE  Keypairs!SigningInv'
  BY <1>2 DEF Keypairs!Send, Keypairs!SigningInv, Keypairs!SigningTypeOK,
     Keypairs!SignaturesResolve, Keypairs!NoRow, Keypairs!dnsVars
<1> QED
  BY <1>1, <1>2

\* The invariant of the keys is kept by every step, with requests one after the other.
LEMMA NextKeypairs ==
  ASSUME Keypairs!SigningInv, Keypairs!SigningBounds, Keypairs!OneAtATime,
         [Keypairs!SigningNext]_(Keypairs!vars)
  PROVE  Keypairs!SigningInv'
<1>1. CASE UNCHANGED Keypairs!vars
  BY <1>1 DEF Keypairs!vars, Keypairs!dnsVars, Keypairs!mailVars, Keypairs!SigningInv,
     Keypairs!SigningTypeOK, Keypairs!SignaturesResolve, Keypairs!NoRow
<1> QED
  BY <1>1, KeypairsRequest, KeypairsWorld DEF Keypairs!SigningNext

-----------------------------------------------------------------------------
(* The guard on issuance.                                                  *)

\* The waits until the next token, beyond those before the last one.
LEMMA StepsUpTo ==
  ASSUME Guard!GuardBounds
  PROVE  /\ Guard!Ceil(Refill, Step) \in Nat
         /\ \A r \in 0..Refill - 1 : r \div Step \in Nat /\ r \div Step + 1 <= Guard!Ceil(Refill, Step)
         /\ \A r \in 0..Refill - 1 : r + Step <= Refill => (r + Step) \div Step = r \div Step + 1
<1>1. Refill \in Nat \ {0} /\ Step \in Nat \ {0} /\ Step <= Refill
  BY DEF Guard!GuardBounds
<1>2. Guard!Ceil(Refill, Step) = (Refill + Step - 1) \div Step /\ Refill + Step - 1 \in Nat
  BY <1>1 DEF Guard!Ceil
<1>3. Guard!Ceil(Refill, Step) \in Nat
  BY <1>1, <1>2, DivFacts
<1>4. ASSUME NEW r \in 0..Refill - 1
      PROVE  r \div Step \in Nat /\ (r + Step) \div Step = r \div Step + 1
  <2>1. /\ r \in Nat /\ r \div Step \in Nat /\ r % Step \in 0..Step - 1
        /\ r = Step * (r \div Step) + (r % Step)
    <3>1. r \in Nat
      BY <1>1
    <3> QED
      BY <1>1, <3>1, DivFacts
  <2>2. r + Step = Step * (r \div Step + 1) + (r % Step)
    <3>1. Step * (r \div Step + 1) = Step * (r \div Step) + Step
      BY <1>1, <2>1, MulNext
    <3> QED
      BY <1>1, <2>1, <3>1
  <2>3. (r + Step) \div Step = r \div Step + 1
    <3>1. r + Step \in Nat /\ r \div Step + 1 \in Nat
      BY <1>1, <2>1
    <3> QED
      BY <1>1, <2>1, <2>2, <3>1, DivUnique
  <2> QED
    BY <2>1, <2>3
<1>5. ASSUME NEW r \in 0..Refill - 1
      PROVE  r \div Step + 1 <= Guard!Ceil(Refill, Step)
  <2>1. r + Step \in Nat /\ r + Step <= Refill + Step - 1
    BY <1>1
  <2> QED
    BY <1>1, <1>2, <1>4, <2>1, DivMono
<1> QED
  BY <1>3, <1>4, <1>5

\* As many waits as tokens earned, and those since.
LEMMA WaitsAt ==
  ASSUME Guard!GuardBounds, NEW q \in Nat, NEW r \in 0..Refill - 1
  PROVE  /\ Guard!Waits(Refill * q + r) = q * Guard!Ceil(Refill, Step) + r \div Step
         /\ Guard!Waits(Refill * q + r) \in Nat
<1>1. Refill \in Nat \ {0} /\ Refill * q + r \in Nat
  BY DEF Guard!GuardBounds
<1>2. (Refill * q + r) \div Refill = q /\ (Refill * q + r) % Refill = r
  BY <1>1, DivUnique
<1>3. q * Guard!Ceil(Refill, Step) \in Nat /\ r \div Step \in Nat
  BY StepsUpTo
<1> QED
  BY <1>2, <1>3 DEF Guard!Waits

\* Waits add up as time passes.
LEMMA WaitsGrow ==
  ASSUME Guard!GuardBounds, NEW s \in Nat, NEW t \in Nat, s <= t
  PROVE  Guard!Waits(s) \in Nat /\ Guard!Waits(s) <= Guard!Waits(t)
<1> DEFINE C == Guard!Ceil(Refill, Step)
<1>1. Refill \in Nat \ {0} /\ Step \in Nat \ {0} /\ C \in Nat
  BY StepsUpTo DEF Guard!GuardBounds
<1>2. /\ s \div Refill \in Nat /\ s % Refill \in 0..Refill - 1 /\ s = Refill * (s \div Refill) + (s % Refill)
      /\ t \div Refill \in Nat /\ t % Refill \in 0..Refill - 1 /\ t = Refill * (t \div Refill) + (t % Refill)
  BY <1>1, DivFacts
<1>3. s \div Refill <= t \div Refill
  BY <1>1, DivMono
<1>4. /\ Guard!Waits(s) = (s \div Refill) * C + (s % Refill) \div Step
      /\ Guard!Waits(t) = (t \div Refill) * C + (t % Refill) \div Step
      /\ Guard!Waits(s) \in Nat
  BY <1>2, WaitsAt
<1>5. CASE s \div Refill = t \div Refill
  <2>1. s % Refill <= t % Refill
    <3> DEFINE P == Refill * (s \div Refill)
    <3>1. P = Refill * (t \div Refill) /\ P \in Nat
      BY <1>1, <1>2, <1>5
    <3>2. s = P + (s % Refill) /\ t = P + (t % Refill)
      BY <1>2, <3>1
    <3> HIDE DEF P
    <3> QED
      BY <1>2, <3>1, <3>2
  <2>2. (s % Refill) \div Step <= (t % Refill) \div Step
    BY <1>1, <1>2, <2>1, DivMono
  <2> QED
    BY <1>2, <1>4, <1>5, <2>2, StepsUpTo, <1>1
<1>6. CASE s \div Refill + 1 <= t \div Refill
  <2>1. (s % Refill) \div Step + 1 <= C /\ (s % Refill) \div Step \in Nat /\ (t % Refill) \div Step \in Nat
    BY <1>2, StepsUpTo
  <2>2. (s \div Refill + 1) * C <= (t \div Refill) * C
    BY <1>1, <1>2, <1>6
  <2>3. (s \div Refill + 1) * C = (s \div Refill) * C + C
    BY <1>1, <1>2
  <2>4. (s \div Refill) * C \in Nat /\ (t \div Refill) * C \in Nat
    BY <1>1, <1>2
  <2> HIDE DEF C
  <2> QED
    BY <1>1, <1>4, <2>1, <2>2, <2>3, <2>4
<1> QED
  BY <1>2, <1>3, <1>5, <1>6

\* At the start the bucket is full.
LEMMA InitGuard == ASSUME Guard!GuardBounds, Guard!GuardInit PROVE Guard!GuardInv
<1>1. /\ Burst \in Nat /\ Refill \in Nat \ {0} /\ Step \in Nat \ {0} /\ MaxMoment \in Nat
      /\ moment = 0 /\ tokens = Burst /\ lastFill = 0 /\ free = 0 /\ atOnce = 0
      /\ until = [c \in Client |-> Guard!Idle] /\ through = [c \in Client |-> 0]
      /\ Guard!Idle \in Nat
  BY DEF Guard!GuardInit, Guard!GuardBounds, Guard!Idle
<1>2. 0 \div Refill = 0 /\ 0 % Refill = 0
  <2>1. 0 = Refill * 0 + 0
    BY <1>1
  <2> QED
    BY <1>1, <2>1, DivUnique
<1>3. Guard!Filled = Burst
  BY <1>1, <1>2 DEF Guard!Filled, Guard!Earned
<1>4. Guard!Waits(0) \in Nat
  BY WaitsGrow
<1> QED
  BY <1>1, <1>2, <1>3, <1>4 DEF Guard!GuardInv, Guard!GuardTypeOK

\* What the bucket earned since it was filled, and where it stands then.
LEMMA GuardFills ==
  ASSUME Guard!GuardInv, Guard!GuardBounds
  PROVE  LET E == Guard!Earned
             F == lastFill + E * Refill
         IN /\ E \in Nat /\ F \in Nat /\ F <= moment /\ moment - F \in 0..Refill - 1
            /\ F % Refill = 0 /\ F \div Refill = lastFill \div Refill + E /\ lastFill \div Refill \in Nat
            /\ F = Refill * (F \div Refill)
            /\ (moment - F) \div Refill = 0
            /\ Guard!Filled \in 0..Burst /\ Guard!Filled <= tokens + E
<1> DEFINE E == Guard!Earned
           F == lastFill + E * Refill
           q == lastFill \div Refill
<1>1. /\ Burst \in Nat /\ Refill \in Nat \ {0} /\ moment \in Nat /\ lastFill \in Nat /\ tokens \in Nat
      /\ lastFill <= moment /\ lastFill % Refill = 0
  BY DEF Guard!GuardInv, Guard!GuardTypeOK, Guard!GuardBounds
<1>2. moment - lastFill \in Nat /\ E = (moment - lastFill) \div Refill
  BY <1>1 DEF Guard!Earned
<1>3. E \in Nat /\ (moment - lastFill) % Refill \in 0..Refill - 1
      /\ moment - lastFill = Refill * E + ((moment - lastFill) % Refill)
  BY <1>1, <1>2, DivFacts
<1>4. q \in Nat /\ lastFill = Refill * q + 0
  BY <1>1, DivFacts
<1> HIDE DEF E, q
<1>5. E * Refill = Refill * E /\ Refill * E \in Nat /\ Refill * (q + E) = Refill * q + Refill * E
      /\ Refill * q \in Nat
  BY <1>1, <1>3, <1>4
<1>6. F \in Nat /\ F = Refill * (q + E) + 0 /\ moment - F = (moment - lastFill) % Refill /\ F <= moment
  <2> DEFINE A == Refill * q
             B == Refill * E
             r == (moment - lastFill) % Refill
  <2>1. /\ A \in Nat /\ B \in Nat /\ r \in Nat /\ F = lastFill + B /\ lastFill = A
        /\ moment - lastFill = B + r /\ Refill * (q + E) = A + B /\ moment \in Nat
    BY <1>1, <1>3, <1>4, <1>5
  <2> HIDE DEF A, B, r, F
  <2>2. F \in Nat /\ F = Refill * (q + E) + 0 /\ moment - F = r /\ F <= moment
    BY <2>1
  <2> QED
    BY <2>2 DEF r
<1>7. q + E \in Nat /\ 0 \in 0..Refill - 1
  BY <1>1, <1>3, <1>4
<1>8. F \div Refill = q + E /\ F % Refill = 0
  BY <1>1, <1>6, <1>7, DivUnique
<1>9. (moment - F) \div Refill = 0
  <2>1. moment - F \in 0..Refill - 1 /\ moment - F = Refill * 0 + (moment - F)
    BY <1>1, <1>3, <1>6
  <2> HIDE DEF F
  <2>2. moment - F \in Nat
    BY <1>1, <2>1
  <2> QED
    BY <1>1, <2>1, <2>2, DivUnique
<1>10. Guard!Filled \in 0..Burst /\ Guard!Filled <= tokens + E
  BY <1>1, <1>3 DEF Guard!Filled, E
<1>11. moment - F \in 0..Refill - 1
  BY <1>3, <1>6
<1>12. F \div Refill = lastFill \div Refill + E /\ lastFill \div Refill \in Nat
  BY <1>4, <1>8 DEF q
<1>13. F = Refill * (F \div Refill)
  <2>1. F = Refill * (q + E)
    BY <1>5, <1>6, <1>1, <1>3, <1>4
  <2> QED
    BY <2>1, <1>8
<1> HIDE DEF F
<1> QED
  BY <1>3, <1>6, <1>8, <1>9, <1>10, <1>11, <1>12, <1>13 DEF E, F

\* A request takes a token, or begins to wait.
LEMMA GuardTakes ==
  ASSUME Guard!GuardInv, Guard!GuardBounds, NEW c \in Client, Guard!Take(c)
  PROVE  Guard!GuardInv'
<1> DEFINE E == Guard!Earned
           F == lastFill + E * Refill
           C == Guard!Ceil(Refill, Step)
<1>1. /\ E \in Nat /\ F \in Nat /\ F <= moment /\ moment - F \in 0..Refill - 1
      /\ F % Refill = 0 /\ F \div Refill = lastFill \div Refill + E /\ lastFill \div Refill \in Nat
      /\ F = Refill * (F \div Refill)
      /\ (moment - F) \div Refill = 0
  BY GuardFills
<1>f. Guard!Filled \in 0..Burst /\ Guard!Filled <= tokens + E
  BY GuardFills
<1>2. /\ Burst \in Nat /\ Refill \in Nat \ {0} /\ Step \in Nat \ {0} /\ Step <= Refill
      /\ moment \in Nat /\ tokens \in Nat /\ free \in Nat /\ atOnce \in Nat
      /\ until \in [Client -> Nat] /\ through \in [Client -> Nat]
      /\ moment <= MaxMoment /\ atOnce + Guard!Filled <= Burst
      /\ free + tokens <= Burst + lastFill \div Refill
  BY DEF Guard!GuardInv, Guard!GuardTypeOK, Guard!GuardBounds
<1>w. \A d \in Client : /\ through[d] <= Guard!Waits(moment)
                        /\ until[d] # Guard!Idle => through[d] + 1 <= Guard!Waits(until[d])
  BY DEF Guard!GuardInv
<1>3. UNCHANGED <<moment, through>> /\ lastFill' = F
  BY DEF Guard!Take
<1>4. Guard!Idle' = Guard!Idle
  BY DEF Guard!Idle
<1>5. \A t : Guard!Waits(t)' = Guard!Waits(t)
  OBVIOUS
<1>6. tokens' \in Nat /\ tokens' <= Burst => Guard!Filled' = tokens'
  BY <1>1, <1>2, <1>3 DEF Guard!Filled, Guard!Earned
<1> HIDE DEF F, E
<1>7. CASE Guard!Filled > 0
  <2>1. tokens' = Guard!Filled - 1 /\ free' = free + 1 /\ atOnce' = atOnce + 1 /\ until' = until
    BY <1>7 DEF Guard!Take
  <2>2. tokens' \in Nat /\ tokens' <= Burst /\ Guard!Filled' = tokens'
    BY <1>f, <1>2, <1>6, <1>7, <2>1
  <2>3. /\ tokens' \in Nat /\ free' \in Nat /\ atOnce' \in Nat /\ atOnce' + Guard!Filled' <= Burst
        /\ free' + tokens' <= Burst + F \div Refill
    <3>1. F \div Refill \in Nat /\ F \div Refill = lastFill \div Refill + E
      BY <1>1
    <3> QED
      BY <1>1, <1>2, <1>f, <2>1, <2>2, <3>1
  <2>4. \A d \in Client : /\ through'[d] <= Guard!Waits(moment)'
                          /\ until'[d] # Guard!Idle' => through'[d] + 1 <= Guard!Waits(until'[d])
    BY <1>w, <1>3, <1>4, <2>1
  <2> QED
    BY <1>1, <1>2, <1>3, <2>1, <2>3, <2>4 DEF Guard!GuardInv, Guard!GuardTypeOK
<1>8. CASE Guard!Filled = 0
  <2>1. tokens' = Guard!Filled /\ until' = [until EXCEPT ![c] = moment + Guard!Wait(F)]
        /\ UNCHANGED <<free, atOnce>>
    BY <1>3, <1>8 DEF Guard!Take
  <2>2. tokens' \in Nat /\ Guard!Filled' = tokens'
    BY <1>f, <1>2, <1>6, <2>1
  <2> DEFINE U == moment + Guard!Wait(F)
             q == F \div Refill
             r == moment - F
  <2>3. q \in Nat /\ r \in 0..Refill - 1 /\ F = Refill * q /\ moment = Refill * q + r
    <3>1. q \in Nat /\ F = Refill * q /\ F \in Nat
      BY <1>1
    <3>2. r \in 0..Refill - 1 /\ moment = F + r
      BY <1>1, <1>2
    <3> HIDE DEF q, r
    <3> QED
      BY <3>1, <3>2
  <2>4. Guard!Waits(moment) = q * C + r \div Step
    BY <2>3, WaitsAt
  <2>5. C \in Nat /\ q * C \in Nat /\ r \div Step \in Nat /\ r \div Step + 1 <= C
        /\ (r + Step <= Refill => (r + Step) \div Step = r \div Step + 1)
    BY <2>3, StepsUpTo
  <2>6. U \in Nat /\ Guard!Waits(moment) + 1 <= Guard!Waits(U)
    <3>1. CASE Refill - r > Step
      <4>1. U = Refill * q + (r + Step) /\ r + Step \in 0..Refill - 1 /\ U \in Nat
        BY <1>2, <2>3, <3>1 DEF Guard!Wait
      <4>2. Guard!Waits(U) = q * C + (r + Step) \div Step
        BY <2>3, <4>1, WaitsAt
      <4> HIDE DEF U, q, r, C
      <4> QED
        BY <1>2, <2>3, <2>4, <2>5, <3>1, <4>1, <4>2
    <3>2. CASE ~(Refill - r > Step)
      <4>1. U = Refill * q + Refill /\ U \in Nat
        BY <1>2, <2>3, <3>2 DEF Guard!Wait
      <4>2. U = Refill * (q + 1) + 0 /\ q + 1 \in Nat /\ 0 \in 0..Refill - 1
        BY <1>2, <2>3, <4>1, MulNext
      <4>3. Guard!Waits(U) = (q + 1) * C + 0 \div Step
        BY <4>2, WaitsAt
      <4>4. 0 \div Step \in Nat
        BY <1>2, StepsUpTo
      <4>5. (q + 1) * C = q * C + C
        BY <2>3, <2>5, MulNext
      <4> HIDE DEF U, q, r, C
      <4> QED
        BY <2>4, <2>5, <4>1, <4>3, <4>4, <4>5
    <3> QED
      BY <3>1, <3>2
  <2> HIDE DEF U, C
  <2>7. Guard!Waits(moment) \in Nat
    BY <1>2, WaitsGrow
  <2>8. until' \in [Client -> Nat] /\ until'[c] = U /\ \A d \in Client \ {c} : until'[d] = until[d]
    BY <1>2, <2>1, <2>6 DEF U
  <2>9. through[c] + 1 <= Guard!Waits(U)
    <3>1. Guard!Waits(U) \in Nat /\ through[c] \in Nat
      BY <1>2, <2>6, WaitsGrow
    <3> QED
      BY <1>w, <2>6, <2>7, <3>1
  <2>10. \A d \in Client : /\ through'[d] <= Guard!Waits(moment)'
                           /\ until'[d] # Guard!Idle' => through'[d] + 1 <= Guard!Waits(until'[d])
    BY <1>w, <1>3, <1>4, <2>8, <2>9
  <2>11. atOnce' + Guard!Filled' <= Burst /\ free' + tokens' <= Burst + F \div Refill
    BY <1>1, <1>2, <1>f, <2>1, <2>2
  <2> QED
    BY <1>1, <1>2, <1>3, <2>1, <2>2, <2>8, <2>10, <2>11 DEF Guard!GuardInv, Guard!GuardTypeOK
<1> QED
  BY <1>f, <1>7, <1>8

\* A wait ends, or is given up.
LEMMA GuardGoes ==
  ASSUME Guard!GuardInv, Guard!GuardBounds, NEW c \in Client, Guard!Go(c) \/ Guard!GiveUp(c)
  PROVE  Guard!GuardInv'
<1>1. /\ UNCHANGED <<moment, tokens, lastFill, free, atOnce>>
      /\ until' = [until EXCEPT ![c] = Guard!Idle]
      /\ \/ through' = [through EXCEPT ![c] = @ + 1] /\ until[c] <= moment
         \/ through' = through
  BY DEF Guard!Go, Guard!GiveUp
<1>2. /\ moment \in Nat /\ moment <= MaxMoment /\ Guard!Idle \in Nat /\ Guard!Idle > moment
      /\ until \in [Client -> Nat] /\ through \in [Client -> Nat]
      /\ \A d \in Client : /\ through[d] <= Guard!Waits(moment)
                           /\ until[d] # Guard!Idle => through[d] + 1 <= Guard!Waits(until[d])
  BY DEF Guard!GuardInv, Guard!GuardTypeOK, Guard!GuardBounds, Guard!Idle
<1>3. Guard!Filled' = Guard!Filled /\ Guard!Idle' = Guard!Idle
  BY <1>1 DEF Guard!Filled, Guard!Earned, Guard!Idle
<1>4. until[c] <= moment => through[c] + 1 <= Guard!Waits(moment)
  <2> SUFFICES ASSUME until[c] <= moment PROVE through[c] + 1 <= Guard!Waits(moment)
    OBVIOUS
  <2>1. until[c] \in Nat /\ until[c] # Guard!Idle /\ through[c] \in Nat
    BY <1>2
  <2>2. Guard!Waits(until[c]) \in Nat /\ Guard!Waits(until[c]) <= Guard!Waits(moment) /\ Guard!Waits(moment) \in Nat
    BY <1>2, <2>1, WaitsGrow
  <2>3. through[c] + 1 <= Guard!Waits(until[c])
    BY <1>2, <2>1
  <2> QED
    BY <2>1, <2>2, <2>3
<1>5. \A d \in Client : /\ through'[d] <= Guard!Waits(moment)
                        /\ until'[d] # Guard!Idle => through'[d] + 1 <= Guard!Waits(until'[d])
  BY <1>1, <1>2, <1>4
<1>6. until' \in [Client -> Nat] /\ through' \in [Client -> Nat]
  BY <1>1, <1>2
<1> QED
  BY <1>1, <1>3, <1>5, <1>6 DEF Guard!GuardInv, Guard!GuardTypeOK

\* A second passes.
LEMMA GuardWaits ==
  ASSUME Guard!GuardInv, Guard!GuardBounds, Guard!TimePasses
  PROVE  Guard!GuardInv'
<1>1. /\ moment' = moment + 1 /\ moment < MaxMoment /\ atOnce' = 0
      /\ UNCHANGED <<tokens, lastFill, until, free, through>>
  BY DEF Guard!TimePasses
<1>2. Guard!GuardTypeOK /\ Guard!GuardTypeOK' /\ MaxMoment \in Nat /\ Burst \in Nat /\ Refill \in Nat \ {0}
  BY <1>1 DEF Guard!GuardInv, Guard!GuardTypeOK, Guard!GuardBounds
<1>3. Guard!Filled' <= Burst
  <2>1. moment' - lastFill \in Nat
    BY <1>1 DEF Guard!GuardInv, Guard!GuardTypeOK
  <2>2. Guard!Earned' \in Nat
    BY <1>1, <1>2, <2>1, DivFacts DEF Guard!Earned
  <2> QED
    BY <1>1, <1>2, <2>2 DEF Guard!Filled, Guard!GuardTypeOK
<1>4. Guard!Filled' \in Int
  <2>1. moment' - lastFill \in Nat
    BY <1>1 DEF Guard!GuardInv, Guard!GuardTypeOK
  <2>2. Guard!Earned' \in Nat
    BY <1>1, <1>2, <2>1, DivFacts DEF Guard!Earned
  <2> QED
    BY <1>1, <1>2, <2>2 DEF Guard!Filled, Guard!GuardTypeOK
<1>5. Guard!Idle' = Guard!Idle
  BY DEF Guard!Idle
<1>6. \A c \in Client : through[c] <= Guard!Waits(moment')
  <2> TAKE c \in Client
  <2>1. moment \in Nat /\ moment' \in Nat /\ moment <= moment' /\ through[c] \in Nat
    BY <1>1, <1>2 DEF Guard!GuardTypeOK
  <2>2. Guard!Waits(moment) \in Nat /\ Guard!Waits(moment) <= Guard!Waits(moment') /\ Guard!Waits(moment') \in Nat
    BY <2>1, WaitsGrow
  <2> QED
    BY <2>1, <2>2 DEF Guard!GuardInv
<1>7. /\ moment' <= MaxMoment /\ lastFill' <= moment' /\ lastFill' % Refill = 0
      /\ free' + tokens' <= Burst + lastFill' \div Refill
  BY <1>1, <1>2 DEF Guard!GuardInv, Guard!GuardTypeOK
<1>8. atOnce' + Guard!Filled' <= Burst
  BY <1>1, <1>3, <1>4
<1>9. \A c \in Client : /\ through'[c] <= Guard!Waits(moment)'
                        /\ until'[c] # Guard!Idle' => through'[c] + 1 <= Guard!Waits(until'[c])
  BY <1>1, <1>5, <1>6 DEF Guard!GuardInv
<1> QED
  BY <1>2, <1>7, <1>8, <1>9 DEF Guard!GuardInv

\* The invariant of the guard is kept by every step.
LEMMA NextGuard ==
  ASSUME Guard!GuardInv, Guard!GuardBounds, [Guard!GuardNext]_(Guard!vars)
  PROVE  Guard!GuardInv'
<1>1. CASE UNCHANGED Guard!vars
  BY <1>1 DEF Guard!vars, Guard!GuardInv, Guard!GuardTypeOK, Guard!Filled, Guard!Earned, Guard!Idle
<1> QED
  BY <1>1, GuardTakes, GuardGoes, GuardWaits DEF Guard!GuardNext

\* What the invariant says of the authority.
LEMMA GuardSafe ==
  ASSUME Guard!GuardInv, Guard!GuardBounds
  PROVE  Guard!BurstIsBounded /\ Guard!RunawayIsSlowed
<1> DEFINE F == lastFill + Guard!Earned * Refill
<1>1. Guard!Filled \in 0..Burst /\ lastFill \div Refill \in Nat
  BY GuardFills
<1>2. /\ atOnce \in Nat /\ free \in Nat /\ tokens \in Nat /\ moment \in Nat /\ lastFill \in Nat
      /\ Burst \in Nat /\ Refill \in Nat \ {0}
      /\ lastFill <= moment /\ atOnce + Guard!Filled <= Burst /\ free + tokens <= Burst + lastFill \div Refill
  BY DEF Guard!GuardInv, Guard!GuardTypeOK, Guard!GuardBounds
<1>3. lastFill \div Refill <= moment \div Refill /\ moment \div Refill \in Nat
  BY <1>2, DivMono, DivFacts
<1> QED
  BY <1>1, <1>2, <1>3 DEF Guard!BurstIsBounded, Guard!RunawayIsSlowed, Guard!GuardInv

\* For any validity, renewal time, delays and sizes of the bucket: while the
\* authority is away for less than renewals leave room for, no expired certificate
\* is served; the first one is served within the longest delay once the authority
\* answers; and what reaches the authority is bounded by the tokens earned, and
\* for each client by its waits (acme.go, Run; guard.go, RoundTrip, take).
THEOREM RenewalsStaySafe == Renewals!CertificatesSpec /\ Guard!GuardSpec => []RenewalsAreSafe
<1>1. Renewals!CertificatesBounds /\ Guard!GuardBounds
  BY UpkeepAssumption
<1>2. Renewals!CertificatesInv /\ Guard!GuardInv => RenewalsAreSafe
  BY <1>1, RenewalsSafe, GuardSafe DEF RenewalsAreSafe
<1> QED
  BY InitRenewals, NextRenewals, InitGuard, NextGuard, <1>1, <1>2, PTL
  DEF Renewals!CertificatesSpec, Guard!GuardSpec

-----------------------------------------------------------------------------
(* Backups.                                                                *)

\* The ticker fires at a time to come.
LEMMA TickIsLater ==
  ASSUME Backups!BackupBounds, now \in Nat, due \in Nat, due <= now
  PROVE  LET T == {t \in now + 1 .. now + Interval : (t - due) % Interval = 0}
         IN Backups!Min(T) \in Nat /\ Backups!Min(T) > now
<1> DEFINE T == {t \in now + 1 .. now + Interval : (t - due) % Interval = 0}
           q == (now - due) \div Interval
           r == (now - due) % Interval
<1>1. Interval \in Nat \ {0} /\ now - due \in Nat
  BY DEF Backups!BackupBounds
<1>2. q \in Nat /\ r \in 0..Interval - 1 /\ now - due = Interval * q + r
  BY <1>1, DivFacts
<1> HIDE DEF q, r
<1>3. Interval * (q + 1) = Interval * q + Interval /\ Interval * q \in Nat
  BY <1>1, <1>2, MulNext
<1>4. due + Interval * (q + 1) \in now + 1 .. now + Interval
  BY <1>1, <1>2, <1>3
<1>5. (Interval * (q + 1)) % Interval = 0
  <2>1. Interval * (q + 1) \in Nat /\ q + 1 \in Nat /\ 0 \in 0..Interval - 1
        /\ Interval * (q + 1) = Interval * (q + 1) + 0
    BY <1>1, <1>2, <1>3
  <2> QED
    BY <1>1, <2>1, DivUnique
<1>6. (due + Interval * (q + 1)) - due = Interval * (q + 1)
  BY <1>1, <1>2, <1>3
<1>7. due + Interval * (q + 1) \in T
  BY <1>4, <1>5, <1>6
<1>8. T \in SUBSET Nat /\ T # {} /\ \A t \in T : t > now
  BY <1>1, <1>7
<1> HIDE DEF T
<1>9. \E x \in T : \A y \in T : x <= y
  BY <1>8, Least
<1>10. Backups!Min(T) \in T
  BY <1>9 DEF Backups!Min
<1> QED
  BY <1>8, <1>10 DEF T

\* The sets of files are counted as sets are.
LEMMA SameFiles ==
  ASSUME NEW S
  PROVE  /\ Backups!IsFiniteSet(S) <=> IsFiniteSet(S)
         /\ Backups!Cardinality(S) = Cardinality(S)
BY Zenon DEF Backups!IsFiniteSet, IsFiniteSet, Backups!Cardinality, Cardinality

\* A file more, or a file less.
LEMMA CountFiles ==
  ASSUME NEW S, Backups!IsFiniteSet(S), NEW x
  PROVE  /\ Backups!Cardinality(S) \in Nat
         /\ Backups!IsFiniteSet(S \union {x}) /\ Backups!IsFiniteSet(S \ {x})
         /\ x \notin S => Backups!Cardinality(S \union {x}) = Backups!Cardinality(S) + 1
         /\ x \in S => Backups!Cardinality(S \ {x}) = Backups!Cardinality(S) - 1
<1>1. IsFiniteSet(S)
  BY SameFiles
<1>2. /\ Backups!Cardinality(S) = Cardinality(S)
      /\ Backups!Cardinality(S \union {x}) = Cardinality(S \union {x})
      /\ Backups!Cardinality(S \ {x}) = Cardinality(S \ {x})
      /\ Backups!IsFiniteSet(S \union {x}) <=> IsFiniteSet(S \union {x})
      /\ Backups!IsFiniteSet(S \ {x}) <=> IsFiniteSet(S \ {x})
  BY SameFiles
<1> QED
  BY <1>1, <1>2, FS_AddElement, FS_RemoveElement, FS_CardinalityType

\* At the start there is no file.
LEMMA InitBackups == ASSUME Backups!BackupBounds, Backups!BackupInit PROVE Backups!BackupInv
<1>1. Backups!IsFiniteSet({}) /\ Backups!Cardinality({}) = 0
  BY FS_EmptySet, SameFiles
<1> QED
  <2>1. /\ now = 0 /\ at = "down" /\ files = {} /\ stamp = 0 /\ due = Backups!NoTick
        /\ taken = FALSE /\ faults = 0 /\ left = 0 /\ Keep \in Nat
    BY DEF Backups!BackupInit, Backups!BackupBounds
  <2>2. Backups!BackupTypeOK
    BY <1>1, <2>1 DEF Backups!BackupTypeOK
  <2>3. Backups!NamesInOrder /\ Backups!CopyIsThere
    BY <2>1 DEF Backups!NamesInOrder, Backups!CopyIsThere
  <2> QED
    BY <1>1, <2>1, <2>2, <2>3 DEF Backups!BackupInv

\* The loop goes on: it starts, decides on the first copy, or its ticker fires.
LEMMA BackupsRun ==
  ASSUME Backups!BackupInv, Backups!BackupBounds, Backups!StartProcess \/ Backups!Begin \/ Backups!Tick
  PROVE  Backups!BackupInv'
<1>0. Interval \in Nat \ {0} /\ now \in Nat /\ Backups!NoTick = -1
  BY DEF Backups!BackupBounds, Backups!BackupInv, Backups!BackupTypeOK, Backups!NoTick
<1>1. CASE Backups!StartProcess
  BY <1>0, <1>1 DEF Backups!StartProcess, Backups!BackupInv, Backups!BackupTypeOK, Backups!NamesInOrder,
     Backups!CopyIsThere, Backups!counts, Backups!troubles
<1>2. CASE Backups!Begin
  <2>1. /\ at = "start" /\ UNCHANGED <<now, files, stamp, taken, stops, faults, left>>
        /\ IF Backups!Recent(files) THEN at' = "wait" /\ due' = now + Interval
           ELSE at' = "name" /\ UNCHANGED due
    BY <1>2 DEF Backups!Begin, Backups!counts, Backups!troubles
  <2>2. CASE Backups!Recent(files)
    BY <1>0, <2>1, <2>2 DEF Backups!BackupInv, Backups!BackupTypeOK, Backups!NamesInOrder, Backups!CopyIsThere
  <2>3. CASE ~Backups!Recent(files)
    <3>1. \A f \in files : f.stamp < now
      BY <1>0, <2>1, <2>3 DEF Backups!Recent, Backups!BackupInv, Backups!BackupTypeOK, Backups!NamesInOrder
    <3> QED
      BY <1>0, <2>1, <2>3, <3>1
      DEF Backups!BackupInv, Backups!BackupTypeOK, Backups!NamesInOrder, Backups!CopyIsThere
  <2> QED
    BY <2>2, <2>3
<1>3. CASE Backups!Tick
  <2>1. /\ at = "wait" /\ due <= now /\ at' = "name" /\ UNCHANGED <<now, files, stamp, taken, stops, faults, left>>
        /\ due' = Backups!Min({t \in now + 1 .. now + Interval : (t - due) % Interval = 0})
    BY <1>3 DEF Backups!Tick, Backups!counts, Backups!troubles
  <2>2. due \in Nat
    BY <1>0, <2>1 DEF Backups!BackupInv, Backups!BackupTypeOK, Backups!NamesInOrder
  <2>3. due' \in Nat /\ due' > now
    BY <1>0, <2>1, <2>2, TickIsLater
  <2>4. \A f \in files : f.stamp < due /\ f.stamp < now /\ f.stamp < due'
    BY <1>0, <2>1, <2>2, <2>3 DEF Backups!BackupInv, Backups!BackupTypeOK, Backups!NamesInOrder
  <2> QED
    BY <1>0, <2>1, <2>3, <2>4
    DEF Backups!BackupInv, Backups!BackupTypeOK, Backups!NamesInOrder, Backups!CopyIsThere
<1> QED
  BY <1>1, <1>2, <1>3

\* Once has returned, leaving these files behind: the loop waits for a tick that
\* comes after all of them.
LEMMA BackupsIdle ==
  ASSUME Backups!BackupInv, Backups!BackupBounds, at # "down", Backups!Idle,
         files' \subseteq [stamp : Nat, mtime : Nat, whole : BOOLEAN], Backups!IsFiniteSet(files'),
         \A f, g \in files' : f.stamp = g.stamp => f = g,
         \A f \in files' : /\ f.stamp <= f.mtime /\ f.mtime <= now
                           /\ due # Backups!NoTick => f.stamp < due,
         now' = now, stamp' \in Nat, taken' = taken, left' \in Nat, faults' \in Nat,
         taken => \E f \in files' : f.whole,
         Keep > 0 => Backups!Cardinality(files') <= Keep + left'
  PROVE  Backups!BackupInv'
<1>0. Interval \in Nat \ {0} /\ now \in Nat /\ Backups!NoTick = -1
  BY DEF Backups!BackupBounds, Backups!BackupInv, Backups!BackupTypeOK, Backups!NoTick
<1>1. at' = "wait" /\ due' = (IF due = Backups!NoTick THEN now + Interval ELSE due) /\ due \in Nat \union {-1}
  BY <1>0 DEF Backups!Idle, Backups!BackupInv, Backups!BackupTypeOK
<1>2. due' \in Nat /\ \A f \in files' : f.stamp < due'
  BY <1>0, <1>1
<1>3. Backups!BackupTypeOK'
  BY <1>0, <1>1, <1>2 DEF Backups!BackupInv, Backups!BackupTypeOK
<1>4. Backups!NamesInOrder' /\ Backups!CopyIsThere'
  BY <1>0, <1>1, <1>2 DEF Backups!NamesInOrder, Backups!CopyIsThere
<1>5. Keep > 0 => Backups!Cardinality(files') <= Keep + left' + 0
  <2>1. Backups!Cardinality(files') \in Nat /\ left' \in Nat /\ Keep \in Nat
    BY CountFiles DEF Backups!BackupBounds
  <2> QED
    BY <2>1
<1> QED
  BY <1>1, <1>3, <1>4, <1>5 DEF Backups!BackupInv

\* The name of the copy is chosen, and its file is created: the newest of all.
LEMMA BackupsName ==
  ASSUME Backups!BackupInv, Backups!BackupBounds, Backups!Name \/ Backups!Create
  PROVE  Backups!BackupInv'
<1>0. /\ Backups!BackupTypeOK /\ Backups!NamesInOrder /\ Keep \in Nat /\ Backups!NoTick = -1
      /\ now \in Nat /\ left \in Nat /\ faults \in Nat /\ stamp \in Nat /\ due \in Nat \union {-1}
      /\ taken => \E f \in files : f.whole
      /\ files \subseteq [stamp : Nat, mtime : Nat, whole : BOOLEAN] /\ Backups!IsFiniteSet(files)
  BY DEF Backups!BackupInv, Backups!BackupTypeOK, Backups!BackupBounds, Backups!NoTick
<1>1. Backups!Cardinality(files) \in Nat
  BY <1>0, CountFiles
<1>2. ASSUME at \in {"name", "create"}, Backups!Fault, Backups!Idle, UNCHANGED <<files, now, taken>>, stamp' \in Nat
      PROVE  Backups!BackupInv'
  <2>1. left' = left + 1 /\ faults' = faults + 1
    BY <1>2 DEF Backups!Fault
  <2>2. Keep > 0 => Backups!Cardinality(files) <= Keep + left
    BY <1>0, <1>1, <1>2 DEF Backups!BackupInv
  <2>3. /\ \A f, g \in files : f.stamp = g.stamp => f = g
        /\ \A f \in files : f.stamp <= f.mtime /\ f.mtime <= now /\ (due # Backups!NoTick => f.stamp < due)
    BY <1>0, <1>2 DEF Backups!NamesInOrder
  <2>4. Keep > 0 => Backups!Cardinality(files') <= Keep + left'
    BY <1>0, <1>1, <1>2, <2>1, <2>2
  <2>5. left' \in Nat /\ faults' \in Nat
    BY <1>0, <2>1
  <2> QED
    BY <1>0, <1>2, <2>3, <2>4, <2>5, BackupsIdle
<1>3. CASE Backups!Name
  <2>1. /\ at = "name" /\ stamp' = now /\ UNCHANGED <<now, taken, stops>>
        /\ \/ /\ at' = "create" /\ files' = {f \in files : f.stamp # now} /\ UNCHANGED <<due, faults, left>>
           \/ Backups!Fault /\ Backups!Idle /\ UNCHANGED files
    BY <1>3 DEF Backups!Name, Backups!troubles
  <2>2. CASE at' = "create" /\ files' = {f \in files : f.stamp # now} /\ UNCHANGED <<due, faults, left>>
    <3>1. /\ \A f \in files : f.stamp < now /\ (due # Backups!NoTick => f.stamp < due)
          /\ due # Backups!NoTick => now < due
      BY <1>0, <2>1 DEF Backups!NamesInOrder
    <3>2. files' = files
      BY <1>0, <2>2, <3>1
    <3>3. Backups!BackupTypeOK'
      BY <1>0, <2>1, <2>2, <3>2 DEF Backups!BackupTypeOK
    <3>4. Backups!NamesInOrder' /\ Backups!CopyIsThere'
      BY <1>0, <2>1, <2>2, <3>1, <3>2 DEF Backups!NamesInOrder, Backups!CopyIsThere
    <3>5. Keep > 0 => Backups!Cardinality(files') <= Keep + left' + 0
      BY <1>0, <1>1, <2>1, <2>2, <3>2 DEF Backups!BackupInv
    <3> QED
      BY <1>0, <2>1, <2>2, <3>2, <3>3, <3>4, <3>5 DEF Backups!BackupInv
  <2>3. CASE Backups!Fault /\ Backups!Idle /\ UNCHANGED files
    BY <1>0, <1>2, <2>1, <2>3
  <2> QED
    BY <2>1, <2>2, <2>3
<1>4. CASE Backups!Create
  <2> DEFINE new == [stamp |-> stamp, mtime |-> now, whole |-> FALSE]
  <2>1. /\ at = "create" /\ UNCHANGED <<now, stamp, taken, stops>>
        /\ \/ /\ at' = "copy" /\ files' = files \union {new} /\ UNCHANGED <<due, faults, left>>
           \/ Backups!Fault /\ Backups!Idle /\ UNCHANGED files
    BY <1>4 DEF Backups!Create, Backups!troubles
  <2>2. CASE at' = "copy" /\ files' = files \union {new} /\ UNCHANGED <<due, faults, left>>
    <3>1. /\ stamp = now /\ \A f \in files : f.stamp < stamp /\ (due # Backups!NoTick => f.stamp < due)
          /\ due # Backups!NoTick => stamp < due
      BY <1>0, <2>1 DEF Backups!NamesInOrder
    <3>2. new \notin files /\ new.stamp = stamp /\ new.mtime = now /\ new.whole = FALSE
          /\ new \in [stamp : Nat, mtime : Nat, whole : BOOLEAN]
      BY <1>0, <3>1
    <3> HIDE DEF new
    <3>3. Backups!Cardinality(files') = Backups!Cardinality(files) + 1 /\ Backups!IsFiniteSet(files')
      BY <1>0, <2>2, <3>2, CountFiles
    <3>4. Backups!BackupTypeOK'
      BY <1>0, <2>1, <2>2, <3>2, <3>3 DEF Backups!BackupTypeOK
    <3>5. Backups!NamesInOrder'
      BY <1>0, <2>1, <2>2, <3>1, <3>2 DEF Backups!NamesInOrder
    <3>6. Backups!CopyIsThere'
      BY <2>1, <2>2, <3>2 DEF Backups!CopyIsThere
    <3>7. Keep > 0 => Backups!Cardinality(files') <= Keep + left' + 1
      BY <1>0, <1>1, <2>1, <2>2, <3>3 DEF Backups!BackupInv
    <3>8. taken' => \E f \in files' : f.whole
      BY <1>0, <2>1, <2>2
    <3> QED
      BY <2>2, <3>4, <3>5, <3>6, <3>7, <3>8 DEF Backups!BackupInv
  <2>3. CASE Backups!Fault /\ Backups!Idle /\ UNCHANGED files
    BY <1>0, <1>2, <2>1, <2>3
  <2> QED
    BY <2>1, <2>2, <2>3
<1> QED
  BY <1>3, <1>4

\* The file being written is exchanged for what it is at the end of the copy.
LEMMA BackupsWritten ==
  ASSUME Backups!BackupInv, at = "copy", NEW w \in BOOLEAN,
         NEW fs, fs = Backups!Written(w)
  PROVE  /\ Backups!Rest \subseteq fs
         /\ Backups!IsFiniteSet(fs) /\ fs \subseteq [stamp : Nat, mtime : Nat, whole : BOOLEAN]
         /\ Backups!IsFiniteSet(Backups!Rest)
         /\ Backups!Cardinality(fs) = Backups!Cardinality(files) /\ Backups!Cardinality(files) \in Nat
         /\ Backups!Cardinality(Backups!Rest) = Backups!Cardinality(files) - 1
         /\ \A f, g \in fs : f.stamp = g.stamp => f = g
         /\ \A f \in fs : /\ f.stamp <= f.mtime /\ f.mtime <= now /\ f.stamp <= stamp
                          /\ due # Backups!NoTick => f.stamp < due
         /\ \E f \in fs : f.stamp = stamp /\ f.whole = w
         /\ \E f \in files : f.stamp = stamp /\ ~f.whole /\ Backups!Rest = files \ {f}
<1> DEFINE new == [stamp |-> stamp, mtime |-> now, whole |-> w]
<1>0. /\ Backups!NamesInOrder /\ now \in Nat /\ stamp \in Nat /\ stamp <= now
      /\ files \subseteq [stamp : Nat, mtime : Nat, whole : BOOLEAN] /\ Backups!IsFiniteSet(files)
      /\ due # Backups!NoTick => stamp < due
  BY DEF Backups!BackupInv, Backups!BackupTypeOK, Backups!NamesInOrder
<1>1. PICK f0 \in files : f0.stamp = stamp /\ ~f0.whole
  BY DEF Backups!BackupInv, Backups!CopyIsThere
<1>2. Backups!Rest = files \ {f0}
  BY <1>0, <1>1 DEF Backups!Rest, Backups!NamesInOrder
<1>3. new \notin Backups!Rest /\ new.stamp = stamp /\ new.mtime = now /\ new.whole = w
      /\ new \in [stamp : Nat, mtime : Nat, whole : BOOLEAN]
  BY <1>0 DEF Backups!Rest
<1>4. fs = Backups!Rest \union {new}
  BY DEF Backups!Written
<1> HIDE DEF new
<1>5. /\ Backups!IsFiniteSet(Backups!Rest) /\ Backups!Cardinality(Backups!Rest) = Backups!Cardinality(files) - 1
      /\ Backups!Cardinality(files) \in Nat
  BY <1>0, <1>1, <1>2, CountFiles
<1>6. Backups!IsFiniteSet(fs)
      /\ Backups!Cardinality(fs) = Backups!Cardinality(files)
  BY <1>3, <1>4, <1>5, CountFiles
<1>7. \A f \in Backups!Rest : /\ f \in files /\ f.stamp # stamp /\ f.stamp <= f.mtime /\ f.mtime <= now
                             /\ f.stamp <= stamp /\ (due # Backups!NoTick => f.stamp < due)
  BY <1>0 DEF Backups!Rest, Backups!NamesInOrder
<1>8. \A f, g \in fs : f.stamp = g.stamp => f = g
  BY <1>0, <1>3, <1>4, <1>7 DEF Backups!NamesInOrder
<1>9. \A f \in fs : /\ f.stamp <= f.mtime /\ f.mtime <= now /\ f.stamp <= stamp
                    /\ due # Backups!NoTick => f.stamp < due
  BY <1>0, <1>3, <1>4, <1>7
<1>10. fs \subseteq [stamp : Nat, mtime : Nat, whole : BOOLEAN]
  <2>1. Backups!Rest \subseteq [stamp : Nat, mtime : Nat, whole : BOOLEAN]
    BY <1>0, <1>2
  <2> QED
    BY <1>3, <1>4, <2>1
<1>11. \E f \in fs : f.stamp = stamp /\ f.whole = w
  BY <1>3, <1>4
<1>12. \E f \in files : f.stamp = stamp /\ ~f.whole /\ Backups!Rest = files \ {f}
  BY <1>1, <1>2
<1>13. Backups!Rest \subseteq fs
  BY <1>4
<1>14. /\ Backups!Rest \subseteq fs
      /\ Backups!IsFiniteSet(fs) /\ fs \subseteq [stamp : Nat, mtime : Nat, whole : BOOLEAN]
  BY <1>6, <1>10, <1>13
<1>15. /\ Backups!IsFiniteSet(Backups!Rest)
      /\ Backups!Cardinality(fs) = Backups!Cardinality(files) /\ Backups!Cardinality(files) \in Nat
      /\ Backups!Cardinality(Backups!Rest) = Backups!Cardinality(files) - 1
  BY <1>5, <1>6
<1> QED
  BY <1>8, <1>9, <1>11, <1>12, <1>14, <1>15

\* The copy ends, or fails: a copy that was whole before is not the one being written.
LEMMA BackupsCopy ==
  ASSUME Backups!BackupInv, Backups!BackupBounds, Backups!SnapshotFails \/ Backups!SnapshotEnds
  PROVE  Backups!BackupInv'
<1>0. /\ Keep \in Nat /\ Backups!NoTick = -1 /\ at = "copy"
      /\ now \in Nat /\ left \in Nat /\ faults \in Nat /\ stamp \in Nat /\ due \in Nat \union {-1}
      /\ Backups!NamesInOrder /\ (Keep > 0 => Backups!Cardinality(files) <= Keep + left + 1)
      /\ stamp <= now /\ (due # Backups!NoTick => stamp < due)
  BY DEF Backups!BackupInv, Backups!BackupTypeOK, Backups!BackupBounds, Backups!NoTick, Backups!NamesInOrder,
     Backups!SnapshotFails, Backups!SnapshotEnds
<1>1. taken => \E f \in Backups!Rest : f.whole
  <2>1. PICK f0 \in files : f0.stamp = stamp /\ ~f0.whole /\ Backups!Rest = files \ {f0}
    BY <1>0, BackupsWritten
  <2> QED
    BY <2>1 DEF Backups!BackupInv
<1>2. CASE Backups!SnapshotEnds
  <2>1. /\ at' = "prune" /\ files' = Backups!Written(TRUE) /\ taken' = TRUE
        /\ UNCHANGED <<now, stamp, due, left, faults>>
    BY <1>2 DEF Backups!SnapshotEnds, Backups!counts, Backups!troubles
  <2>2. /\ Backups!IsFiniteSet(files') /\ files' \subseteq [stamp : Nat, mtime : Nat, whole : BOOLEAN]
        /\ Backups!Cardinality(files') = Backups!Cardinality(files)
        /\ \A f, g \in files' : f.stamp = g.stamp => f = g
        /\ \A f \in files' : /\ f.stamp <= f.mtime /\ f.mtime <= now /\ f.stamp <= stamp
                             /\ due # Backups!NoTick => f.stamp < due
        /\ \E f \in files' : f.stamp = stamp /\ f.whole = TRUE
    BY <1>0, <2>1, BackupsWritten
  <2>3. Backups!BackupTypeOK'
    BY <1>0, <2>1, <2>2 DEF Backups!BackupTypeOK, Backups!NoTick
  <2>4. Backups!NamesInOrder'
    BY <1>0, <2>1, <2>2 DEF Backups!NamesInOrder
  <2>5. Backups!CopyIsThere' /\ \E f \in files' : f.whole
    BY <2>1, <2>2 DEF Backups!CopyIsThere
  <2> QED
    BY <1>0, <2>1, <2>2, <2>3, <2>4, <2>5 DEF Backups!BackupInv
<1>3. CASE Backups!SnapshotFails
  <2>1. /\ Backups!Idle /\ left' = left + 1 /\ faults' = faults + 1
        /\ files' = Backups!Rest \/ files' = Backups!Written(FALSE)
        /\ UNCHANGED <<now, stamp, taken>>
    BY <1>3 DEF Backups!SnapshotFails, Backups!Fault
  <2>2. /\ Backups!Rest \subseteq Backups!Written(FALSE) /\ Backups!IsFiniteSet(files')
        /\ Backups!Cardinality(files') \in Int /\ Backups!Cardinality(files') <= Backups!Cardinality(files)
        /\ Backups!Cardinality(files) \in Nat
    <3>1. /\ Backups!Rest \subseteq Backups!Written(FALSE)
          /\ Backups!IsFiniteSet(Backups!Written(FALSE)) /\ Backups!IsFiniteSet(Backups!Rest)
          /\ Backups!Cardinality(Backups!Written(FALSE)) = Backups!Cardinality(files)
          /\ Backups!Cardinality(files) \in Nat
          /\ Backups!Cardinality(Backups!Rest) = Backups!Cardinality(files) - 1
      BY <1>0, BackupsWritten
    <3>2. /\ Backups!IsFiniteSet(files')
          /\ \/ Backups!Cardinality(files') = Backups!Cardinality(files)
             \/ Backups!Cardinality(files') = Backups!Cardinality(files) - 1
      BY <2>1, <3>1
    <3>3. ASSUME NEW a, NEW b \in Nat, a = b \/ a = b - 1
          PROVE  a \in Int /\ a <= b
      BY <3>3
    <3> QED
      BY <3>1, <3>2, <3>3
  <2>3. /\ files' \subseteq [stamp : Nat, mtime : Nat, whole : BOOLEAN]
        /\ \A f, g \in files' : f.stamp = g.stamp => f = g
        /\ \A f \in files' : /\ f.stamp <= f.mtime /\ f.mtime <= now
                             /\ due # Backups!NoTick => f.stamp < due
    BY <1>0, <2>1, <2>2, BackupsWritten
  <2>4. taken => \E f \in files' : f.whole
    BY <1>1, <2>1, <2>2
  <2>5. Keep > 0 => Backups!Cardinality(files') <= Keep + left'
    BY <1>0, <2>1, <2>2
  <2>6. left' \in Nat /\ faults' \in Nat /\ at # "down" /\ stamp' \in Nat
    BY <1>0, <2>1
  <2> QED
    BY <2>1, <2>2, <2>3, <2>4, <2>5, <2>6, BackupsIdle
<1> QED
  BY <1>2, <1>3

\* Pruning takes the oldest name, never that of the copy just made.
LEMMA BackupsPrune ==
  ASSUME Backups!BackupInv, Backups!BackupBounds, Backups!Prune
  PROVE  Backups!BackupInv'
<1>0. /\ Keep \in Nat /\ Backups!NoTick = -1 /\ at = "prune"
      /\ now \in Nat /\ left \in Nat /\ faults \in Nat /\ stamp \in Nat /\ due \in Nat \union {-1}
      /\ files \subseteq [stamp : Nat, mtime : Nat, whole : BOOLEAN] /\ Backups!IsFiniteSet(files)
      /\ Backups!NamesInOrder /\ (Keep > 0 => Backups!Cardinality(files) <= Keep + left + 1)
      /\ UNCHANGED <<now, stamp, taken>>
  BY DEF Backups!BackupInv, Backups!BackupTypeOK, Backups!BackupBounds, Backups!NoTick, Backups!Prune
<1>1. PICK f0 \in files : f0.stamp = stamp /\ f0.whole
  BY <1>0 DEF Backups!BackupInv, Backups!CopyIsThere
<1>2. /\ \A f, g \in files : f.stamp = g.stamp => f = g
      /\ \A f \in files : /\ f.stamp <= f.mtime /\ f.mtime <= now /\ f.stamp <= stamp
                          /\ due # Backups!NoTick => f.stamp < due
      /\ stamp <= now /\ (due # Backups!NoTick => stamp < due)
  BY <1>0 DEF Backups!NamesInOrder
<1>3. Backups!Cardinality(files) \in Nat
  BY <1>0, CountFiles
<1>4. ASSUME Backups!Excess(files), files' = {f \in files : f.stamp # Backups!Min(Backups!Stamps(files))},
             UNCHANGED <<at, due, faults, left>>
      PROVE  Backups!BackupInv'
  <2> DEFINE T == Backups!Stamps(files)
  <2>1. T \in SUBSET Nat /\ T # {}
    BY <1>0, <1>1 DEF Backups!Stamps
  <2>2. \E x \in T : \A y \in T : x <= y
    <3> HIDE DEF T
    <3> QED
      BY <2>1, Least
  <2>3. Backups!Min(T) \in T /\ \A y \in T : Backups!Min(T) <= y
    <3> HIDE DEF T
    <3> QED
      BY <2>2 DEF Backups!Min
  <2>4. PICK f1 \in files : f1.stamp = Backups!Min(T) /\ \A g \in files : f1.stamp <= g.stamp
    BY <2>3 DEF Backups!Stamps
  <2> HIDE DEF T
  <2>5. files' = files \ {f1}
    BY <1>2, <1>4, <2>4 DEF T
  <2>6. f1 # f0
    <3> SUFFICES ASSUME f1 = f0 PROVE FALSE
      OBVIOUS
    <3>1. files = {f0}
      <4>1. \A g \in files : g.stamp \in Nat /\ g.stamp <= stamp /\ stamp <= g.stamp
        BY <1>0, <1>1, <1>2, <2>4
      <4> QED
        BY <1>0, <1>1, <1>2, <4>1
    <3>2. Backups!Cardinality(files) = 1
      BY <3>1, SameFiles, FS_Singleton
    <3> QED
      BY <1>0, <1>4, <3>2 DEF Backups!Excess
  <2>7. Backups!IsFiniteSet(files') /\ Backups!Cardinality(files') = Backups!Cardinality(files) - 1
    BY <1>0, <2>5, CountFiles
  <2>8. f0 \in files' /\ files' \subseteq files
    BY <2>5, <2>6
  <2>9. Backups!BackupTypeOK'
    BY <1>0, <1>4, <2>7, <2>8 DEF Backups!BackupInv, Backups!BackupTypeOK
  <2>10. Backups!NamesInOrder'
    BY <1>0, <1>2, <1>4, <2>8 DEF Backups!NamesInOrder
  <2>11. Backups!CopyIsThere' /\ \E f \in files' : f.whole
    BY <1>0, <1>1, <1>4, <2>8 DEF Backups!CopyIsThere
  <2> QED
    BY <1>0, <1>3, <1>4, <2>7, <2>9, <2>10, <2>11 DEF Backups!BackupInv
<1>5. ASSUME Backups!Idle, UNCHANGED files, faults' \in Nat, left' \in Nat,
             Keep > 0 => Backups!Cardinality(files) <= Keep + left'
      PROVE  Backups!BackupInv'
  BY <1>0, <1>1, <1>2, <1>5, BackupsIdle
<1>6. CASE Backups!Fault /\ Backups!Idle /\ UNCHANGED files
  <2>1. left' = left + 1 /\ faults' = faults + 1
    BY <1>6 DEF Backups!Fault
  <2>2. Keep > 0 => Backups!Cardinality(files) <= Keep + left'
    BY <1>0, <1>3, <2>1
  <2> QED
    BY <1>0, <1>5, <1>6, <2>1, <2>2
<1>7. CASE ~Backups!Excess(files) /\ Backups!Idle /\ left' = 0 /\ UNCHANGED <<files, faults>>
  <2>1. Keep > 0 => Backups!Cardinality(files) <= Keep + left'
    BY <1>0, <1>3, <1>7 DEF Backups!Excess
  <2> QED
    BY <1>0, <1>5, <1>7, <2>1
<1> QED
  BY <1>4, <1>6, <1>7 DEF Backups!Prune, Backups!troubles

\* The process ends, or a second passes.
LEMMA BackupsWait ==
  ASSUME Backups!BackupInv, Backups!BackupBounds, Backups!Stop \/ Backups!TimePasses
  PROVE  Backups!BackupInv'
<1>0. /\ Keep \in Nat /\ Backups!NoTick = -1
      /\ now \in Nat /\ left \in Nat /\ faults \in Nat /\ stamp \in Nat /\ due \in Nat \union {-1}
      /\ files \subseteq [stamp : Nat, mtime : Nat, whole : BOOLEAN] /\ Backups!IsFiniteSet(files)
  BY DEF Backups!BackupInv, Backups!BackupTypeOK, Backups!BackupBounds, Backups!NoTick
<1>1. Backups!Cardinality(files) \in Nat
  BY <1>0, CountFiles
<1>2. CASE Backups!Stop
  <2>1. /\ left' = left + 1 /\ at' = "down" /\ UNCHANGED <<now, files, stamp, due, taken, faults>>
    BY <1>2 DEF Backups!Stop
  <2>2. Backups!BackupTypeOK' /\ Backups!NamesInOrder' /\ Backups!CopyIsThere'
    BY <1>0, <2>1 DEF Backups!BackupInv, Backups!BackupTypeOK, Backups!NamesInOrder, Backups!CopyIsThere
  <2>3. Keep > 0 => Backups!Cardinality(files') <= Keep + left' + 0
    BY <1>0, <1>1, <2>1 DEF Backups!BackupInv
  <2> QED
    BY <2>1, <2>2, <2>3 DEF Backups!BackupInv
<1>3. CASE Backups!TimePasses
  <2>1. /\ at \in {"down", "wait", "copy"} /\ now' = now + 1
        /\ UNCHANGED <<at, files, stamp, due, taken, faults, left>>
    BY <1>3 DEF Backups!TimePasses, Backups!counts, Backups!troubles
  <2>2. Backups!BackupTypeOK' /\ Backups!NamesInOrder' /\ Backups!CopyIsThere'
    BY <1>0, <2>1 DEF Backups!BackupInv, Backups!BackupTypeOK, Backups!NamesInOrder, Backups!CopyIsThere
  <2> QED
    BY <2>1, <2>2 DEF Backups!BackupInv
<1> QED
  BY <1>2, <1>3

\* The invariant of the backups is kept by every step.
LEMMA NextBackups ==
  ASSUME Backups!BackupInv, Backups!BackupBounds, [Backups!BackupNext]_(Backups!vars)
  PROVE  Backups!BackupInv'
<1>1. CASE UNCHANGED Backups!vars
  BY <1>1 DEF Backups!vars, Backups!counts, Backups!troubles, Backups!BackupInv, Backups!BackupTypeOK,
     Backups!NamesInOrder, Backups!CopyIsThere
<1> QED
  BY <1>1, BackupsRun, BackupsName, BackupsCopy, BackupsPrune, BackupsWait DEF Backups!BackupNext

\* For any interval and any number of files kept: once a copy was completed there
\* is always a whole one, and the directory holds no more than backup.keep files,
\* the one being written, and one for each trouble since (backup.go).
THEOREM BackupsStay == Backups!BackupSpec => []BackupsRemain
<1>1. Backups!BackupBounds
  BY UpkeepAssumption
<1>2. Backups!BackupInv => BackupsRemain
  <2> SUFFICES ASSUME Backups!BackupInv PROVE Backups!AWholeOneRemains /\ Backups!FilesAreBounded
    BY DEF BackupsRemain
  <2>1. Backups!Cardinality(files) \in Nat /\ Keep \in Nat /\ left \in Nat
    BY <1>1, CountFiles DEF Backups!BackupInv, Backups!BackupTypeOK, Backups!BackupBounds
  <2> QED
    BY <2>1 DEF Backups!BackupInv, Backups!AWholeOneRemains, Backups!FilesAreBounded
<1> QED
  BY InitBackups, NextBackups, <1>1, <1>2, PTL DEF Backups!BackupSpec
-----------------------------------------------------------------------------
(* Routes.                                                                 *)

\* A suffix is what a sequence ends with.
LEMMA SuffixEnds ==
  ASSUME NEW S, NEW l \in Seq(S), NEW d \in Seq(S), l # <<>>
  PROVE  Routes!IsSuffix(l, d) <=> Len(l) <= Len(d) /\ l = SubSeq(d, Len(d) - Len(l) + 1, Len(d))
<1> DEFINE n == Len(l)
           m == Len(d)
           bl == Routes!Reverse(l)
           bd == Routes!Reverse(d)
<1>1. n \in Nat \ {0} /\ m \in Nat
  OBVIOUS
<1>2. /\ bl = [i \in 1..n |-> l[n - i + 1]] /\ bd = [i \in 1..m |-> d[m - i + 1]]
  BY DEF Routes!Reverse
<1>3. bl \in Seq(S) /\ Len(bl) = n /\ bd \in Seq(S) /\ Len(bd) = m
  <2>1. \A i \in 1..n : l[n - i + 1] \in S
    BY <1>1
  <2>2. \A i \in 1..m : d[m - i + 1] \in S
    BY <1>1
  <2> QED
    BY <1>1, <1>2, <2>1, <2>2
<1>4. Routes!IsSuffix(l, d) <=> n <= m /\ SubSeq(bl, 1, n) = SubSeq(bd, 1, n)
  BY <1>3 DEF Routes!IsSuffix, Routes!IsPrefix
<1>5. ASSUME n <= m
      PROVE  SubSeq(bl, 1, n) = SubSeq(bd, 1, n) <=> l = SubSeq(d, m - n + 1, m)
  <2>1. /\ SubSeq(bl, 1, n) = [i \in 1..n |-> l[n - i + 1]]
        /\ SubSeq(bd, 1, n) = [i \in 1..n |-> d[m - i + 1]]
    <3>1. SubSeq(bl, 1, n) = [i \in 1..n |-> bl[i]] /\ SubSeq(bd, 1, n) = [i \in 1..n |-> bd[i]]
      <4> HIDE DEF bl, bd
      <4> QED
        BY <1>1, <1>3, <1>5
    <3> QED
      BY <1>1, <1>2, <1>5, <3>1
  <2>2. SubSeq(d, m - n + 1, m) = [j \in 1..n |-> d[m - n + j]]
    BY <1>1, <1>5
  <2>3. l = [j \in 1..n |-> l[j]]
    OBVIOUS
  <2>4. ASSUME \A i \in 1..n : l[n - i + 1] = d[m - i + 1], NEW j \in 1..n
        PROVE  l[j] = d[m - n + j]
    <3>1. n - j + 1 \in 1..n /\ n - (n - j + 1) + 1 = j /\ m - (n - j + 1) + 1 = m - n + j
      BY <1>1
    <3> QED
      BY <2>4, <3>1
  <2>5. ASSUME \A j \in 1..n : l[j] = d[m - n + j], NEW i \in 1..n
        PROVE  l[n - i + 1] = d[m - i + 1]
    <3>1. n - i + 1 \in 1..n /\ m - n + (n - i + 1) = m - i + 1
      BY <1>1
    <3> QED
      BY <2>5, <3>1
  <2>6. SubSeq(bl, 1, n) = SubSeq(bd, 1, n) <=> \A i \in 1..n : l[n - i + 1] = d[m - i + 1]
    <3> DEFINE f == [i \in 1..n |-> l[n - i + 1]]
               g == [i \in 1..n |-> d[m - i + 1]]
    <3>1. f = g <=> \A i \in 1..n : f[i] = g[i]
      OBVIOUS
    <3>2. \A i \in 1..n : f[i] = l[n - i + 1] /\ g[i] = d[m - i + 1]
      OBVIOUS
    <3> HIDE DEF f, g
    <3>3. f = g <=> \A i \in 1..n : l[n - i + 1] = d[m - i + 1]
      BY <3>1, <3>2
    <3> QED
      BY <2>1, <3>3 DEF f, g
  <2>7. l = SubSeq(d, m - n + 1, m) <=> \A j \in 1..n : l[j] = d[m - n + j]
    <3> HIDE DEF n, m
    <3> QED
      BY <2>2, <2>3
  <2> QED
    BY <2>4, <2>5, <2>6, <2>7
<1> QED
  BY <1>4, <1>5

\* The rows of the table are routes with an id, and one pattern has one row.
LEMMA RowsAre ==
  ASSUME Routes!RoutingInv, Routes!RoutingBounds
  PROVE  /\ \A r \in Routes!Rows : /\ r \in Routes!Route /\ r.id \in RouteId /\ routes[r.id] = r /\ r # Routes!NoRoute
                                   /\ r.to.sub \in BOOLEAN /\ r.to.labels \in Seq(Label) /\ r.to.labels # <<>>
         /\ \A q, r \in Routes!Rows : q.to.sub = r.to.sub /\ q.to.labels = r.to.labels => q = r
<1>1. ASSUME NEW r \in Routes!Rows
      PROVE  /\ r \in Routes!Route /\ r.id \in RouteId /\ routes[r.id] = r /\ r # Routes!NoRoute
             /\ r.to \in [sub : BOOLEAN, labels : Seq(Label) \ {<<>>}]
  <2>1. PICK i \in RouteId : r = routes[i] /\ r # Routes!NoRoute
    BY <1>1 DEF Routes!Rows
  <2>2. r \in Routes!Route /\ r.id = i
    BY <2>1 DEF Routes!RoutingInv, Routes!RoutingTypeOK
  <2>3. r.to \in Pattern
    BY <2>2 DEF Routes!Route
  <2> QED
    BY <2>1, <2>2, <2>3 DEF Routes!RoutingBounds
<1>2. ASSUME NEW q \in Routes!Rows, NEW r \in Routes!Rows, q.to.sub = r.to.sub, q.to.labels = r.to.labels
      PROVE  q = r
  <2>1. q.to = r.to
    BY <1>1, <1>2
  <2> QED
    BY <2>1 DEF Routes!RoutingInv, Routes!OneRouteEach
<1> QED
  BY <1>1, <1>2

\* A pattern with a leading dot matches what lies below its labels.
LEMMA MatchesBelow ==
  ASSUME NEW p, p.labels \in Seq(Label), p.labels # <<>>, p.sub, NEW d \in Seq(Label)
  PROVE  /\ Routes!Matches(p, d) <=> \E k \in 2..Len(d) : p.labels = SubSeq(d, k, Len(d))
         /\ Routes!Matches(p, d) => /\ Len(p.labels) \in 1..Len(d) - 1
                                    /\ p.labels = SubSeq(d, Len(d) - Len(p.labels) + 1, Len(d))
<1> DEFINE l == p.labels
<1>1. Routes!Matches(p, d) <=> Routes!IsSuffix(l, d) /\ l # d
  BY DEF Routes!Matches
<1>2. Routes!IsSuffix(l, d) <=> Len(l) <= Len(d) /\ l = SubSeq(d, Len(d) - Len(l) + 1, Len(d))
  BY SuffixEnds
<1> HIDE DEF l
<1>3. l \in Seq(Label) /\ l # <<>> /\ Len(l) \in Nat \ {0} /\ Len(d) \in Nat
  BY DEF l
<1>4. ASSUME Routes!Matches(p, d)
      PROVE  /\ Len(l) \in 1..Len(d) - 1 /\ l = SubSeq(d, Len(d) - Len(l) + 1, Len(d))
  <2>1. Len(l) <= Len(d) /\ l = SubSeq(d, Len(d) - Len(l) + 1, Len(d)) /\ l # d
    BY <1>1, <1>2, <1>4
  <2>2. Len(l) # Len(d)
    <3>1. SUFFICES ASSUME Len(l) = Len(d) PROVE FALSE
      OBVIOUS
    <3>2. Len(d) - Len(l) + 1 = 1
      BY <1>3, <3>1
    <3>3. l = SubSeq(d, 1, Len(d))
      BY <2>1, <3>2
    <3> QED
      BY <2>1, <3>3
  <2> QED
    BY <1>3, <2>1, <2>2
<1>5. ASSUME Routes!Matches(p, d)
      PROVE  \E k \in 2..Len(d) : l = SubSeq(d, k, Len(d))
  <2>1. Len(d) - Len(l) + 1 \in 2..Len(d)
    BY <1>3, <1>4, <1>5
  <2> QED
    BY <1>4, <1>5, <2>1
<1>6. ASSUME NEW k \in 2..Len(d), l = SubSeq(d, k, Len(d))
      PROVE  Routes!Matches(p, d)
  <2>1. Len(l) = Len(d) - k + 1
    BY <1>3, <1>6
  <2>2. Len(d) - Len(l) + 1 = k /\ Len(l) < Len(d)
    BY <1>3, <2>1
  <2> QED
    BY <1>1, <1>2, <1>3, <1>6, <2>2
<1> QED
  BY <1>4, <1>5, <1>6 DEF l

\* The longest pattern that matches is the exact one, or else that of the nearest
\* domain above: the path a destination is due is the path it is given.
LEMMA PathIsDue ==
  ASSUME Routes!RoutingInv, Routes!RoutingBounds, NEW d \in Seq(Label), d # <<>>
  PROVE  Routes!PathOf(Routes!RouteFor(d)) = Routes!Due(d)
<1> DEFINE C == Routes!Candidates(d)
           exact == {r \in Routes!Rows : r.on /\ ~r.to.sub /\ r.to.labels = d}
           above == {r \in Routes!Rows : r.on /\ r.to.sub /\ \E k \in 2..Len(d) :
                                            r.to.labels = SubSeq(d, k, Len(d))}
           nearest == {r \in above : \A q \in above : Len(q.to.labels) <= Len(r.to.labels)}
           best == {r \in C : \A q \in C : Routes!TextLen(r.to) >= Routes!TextLen(q.to)}
<1>1. Routes!Due(d) = IF exact # {} THEN (CHOOSE r \in exact : TRUE).path
                      ELSE IF nearest # {} THEN (CHOOSE r \in nearest : TRUE).path ELSE Global
  BY DEF Routes!Due
<1>2. Routes!RouteFor(d) = IF C = {} THEN Routes!NoRoute
                           ELSE CHOOSE r \in C : \A q \in C : Routes!TextLen(r.to) >= Routes!TextLen(q.to)
  BY DEF Routes!RouteFor
<1>3. \A r \in Routes!Rows : /\ r # Routes!NoRoute /\ r.to.sub \in BOOLEAN
                             /\ r.to.labels \in Seq(Label) /\ r.to.labels # <<>>
  BY RowsAre
<1>4. \A q, r \in Routes!Rows : q.to.sub = r.to.sub /\ q.to.labels = r.to.labels => q = r
  BY RowsAre
<1>5. ASSUME NEW r \in Routes!Rows, r.to.sub
      PROVE  /\ r \in C <=> r \in above
             /\ r \in C => /\ Len(r.to.labels) \in 1..Len(d) - 1
                           /\ r.to.labels = SubSeq(d, Len(d) - Len(r.to.labels) + 1, Len(d))
                           /\ Routes!TextLen(r.to) = 2 * Len(r.to.labels)
  <2>1. /\ Routes!Matches(r.to, d) <=> \E k \in 2..Len(d) : r.to.labels = SubSeq(d, k, Len(d))
        /\ Routes!Matches(r.to, d) => /\ Len(r.to.labels) \in 1..Len(d) - 1
                                      /\ r.to.labels = SubSeq(d, Len(d) - Len(r.to.labels) + 1, Len(d))
    BY <1>3, <1>5, MatchesBelow
  <2>2. r \in C <=> r.on /\ Routes!Matches(r.to, d)
    BY DEF Routes!Candidates
  <2>3. Routes!TextLen(r.to) = 2 * Len(r.to.labels) - 0
    BY <1>5 DEF Routes!TextLen
  <2>4. Routes!TextLen(r.to) = 2 * Len(r.to.labels)
    BY <1>3, <2>3
  <2>5. r \in above <=> r.on /\ \E k \in 2..Len(d) : r.to.labels = SubSeq(d, k, Len(d))
    BY <1>5
  <2>6. r \in C <=> r \in above
    <3> HIDE DEF C, above
    <3> QED
      BY <2>1, <2>2, <2>5
  <2> HIDE DEF C, above
  <2> QED
    BY <2>1, <2>2, <2>4, <2>6
<1>6. ASSUME NEW r \in Routes!Rows, ~r.to.sub
      PROVE  /\ r \in C <=> r \in exact
             /\ r \in C => r.to.labels = d /\ Routes!TextLen(r.to) = 2 * Len(d) - 1
  BY <1>6 DEF Routes!Candidates, Routes!Matches, Routes!TextLen
<1>7. C \subseteq Routes!Rows /\ exact \subseteq Routes!Rows /\ above \subseteq Routes!Rows
  BY DEF Routes!Candidates
<1>8. Len(d) \in Nat
  OBVIOUS
<1>9. /\ \A r \in exact : ~r.to.sub /\ r.to.labels = d
      /\ \A r \in above : r.to.sub
  OBVIOUS
<1>10. nearest \subseteq above
  OBVIOUS
<1>11. CASE exact # {}
  <2>1. PICK e \in exact : TRUE
    BY <1>11
  <2> HIDE DEF C, exact, above, nearest
  <2>2. e \in C /\ Routes!TextLen(e.to) = 2 * Len(d) - 1
    BY <1>6, <1>7, <1>9, <2>1
  <2>3. \A r \in exact : r = e
    <3> TAKE r \in exact
    <3>1. r \in Routes!Rows /\ e \in Routes!Rows /\ ~r.to.sub /\ ~e.to.sub /\ r.to.labels = e.to.labels
      BY <1>7, <1>9, <2>1
    <3>2. r.to.sub = e.to.sub
      BY <1>3, <3>1
    <3> QED
      BY <1>4, <3>1, <3>2
  <2>4. ASSUME NEW r \in C, r # e
        PROVE  Routes!TextLen(r.to) \in Int /\ Routes!TextLen(r.to) < Routes!TextLen(e.to)
    <3>1. r.to.sub
      BY <1>6, <1>7, <2>3, <2>4
    <3>2. Len(r.to.labels) \in 1..Len(d) - 1 /\ Routes!TextLen(r.to) = 2 * Len(r.to.labels)
      BY <1>5, <1>7, <2>4, <3>1
    <3> QED
      BY <1>8, <2>2, <3>2
  <2>5. \A q \in C : Routes!TextLen(e.to) >= Routes!TextLen(q.to)
    <3> TAKE q \in C
    <3>1. CASE q = e
      BY <1>8, <2>2, <3>1
    <3>2. CASE q # e
      BY <1>8, <2>2, <2>4, <3>2
    <3> QED
      BY <3>1, <3>2
  <2>6. ASSUME NEW r \in C, \A q \in C : Routes!TextLen(r.to) >= Routes!TextLen(q.to)
        PROVE  r = e
    <3>1. SUFFICES ASSUME r # e PROVE FALSE
      OBVIOUS
    <3>2. Routes!TextLen(r.to) \in Int /\ Routes!TextLen(r.to) < Routes!TextLen(e.to)
      BY <2>4, <3>1
    <3>3. Routes!TextLen(r.to) >= Routes!TextLen(e.to)
      BY <2>2, <2>6
    <3> QED
      BY <1>8, <2>2, <3>2, <3>3
  <2>7. Routes!RouteFor(d) = e
    BY <1>2, <2>2, <2>5, <2>6
  <2>8. (CHOOSE r \in exact : TRUE) = e
    BY <2>1, <2>3
  <2>9. Routes!Due(d) = e.path
    BY <1>1, <1>11, <2>8
  <2>10. e # Routes!NoRoute
    BY <1>3, <1>7, <2>2
  <2> QED
    BY <2>7, <2>9, <2>10 DEF Routes!PathOf
<1>12. CASE exact = {}
  <2>1. C = above
    <3> HIDE DEF C, exact, above
    <3> QED
      BY <1>5, <1>6, <1>7, <1>9, <1>12
  <2>2. CASE above = {}
    <3>1. nearest = {} /\ C = {}
      BY <2>1, <2>2
    <3>2. Routes!Due(d) = Global
      <4> HIDE DEF exact, nearest
      <4> QED
        BY <1>1, <1>12, <3>1
    <3>3. Routes!RouteFor(d) = Routes!NoRoute
      <4> HIDE DEF C
      <4> QED
        BY <1>2, <3>1
    <3> QED
      BY <3>2, <3>3 DEF Routes!PathOf
  <2>3. CASE above # {}
    <3>1. \A r \in above : /\ Len(r.to.labels) \in 1..Len(d) - 1
                           /\ r.to.labels = SubSeq(d, Len(d) - Len(r.to.labels) + 1, Len(d))
                           /\ Routes!TextLen(r.to) = 2 * Len(r.to.labels)
      <4> HIDE DEF C, exact, above
      <4> TAKE r \in above
      <4>1. r \in Routes!Rows /\ r.to.sub /\ r \in C
        BY <1>7, <1>9, <2>1
      <4> QED
        BY <1>5, <4>1
    <3>12. \A r \in above : /\ Len(r.to.labels) \in 1..Len(d) - 1
                            /\ Routes!TextLen(r.to) = 2 * Len(r.to.labels)
      <4> HIDE DEF above
      <4> QED
        BY <3>1
    <3>2. PICK r0 \in above : \A q \in above : Len(q.to.labels) <= Len(r0.to.labels)
      <4> DEFINE T == {Len(d) - Len(r.to.labels) : r \in above}
      <4> HIDE DEF above
      <4>1. T \in SUBSET Nat
        <5>1. ASSUME NEW r \in above PROVE Len(d) - Len(r.to.labels) \in Nat
          <6>1. Len(r.to.labels) \in 1..Len(d) - 1
            BY <3>12, <5>1
          <6> QED
            BY <1>8, <6>1
        <5> QED
          BY <5>1
      <4>2. T # {}
        BY <2>3
      <4>3. PICK x \in T : \A y \in T : x <= y
        BY <4>1, <4>2, Least
      <4>4. PICK r1 \in above : x = Len(d) - Len(r1.to.labels)
        OBVIOUS
      <4>5. ASSUME NEW q \in above PROVE Len(q.to.labels) <= Len(r1.to.labels)
        <5>1. Len(d) - Len(r1.to.labels) <= Len(d) - Len(q.to.labels)
          BY <4>3, <4>4
        <5> QED
          BY <1>8, <3>1, <5>1
      <4> QED
        BY <4>5
    <3>3. r0 \in nearest
      BY <3>2
    <3>4. \A r \in nearest : \A q \in above : Len(q.to.labels) <= Len(r.to.labels)
      OBVIOUS
    <3> HIDE DEF C, exact, above, nearest
    <3>5. ASSUME NEW r \in above, Len(r.to.labels) = Len(r0.to.labels)
          PROVE  r = r0
      <4>1. r.to.labels = r0.to.labels
        BY <3>1, <3>5
      <4>2. r.to.sub /\ r0.to.sub /\ r \in Routes!Rows /\ r0 \in Routes!Rows
        BY <1>7, <1>9
      <4>3. r.to.sub \in BOOLEAN /\ r0.to.sub \in BOOLEAN
        BY <1>3, <4>2
      <4> QED
        BY <1>4, <4>1, <4>2, <4>3
    <3>6. \A r \in nearest : r = r0
      <4> TAKE r \in nearest
      <4>1. r \in above /\ Len(r.to.labels) <= Len(r0.to.labels) /\ Len(r0.to.labels) <= Len(r.to.labels)
        BY <1>10, <3>2, <3>4
      <4>2. Len(r.to.labels) = Len(r0.to.labels)
        BY <3>1, <4>1
      <4> QED
        BY <3>5, <4>1, <4>2
    <3>7. Routes!Due(d) = r0.path
      BY <1>1, <1>12, <3>3, <3>6
    <3>8. \A q \in C : Routes!TextLen(r0.to) >= Routes!TextLen(q.to)
      <4> TAKE q \in C
      <4>1. q \in above /\ Len(q.to.labels) <= Len(r0.to.labels)
        BY <2>1, <3>2
      <4>2. /\ Len(q.to.labels) \in Int /\ Routes!TextLen(q.to) = 2 * Len(q.to.labels)
            /\ Len(r0.to.labels) \in Int /\ Routes!TextLen(r0.to) = 2 * Len(r0.to.labels)
        <5>1. Len(q.to.labels) \in 1..Len(d) - 1 /\ Len(r0.to.labels) \in 1..Len(d) - 1
          BY <3>12, <4>1
        <5> QED
          BY <3>12, <4>1, <5>1
      <4> QED
        BY <4>1, <4>2
    <3>9. ASSUME NEW r \in C, \A q \in C : Routes!TextLen(r.to) >= Routes!TextLen(q.to)
          PROVE  r = r0
      <4>1. Routes!TextLen(r.to) >= Routes!TextLen(r0.to) /\ r \in above
        BY <2>1, <3>9
      <4>2. /\ Len(r.to.labels) \in Int /\ Routes!TextLen(r.to) = 2 * Len(r.to.labels)
            /\ Len(r0.to.labels) \in Int /\ Routes!TextLen(r0.to) = 2 * Len(r0.to.labels)
            /\ Len(r.to.labels) <= Len(r0.to.labels)
        <5>1. Len(r.to.labels) \in 1..Len(d) - 1 /\ Len(r0.to.labels) \in 1..Len(d) - 1
          BY <3>12, <4>1
        <5> QED
          BY <3>2, <3>12, <4>1, <5>1
      <4>3. Len(r.to.labels) = Len(r0.to.labels)
        BY <4>1, <4>2
      <4> QED
        BY <3>5, <4>1, <4>3
    <3>10. Routes!RouteFor(d) = r0
      BY <1>2, <2>1, <3>8, <3>9
    <3>11. r0 # Routes!NoRoute
      BY <1>3, <1>7
    <3> QED
      BY <3>7, <3>10, <3>11 DEF Routes!PathOf
  <2> QED
    BY <2>2, <2>3
<1> QED
  BY <1>11, <1>12
\* At the start there is no route, and nobody has been served.
LEMMA InitRoutes == ASSUME Routes!RoutingBounds, Routes!RoutingInit PROVE Routes!RoutingInv
BY DEF Routes!RoutingBounds, Routes!RoutingInit, Routes!RoutingInv, Routes!RoutingTypeOK,
       Routes!OneRouteEach, Routes!OnItsRoute, Routes!Rows

\* A row is written under its id, for a destination no other row is for.
LEMMA RowIsPut ==
  ASSUME Routes!RoutingInv, Routes!RoutingBounds, NEW i \in RouteId, NEW new \in Routes!Route, new.id = i,
         ~Routes!Taken(new.to, i), routes' = [routes EXCEPT ![i] = new],
         UNCHANGED <<envelope, todo, gone>>, routePatch' \in [Admin -> Routes!Route \union {Routes!NoRoute}]
  PROVE  Routes!RoutingInv'
<1>0. /\ routes \in [RouteId -> Routes!Route \union {Routes!NoRoute}]
      /\ \A j \in RouteId : routes[j] # Routes!NoRoute => routes[j].id = j
  BY DEF Routes!RoutingInv, Routes!RoutingTypeOK
<1>1. /\ routes' \in [RouteId -> Routes!Route \union {Routes!NoRoute}] /\ routes'[i] = new
      /\ \A j \in RouteId \ {i} : routes'[j] = routes[j]
  BY <1>0
<1>2. Routes!RoutingTypeOK'
  BY <1>1 DEF Routes!RoutingInv, Routes!RoutingTypeOK, Routes!Route, Routes!NoRoute
<1>3. \A j \in RouteId : routes'[j] # Routes!NoRoute => routes'[j].id = j
  BY <1>0, <1>1
<1>4. ASSUME NEW r \in Routes!Rows'
      PROVE  r = new \/ (r \in Routes!Rows /\ r.id # i)
  BY <1>0, <1>1, <1>4 DEF Routes!Rows
<1>5. \A r \in Routes!Rows : r.id # i => r.to # new.to
  BY DEF Routes!Taken
<1>6. Routes!OneRouteEach'
  <2> SUFFICES ASSUME NEW q \in Routes!Rows', NEW r \in Routes!Rows', q.to = r.to PROVE q = r
    BY DEF Routes!OneRouteEach
  <2> QED
    BY <1>4, <1>5 DEF Routes!RoutingInv, Routes!OneRouteEach
<1>7. (Routes!OneDestinationEach => Routes!OnItsRoute)'
  BY DEF Routes!RoutingInv, Routes!OneDestinationEach, Routes!OnItsRoute
<1> QED
  BY <1>2, <1>3, <1>6, <1>7 DEF Routes!RoutingInv, Routes!NoRoute

\* Creating and reading a route
LEMMA RoutesCreate ==
  ASSUME Routes!RoutingInv, Routes!RoutingBounds, NEW i \in RouteId,
         \/ \E to \in Pattern, path \in Path : Routes!CreateRoute(i, to, path)
         \/ \E a \in Admin : Routes!ReadRoute(a, i)
  PROVE  Routes!RoutingInv'
<1>1. ASSUME NEW to \in Pattern, NEW path \in Path, Routes!CreateRoute(i, to, path) PROVE Routes!RoutingInv'
  <2> DEFINE new == [id |-> i, to |-> to, path |-> path, on |-> TRUE]
  <2>1. new \in Routes!Route /\ new.id = i /\ new.to = to
    BY DEF Routes!Route
  <2>2. /\ ~Routes!Taken(new.to, i) /\ routes' = [routes EXCEPT ![i] = new] /\ UNCHANGED <<envelope, todo, gone>>
        /\ routePatch' \in [Admin -> Routes!Route \union {Routes!NoRoute}]
    BY <1>1, <2>1 DEF Routes!CreateRoute, Routes!RoutingInv, Routes!RoutingTypeOK
  <2> HIDE DEF new
  <2> QED
    BY <2>1, <2>2, RowIsPut
<1>2. ASSUME NEW a \in Admin, Routes!ReadRoute(a, i) PROVE Routes!RoutingInv'
  <2>1. /\ routePatch' = [routePatch EXCEPT ![a] = routes[i]] /\ routes[i] \in Routes!Route \union {Routes!NoRoute}
        /\ UNCHANGED <<routes, envelope, todo, gone>>
    BY <1>2 DEF Routes!ReadRoute, Routes!RoutingInv, Routes!RoutingTypeOK
  <2>2. Routes!RoutingTypeOK'
    BY <2>1 DEF Routes!RoutingInv, Routes!RoutingTypeOK, Routes!Route, Routes!NoRoute
  <2> QED
    BY <2>1, <2>2 DEF Routes!RoutingInv, Routes!OneRouteEach, Routes!Rows, Routes!OneDestinationEach,
       Routes!OnItsRoute, Routes!NoRoute
<1> QED
  BY <1>1, <1>2

\* Writing what was read, with one column changed, and deleting a route
LEMMA RoutesChange ==
  ASSUME Routes!RoutingInv, Routes!RoutingBounds,
         \/ \E a \in Admin, row_ \in [id : RouteId, to : Pattern, path : Path, on : BOOLEAN] : Routes!WriteRoute(a, row_)
         \/ \E i \in RouteId : Routes!DeleteRoute(i)
  PROVE  Routes!RoutingInv'
<1>0. /\ routes \in [RouteId -> Routes!Route \union {Routes!NoRoute}]
      /\ routePatch \in [Admin -> Routes!Route \union {Routes!NoRoute}]
  BY DEF Routes!RoutingInv, Routes!RoutingTypeOK
<1>1. ASSUME NEW a \in Admin, NEW new \in Routes!Route, Routes!WriteRoute(a, new) PROVE Routes!RoutingInv'
  <2>1. /\ routes' = IF routes[new.id] = Routes!NoRoute \/ Routes!Taken(new.to, new.id) THEN routes
                     ELSE [routes EXCEPT ![new.id] = new]
        /\ routePatch' = [routePatch EXCEPT ![a] = Routes!NoRoute] /\ UNCHANGED <<envelope, todo, gone>>
    BY <1>1 DEF Routes!WriteRoute
  <2>2. routePatch' \in [Admin -> Routes!Route \union {Routes!NoRoute}] /\ new.id \in RouteId
    BY <1>0, <2>1 DEF Routes!Route
  <2>3. CASE routes' = routes
    <3>1. Routes!RoutingTypeOK'
      BY <2>1, <2>2, <2>3 DEF Routes!RoutingInv, Routes!RoutingTypeOK, Routes!Route, Routes!NoRoute
    <3>2. Routes!OneRouteEach'
      BY <2>3 DEF Routes!RoutingInv, Routes!OneRouteEach, Routes!Rows, Routes!NoRoute
    <3>3. (Routes!OneDestinationEach => Routes!OnItsRoute)'
      BY <2>1 DEF Routes!RoutingInv, Routes!OneDestinationEach, Routes!OnItsRoute
    <3>4. \A j \in RouteId : routes'[j] # Routes!NoRoute => routes'[j].id = j
      BY <2>3 DEF Routes!RoutingInv
    <3> QED
      BY <3>1, <3>2, <3>3, <3>4 DEF Routes!RoutingInv, Routes!NoRoute
  <2>4. CASE ~Routes!Taken(new.to, new.id) /\ routes' = [routes EXCEPT ![new.id] = new]
    BY <2>1, <2>2, <2>4, RowIsPut
  <2> QED
    BY <2>1, <2>3, <2>4
<1>2. ASSUME NEW i \in RouteId, Routes!DeleteRoute(i) PROVE Routes!RoutingInv'
  <2>1. routes' = [routes EXCEPT ![i] = Routes!NoRoute] /\ UNCHANGED <<routePatch, envelope, todo, gone>>
    BY <1>2 DEF Routes!DeleteRoute
  <2>2. Routes!RoutingTypeOK'
    BY <1>0, <2>1 DEF Routes!RoutingInv, Routes!RoutingTypeOK, Routes!Route, Routes!NoRoute
  <2>3. \A j \in RouteId : routes'[j] = routes[j] \/ routes'[j] = Routes!NoRoute
    BY <1>0, <2>1
  <2>4. Routes!Rows' \subseteq Routes!Rows
    BY <2>3 DEF Routes!Rows, Routes!NoRoute
  <2>5. \A j \in RouteId : routes'[j] # Routes!NoRoute => routes'[j].id = j
    BY <2>3 DEF Routes!RoutingInv
  <2> QED
    BY <2>1, <2>2, <2>4, <2>5 DEF Routes!RoutingInv, Routes!OneRouteEach, Routes!OneDestinationEach,
       Routes!OnItsRoute, Routes!NoRoute
<1> QED
  BY <1>1, <1>2 DEF Routes!Route

\* Those who are served together go where the first of them goes.
LEMMA RoutesSend ==
  ASSUME Routes!RoutingInv, Routes!RoutingBounds, NEW m \in Mail, Routes!SendOutbound(m)
  PROVE  Routes!RoutingInv'
<1> DEFINE e == envelope[m]
           first == Routes!Min(todo[m])
<1>1. PICK served \in (SUBSET todo[m]) \ {{}} :
        \/ Routes!Leave(m, served, Routes!RouteOfMail(m), FALSE)
        \/ Routes!Leave(m, served, Global, TRUE)
  BY DEF Routes!SendOutbound
<1>2. UNCHANGED <<routes, routePatch, envelope>>
  BY DEF Routes!SendOutbound
<1>3. e \in Envelopes /\ todo[m] \subseteq DOMAIN e /\ envelope \in [Mail -> Envelopes]
  BY DEF Routes!RoutingInv, Routes!RoutingTypeOK
<1>4. e \in Seq(Seq(Label) \ {<<>>})
  BY <1>3 DEF Routes!RoutingBounds
<1>5. DOMAIN e \subseteq Nat /\ \A k \in DOMAIN e : e[k] \in Seq(Label) /\ e[k] # <<>>
  BY <1>4
<1>6. first \in todo[m]
  <2>1. todo[m] \in SUBSET Nat /\ todo[m] # {}
    BY <1>1, <1>3, <1>5
  <2> QED
    BY <2>1, Least DEF Routes!Min
<1>7. todo' = [todo EXCEPT ![m] = todo[m] \ served]
  BY <1>1 DEF Routes!Leave
<1>8. ASSUME Routes!OneDestinationEach, NEW x \in gone'
      PROVE  x.unread \/ x.path = x.due
  <2>1. CASE x \in gone
    BY <1>8, <2>1 DEF Routes!RoutingInv, Routes!OnItsRoute
  <2>2. ASSUME NEW k \in served, NEW path, NEW unread \in BOOLEAN,
               x = [to |-> e[k], path |-> path, due |-> Routes!Due(e[k]), unread |-> unread],
               unread \/ path = Routes!RouteOfMail(m)
        PROVE  x.unread \/ x.path = x.due
    <3>1. e[first] = e[k]
      BY <1>1, <1>3, <1>6, <1>8 DEF Routes!OneDestinationEach
    <3>2. e[k] \in Seq(Label) /\ e[k] # <<>>
      BY <1>1, <1>3, <1>5
    <3>3. Routes!RouteOfMail(m) = Routes!Due(e[k])
      BY <3>1, <3>2, PathIsDue DEF Routes!RouteOfMail
    <3> QED
      BY <2>2, <3>3
  <2>3. CASE x \notin gone
    <3>1. CASE Routes!Leave(m, served, Routes!RouteOfMail(m), FALSE)
      BY <1>8, <2>2, <2>3, <3>1 DEF Routes!Leave
    <3>2. CASE Routes!Leave(m, served, Global, TRUE)
      <4>1. \E k \in served : x.unread = TRUE
        BY <1>8, <2>3, <3>2 DEF Routes!Leave
      <4> QED
        BY <4>1
    <3> QED
      BY <1>1, <3>1, <3>2
  <2> QED
    BY <2>1, <2>3
<1>9. Routes!RoutingTypeOK'
  <2>1. \A n \in Mail : todo'[n] \subseteq DOMAIN envelope[n]
    BY <1>3, <1>7 DEF Routes!RoutingInv, Routes!RoutingTypeOK
  <2> QED
    BY <1>2, <2>1 DEF Routes!RoutingInv, Routes!RoutingTypeOK, Routes!Route, Routes!NoRoute
<1>10. (Routes!OneDestinationEach => Routes!OnItsRoute)'
  BY <1>8 DEF Routes!OneDestinationEach, Routes!OnItsRoute
<1> QED
  BY <1>2, <1>9, <1>10 DEF Routes!RoutingInv, Routes!OneRouteEach, Routes!Rows, Routes!NoRoute

\* Every step of administrators and of the delivery loop keeps the invariant.
LEMMA NextRoutes ==
  ASSUME Routes!RoutingInv, Routes!RoutingBounds, [Routes!RoutingNext]_(Routes!vars)
  PROVE  Routes!RoutingInv'
<1>1. CASE UNCHANGED Routes!vars
  BY <1>1 DEF Routes!vars, Routes!RoutingInv, Routes!RoutingTypeOK, Routes!OneRouteEach, Routes!Rows,
     Routes!OneDestinationEach, Routes!OnItsRoute, Routes!Route, Routes!NoRoute
<1>2. CASE \E i \in RouteId : \/ \E to \in Pattern, path \in Path : Routes!CreateRoute(i, to, path)
                              \/ Routes!DeleteRoute(i)
  BY <1>2, RoutesCreate, RoutesChange
<1>3. CASE \E a \in Admin :
             \/ \E i \in RouteId : Routes!ReadRoute(a, i)
             \/ \E new \in [id : RouteId, to : Pattern, path : Path, on : BOOLEAN] : Routes!WriteRoute(a, new)
  BY <1>3, RoutesCreate, RoutesChange
<1>4. CASE \E m \in Mail : Routes!SendOutbound(m)
  BY <1>4, RoutesSend
<1> QED
  BY <1>1, <1>2, <1>3, <1>4 DEF Routes!RoutingNext

\* OutboundAsConfigured, for any keys, administrators, routes, patterns and envelopes:
\* with requests one after the other no message is signed with a key whose record
\* nobody published, unless an administrator forced it; no two routes are for the
\* same destination; and a message to one destination leaves on the path that is
\* due (handleUpdateDKIM; sender/outbound.go, routeFor; store.go, RouteFor).
THEOREM OutboundStaysAsConfigured == Keypairs!SigningSpec /\ Routes!RoutingSpec => []OutboundAsConfigured
<1>1. Keypairs!SigningBounds /\ Routes!RoutingBounds
  BY UpkeepAssumption
<1> DEFINE KeypairsInv == Keypairs!OneAtATime => Keypairs!SigningInv
<1>2. Keypairs!SigningInit => KeypairsInv
  BY InitKeypairs
<1>3. KeypairsInv /\ [Keypairs!SigningNext]_(Keypairs!vars) => KeypairsInv'
  BY <1>1, NextKeypairs DEF Keypairs!OneAtATime
<1>4. KeypairsInv /\ Routes!RoutingInv => OutboundAsConfigured
  BY DEF OutboundAsConfigured, Keypairs!SigningInv, Routes!RoutingInv
<1> HIDE DEF KeypairsInv
<1> QED
  BY InitRoutes, NextRoutes, <1>1, <1>2, <1>3, <1>4, PTL DEF Keypairs!SigningSpec, Routes!RoutingSpec
-----------------------------------------------------------------------------
(* The store of bodies.                                                    *)

\* The lesser of two numbers
LEMMA MinOfTwo ==
  ASSUME NEW x \in Nat, NEW y \in Nat
  PROVE  Bodies!Min({x, y}) = IF x <= y THEN x ELSE y
<1>1. Bodies!Min({x, y}) = CHOOSE z \in {x, y} : \A w \in {x, y} : z <= w
  BY DEF Bodies!Min
<1>2. CASE x <= y
  <2>1. \A z \in {x, y} : (\A w \in {x, y} : z <= w) => z = x
    BY <1>2
  <2>2. x \in {x, y} /\ \A w \in {x, y} : x <= w
    BY <1>2
  <2> QED
    BY <1>1, <1>2, <2>1, <2>2
<1>3. CASE ~(x <= y)
  <2>1. \A z \in {x, y} : (\A w \in {x, y} : z <= w) => z = y
    BY <1>3
  <2>2. y \in {x, y} /\ \A w \in {x, y} : y <= w
    BY <1>3
  <2> QED
    BY <1>1, <1>3, <2>1, <2>2
<1> QED
  BY <1>2, <1>3

\* A body is the sequence of its bytes, and its beginnings follow one another.
LEMMA BodyIs ==
  ASSUME NEW i \in Id, len[i] \in Nat
  PROVE  /\ Bodies!Body(i) \in Seq(Id \X Nat) /\ Len(Bodies!Body(i)) = len[i]
         /\ SubSeq(Bodies!Body(i), 1, len[i]) = Bodies!Body(i) /\ SubSeq(Bodies!Body(i), 1, 0) = <<>>
<1> DEFINE f == Bodies!Body(i)
<1>1. f = [k \in 1..len[i] |-> <<i, k>>]
  BY DEF Bodies!Body
<1>2. f \in Seq(Id \X Nat) /\ Len(f) = len[i]
  BY <1>1
<1> HIDE DEF f
<1>3. SubSeq(f, 1, len[i]) = f /\ SubSeq(f, 1, 0) = <<>>
  BY <1>2
<1> QED
  BY <1>2, <1>3 DEF f

\* A beginning and what follows it are the next beginning.
LEMMA Beginnings ==
  ASSUME NEW S, NEW s \in Seq(S), NEW a \in Nat, NEW b \in Nat, a <= b, b <= Len(s)
  PROVE  SubSeq(s, 1, a) \o SubSeq(s, a + 1, b) = SubSeq(s, 1, b)
<1> DEFINE x == SubSeq(s, 1, a)
           y == SubSeq(s, a + 1, b)
           z == SubSeq(s, 1, b)
<1>1. Len(x) = a /\ x \in Seq(S) /\ \A k \in 1..a : x[k] = s[k]
  OBVIOUS
<1>2. Len(y) = b - a /\ y \in Seq(S) /\ \A k \in 1..b - a : y[k] = s[a + k]
  <2>1. y \in Seq(S)
    OBVIOUS
  <2>2. Len(y) = b - a
    OBVIOUS
  <2>3. \A k \in 1..b - a : y[k] = s[a + k]
    OBVIOUS
  <2> QED
    BY <2>1, <2>2, <2>3
<1>3. Len(z) = b /\ z \in Seq(S) /\ \A k \in 1..b : z[k] = s[k]
  OBVIOUS
<1> HIDE DEF x, y, z
<1>4. /\ x \o y \in Seq(S) /\ Len(x \o y) = b
      /\ \A k \in 1..b : (x \o y)[k] = IF k <= a THEN x[k] ELSE y[k - a]
  <2>1. /\ x \o y \in Seq(S) /\ Len(x \o y) = Len(x) + Len(y)
        /\ \A k \in 1..Len(x) + Len(y) : (x \o y)[k] = IF k <= Len(x) THEN x[k] ELSE y[k - Len(x)]
    BY <1>1, <1>2, ConcatProperties
  <2>2. Len(x) + Len(y) = b
    BY <1>1, <1>2
  <2> QED
    BY <1>1, <2>1, <2>2
<1>5. ASSUME NEW k \in 1..b PROVE (x \o y)[k] = z[k]
  <2>1. CASE k <= a
    BY <1>1, <1>3, <1>4, <2>1
  <2>2. CASE ~(k <= a)
    <3>1. (x \o y)[k] = y[k - a]
      BY <1>4, <2>2
    <3>2. k - a \in 1..b - a /\ a + (k - a) = k
      BY <2>2
    <3> QED
      BY <1>2, <1>3, <3>1, <3>2
  <2> QED
    BY <2>1, <2>2
<1>6. x \o y = z
  BY <1>3, <1>4, <1>5, SeqEqual
<1> QED
  BY <1>6 DEF x, y, z

\* The piece of a chunk that begins within the body: full, or the rest of it.
LEMMA PieceIs ==
  ASSUME Bodies!BlobBounds, NEW i \in Id, len[i] \in Nat, NEW n \in Nat, NEW a \in Nat, a = n * Chunk
  PROVE  /\ Bodies!Piece(i, n) \in Seq(Id \X Nat)
         /\ a <= len[i] =>
              LET b == IF a + Chunk <= len[i] THEN a + Chunk ELSE len[i]
              IN  /\ Bodies!Piece(i, n) = SubSeq(Bodies!Body(i), a + 1, b)
                  /\ Len(Bodies!Piece(i, n)) = b - a
                  /\ Len(Bodies!Piece(i, n)) < Chunk <=> len[i] < a + Chunk
<1>0. Chunk \in Nat \ {0}
  BY DEF Bodies!BlobBounds
<1> DEFINE b == IF a + Chunk <= len[i] THEN a + Chunk ELSE len[i]
           f == Bodies!Body(i)
<1>1. Bodies!Piece(i, n) = SubSeq(f, a + 1, b)
  BY <1>0, MinOfTwo DEF Bodies!Piece
<1>2. b \in Nat /\ b <= len[i]
  BY <1>0
<1>3. f \in Seq(Id \X Nat) /\ Len(f) = len[i]
  BY BodyIs
<1> HIDE DEF f
<1>4. SubSeq(f, a + 1, b) \in Seq(Id \X Nat)
  <2> HIDE DEF b
  <2> QED
    BY <1>2, <1>3
<1>5. ASSUME a <= len[i] PROVE Len(SubSeq(f, a + 1, b)) = b - a /\ (b - a < Chunk <=> len[i] < a + Chunk)
  <2>1. a <= b
    BY <1>0, <1>5
  <2>2. Len(SubSeq(f, a + 1, b)) = b - a
    <3> HIDE DEF b
    <3> QED
      BY <1>2, <1>3, <2>1
  <2> QED
    BY <1>0, <1>5, <2>2
<1> QED
  BY <1>1, <1>4, <1>5 DEF f
\* At the start there are neither keys nor files.
LEMMA InitBodies == ASSUME Bodies!BlobBounds, Bodies!BlobInit PROVE Bodies!BlobInv
<1>1. len \in [Id -> Nat]
  BY DEF Bodies!BlobInit, Bodies!BlobBounds
<1>2. /\ <<>> \in Seq(Bodies!Sealing) /\ <<>> \in Seq(Id \X Nat) /\ Len(<<>>) = 0
  OBVIOUS
<1>3. Bodies!NoFile \in Bodies!Stored /\ Bodies!NoPut \in Bodies!Putting /\ Bodies!NoReader \in Bodies!Reader
  BY <1>2 DEF Bodies!NoFile, Bodies!NoPut, Bodies!NoReader, Bodies!Stored, Bodies!Putting, Bodies!Reader
<1>4. Bodies!BlobTypeOK
  BY <1>1, <1>3 DEF Bodies!BlobInit, Bodies!BlobTypeOK
<1>5. Bodies!KeysAgree /\ Bodies!PutsInOrder /\ Bodies!FilesAreWhole
  BY DEF Bodies!BlobInit, Bodies!KeysAgree, Bodies!PutsInOrder, Bodies!FilesAreWhole, Bodies!NoPut
<1>6. Bodies!ReadersAreInPlace
  <2> SUFFICES ASSUME NEW i \in Id
               PROVE  /\ Len(rd[i].out) <= len[i] /\ rd[i].out = SubSeq(Bodies!Body(i), 1, Len(rd[i].out))
                      /\ rd[i].at = "no"
    BY DEF Bodies!ReadersAreInPlace
  <2>1. rd[i].out = <<>> /\ rd[i].at = "no"
    BY DEF Bodies!BlobInit, Bodies!NoReader
  <2>2. SubSeq(Bodies!Body(i), 1, 0) = <<>> /\ len[i] \in Nat
    BY <1>1, BodyIs
  <2> QED
    BY <1>2, <2>1, <2>2
<1> QED
  BY <1>4, <1>5, <1>6 DEF Bodies!BlobInv

\* The records of an id at rest
LEMMA RestingIs ==
  /\ Bodies!NoFile \in Bodies!Stored /\ Bodies!NoPut \in Bodies!Putting /\ Bodies!NoReader \in Bodies!Reader
  /\ Bodies!NoPut.at = "no" /\ Bodies!NoReader.at = "no" /\ Bodies!NoReader.out = <<>> /\ Bodies!NoFile.chunks = <<>>
<1>2. <<>> \in Seq(Bodies!Sealing) /\ <<>> \in Seq(Id \X Nat)
  OBVIOUS
<1> QED
  BY <1>2 DEF Bodies!NoFile, Bodies!NoPut, Bodies!NoReader, Bodies!Stored, Bodies!Putting, Bodies!Reader

\* Bodies do not change, so that what is sealed of them does not either.
LEMMA BodiesFixed ==
  ASSUME len' = len
  PROVE  /\ \A i : Bodies!Body(i)' = Bodies!Body(i)
         /\ \A k, i, s : Bodies!Part(k, i, s)' <=> Bodies!Part(k, i, s)
         /\ \A k, i, s : Bodies!Complete(k, i, s)' <=> Bodies!Complete(k, i, s)
         /\ Bodies!Sealing' = Bodies!Sealing /\ Bodies!Stored' = Bodies!Stored
         /\ Bodies!Putting' = Bodies!Putting /\ Bodies!Reader' = Bodies!Reader
<1>1. \A i : Bodies!Body(i)' = Bodies!Body(i)
  BY DEF Bodies!Body
<1>2. \A i, n : Bodies!Piece(i, n)' = Bodies!Piece(i, n)
  BY <1>1 DEF Bodies!Piece
<1>3. \A k, i, n : Bodies!SealedAs(k, i, n)' = Bodies!SealedAs(k, i, n)
  BY <1>2 DEF Bodies!SealedAs
<1>4. \A k, i, s : Bodies!Part(k, i, s)' <=> Bodies!Part(k, i, s)
  BY <1>3 DEF Bodies!Part
<1>5. \A k, i, s : Bodies!Complete(k, i, s)' <=> Bodies!Complete(k, i, s)
  BY <1>4 DEF Bodies!Complete
<1>6. Bodies!Sealing' = Bodies!Sealing
  BY <1>3 DEF Bodies!Sealing
<1>7. Bodies!Stored' = Bodies!Stored /\ Bodies!Putting' = Bodies!Putting /\ Bodies!Reader' = Bodies!Reader
  BY <1>6 DEF Bodies!Stored, Bodies!Putting, Bodies!Reader
<1> QED
  BY <1>1, <1>4, <1>5, <1>6, <1>7

\* The key file is generated by one process and never replaced.
LEMMA BodiesKeys ==
  ASSUME Bodies!BlobInv, Bodies!BlobBounds, NEW p \in Proc,
         Bodies!LoadKey(p) \/ Bodies!CreateKey(p) \/ \E k \in Key : Bodies!WriteKey(p, k)
  PROVE  Bodies!BlobInv'
<1>0. /\ keyFile \in Key \union {NoKey, ShortKey} /\ NoKey \notin Key /\ ShortKey \notin Key /\ NoKey # ShortKey
      /\ opened \in [Proc -> [at : {"down", "generated", "created", "open"}, key : Key \union {NoKey}]]
      /\ Bodies!KeysAgree
  BY DEF Bodies!BlobInv, Bodies!BlobTypeOK, Bodies!BlobBounds
<1>1. UNCHANGED <<len, put, file, rd, damaged>>
  BY DEF Bodies!LoadKey, Bodies!CreateKey, Bodies!WriteKey
<1>2. /\ keyFile' = keyFile \/ keyFile \notin Key
      /\ keyFile' \in Key \union {NoKey, ShortKey}
      /\ opened' \in [Proc -> [at : {"down", "generated", "created", "open"}, key : Key \union {NoKey}]]
      /\ Bodies!KeysAgree'
  <2>1. CASE Bodies!LoadKey(p)
    BY <1>0, <2>1 DEF Bodies!LoadKey, Bodies!Opening, Bodies!KeysAgree
  <2>2. CASE Bodies!CreateKey(p)
    BY <1>0, <2>2 DEF Bodies!CreateKey, Bodies!Opening, Bodies!KeysAgree
  <2>3. ASSUME NEW k \in Key, Bodies!WriteKey(p, k)
        PROVE  <1>2!1 /\ <1>2!2 /\ <1>2!3 /\ <1>2!4
    BY <1>0, <2>3 DEF Bodies!WriteKey, Bodies!Opening, Bodies!KeysAgree
  <2> QED
    BY <2>1, <2>2, <2>3
<1>3. Bodies!BlobTypeOK'
  BY <1>1, <1>2, BodiesFixed DEF Bodies!BlobInv, Bodies!BlobTypeOK
<1>4. Bodies!PutsInOrder'
  BY <1>1, <1>2, BodiesFixed DEF Bodies!BlobInv, Bodies!PutsInOrder
<1>5. Bodies!FilesAreWhole'
  BY <1>1, <1>2, BodiesFixed DEF Bodies!BlobInv, Bodies!FilesAreWhole, Bodies!NoFile
<1>6. Bodies!ReadersAreInPlace'
  BY <1>1, <1>2, BodiesFixed DEF Bodies!BlobInv, Bodies!ReadersAreInPlace
<1> QED
  BY <1>2, <1>3, <1>4, <1>5, <1>6 DEF Bodies!BlobInv

\* A step of one Put
LEMMA PutGoesOn ==
  ASSUME Bodies!BlobInv, NEW i \in Id, NEW w \in Bodies!Putting, put' = [put EXCEPT ![i] = w],
         UNCHANGED <<keyFile, opened, len, file, rd, damaged>>,
         w.at = "writing" => /\ keyFile \in Key /\ w.key = keyFile
                             /\ w.read = Len(w.chunks) * Chunk /\ w.read <= len[i]
                             /\ Bodies!Part(keyFile, i, w.chunks),
         w.at = "synced" => keyFile \in Key /\ Bodies!Complete(keyFile, i, w.chunks)
  PROVE  Bodies!BlobInv'
<1>1. put \in [Id -> Bodies!Putting]
  BY DEF Bodies!BlobInv, Bodies!BlobTypeOK
<1>2. /\ put' \in [Id -> Bodies!Putting] /\ put'[i] = w /\ \A j \in Id \ {i} : put'[j] = put[j]
  BY <1>1
<1>3. Bodies!BlobTypeOK'
  BY <1>2, BodiesFixed DEF Bodies!BlobInv, Bodies!BlobTypeOK
<1>4. Bodies!KeysAgree'
  BY DEF Bodies!BlobInv, Bodies!KeysAgree
<1>5. Bodies!PutsInOrder'
  <2> SUFFICES ASSUME NEW j \in Id
               PROVE  /\ put'[j].at = "writing" =>
                            /\ keyFile \in Key /\ put'[j].key = keyFile
                            /\ put'[j].read = Len(put'[j].chunks) * Chunk /\ put'[j].read <= len[j]
                            /\ Bodies!Part(keyFile, j, put'[j].chunks)
                      /\ put'[j].at = "synced" => keyFile \in Key /\ Bodies!Complete(keyFile, j, put'[j].chunks)
    BY BodiesFixed DEF Bodies!PutsInOrder
  <2>1. CASE j = i
    BY <1>2, <2>1
  <2>2. CASE j # i
    BY <1>2, <2>2 DEF Bodies!BlobInv, Bodies!PutsInOrder
  <2> QED
    BY <2>1, <2>2
<1>6. Bodies!FilesAreWhole'
  BY BodiesFixed DEF Bodies!BlobInv, Bodies!FilesAreWhole, Bodies!NoFile
<1>7. Bodies!ReadersAreInPlace'
  BY BodiesFixed DEF Bodies!BlobInv, Bodies!ReadersAreInPlace
<1> QED
  BY <1>3, <1>4, <1>5, <1>6, <1>7 DEF Bodies!BlobInv

\* A file is written, removed or damaged, perhaps at the end of a Put.
LEMMA FileChanges ==
  ASSUME Bodies!BlobInv, NEW i \in Id, NEW f \in Bodies!Stored, file' = [file EXCEPT ![i] = f],
         UNCHANGED <<keyFile, opened, len, rd>>, damaged \subseteq damaged',
         put' \in [Id -> Bodies!Putting],
         \A j \in Id : put'[j] = put[j] \/ put'[j].at \notin {"writing", "synced"},
         f # Bodies!NoFile => /\ keyFile \in Key /\ f.salt = i
                              /\ i \notin damaged' => Bodies!Complete(keyFile, i, f.chunks)
  PROVE  Bodies!BlobInv'
<1>1. file \in [Id -> Bodies!Stored]
  BY DEF Bodies!BlobInv, Bodies!BlobTypeOK
<1>2. /\ file' \in [Id -> Bodies!Stored] /\ file'[i] = f /\ \A j \in Id \ {i} : file'[j] = file[j]
  BY <1>1
<1>3. Bodies!BlobTypeOK'
  BY <1>2, BodiesFixed DEF Bodies!BlobInv, Bodies!BlobTypeOK
<1>4. Bodies!KeysAgree'
  BY DEF Bodies!BlobInv, Bodies!KeysAgree
<1>5. Bodies!PutsInOrder'
  BY BodiesFixed DEF Bodies!BlobInv, Bodies!PutsInOrder
<1>6. Bodies!FilesAreWhole'
  <2> SUFFICES ASSUME NEW j \in Id, file'[j] # Bodies!NoFile
               PROVE  /\ keyFile \in Key /\ file'[j].salt = j
                      /\ j \notin damaged' => Bodies!Complete(keyFile, j, file'[j].chunks)
    BY BodiesFixed DEF Bodies!FilesAreWhole, Bodies!NoFile
  <2>1. CASE j = i
    BY <1>2, <2>1
  <2>2. CASE j # i
    BY <1>2, <2>2 DEF Bodies!BlobInv, Bodies!FilesAreWhole
  <2> QED
    BY <2>1, <2>2
<1>7. Bodies!ReadersAreInPlace'
  BY BodiesFixed DEF Bodies!BlobInv, Bodies!ReadersAreInPlace
<1> QED
  BY <1>3, <1>4, <1>5, <1>6, <1>7 DEF Bodies!BlobInv

\* A step of one reader
LEMMA ReaderGoesOn ==
  ASSUME Bodies!BlobInv, NEW i \in Id, NEW r \in Bodies!Reader, rd' = [rd EXCEPT ![i] = r],
         UNCHANGED <<keyFile, opened, len, put, file, damaged>>,
         Len(r.out) <= len[i], r.out = SubSeq(Bodies!Body(i), 1, Len(r.out)),
         r.at = "eof" => Len(r.out) = len[i],
         r.at = "corrupt" => i \in damaged,
         r.at = "reading" => /\ keyFile \in Key /\ r.key = keyFile /\ r.file.salt = i
                             /\ Len(r.out) = r.ctr * Chunk
                             /\ i \notin damaged => Bodies!Complete(keyFile, i, r.file.chunks)
  PROVE  Bodies!BlobInv'
<1>1. rd \in [Id -> Bodies!Reader]
  BY DEF Bodies!BlobInv, Bodies!BlobTypeOK
<1>2. /\ rd' \in [Id -> Bodies!Reader] /\ rd'[i] = r /\ \A j \in Id \ {i} : rd'[j] = rd[j]
  BY <1>1
<1>3. Bodies!BlobTypeOK'
  BY <1>2, BodiesFixed DEF Bodies!BlobInv, Bodies!BlobTypeOK
<1>4. Bodies!KeysAgree'
  BY DEF Bodies!BlobInv, Bodies!KeysAgree
<1>5. Bodies!PutsInOrder' /\ Bodies!FilesAreWhole'
  BY BodiesFixed DEF Bodies!BlobInv, Bodies!PutsInOrder, Bodies!FilesAreWhole, Bodies!NoFile
<1>7. Bodies!ReadersAreInPlace'
  <2> SUFFICES ASSUME NEW j \in Id
               PROVE  /\ Len(rd'[j].out) <= len[j] /\ rd'[j].out = SubSeq(Bodies!Body(j), 1, Len(rd'[j].out))
                      /\ rd'[j].at = "eof" => Len(rd'[j].out) = len[j]
                      /\ rd'[j].at = "corrupt" => j \in damaged
                      /\ rd'[j].at = "reading" =>
                            /\ keyFile \in Key /\ rd'[j].key = keyFile /\ rd'[j].file.salt = j
                            /\ Len(rd'[j].out) = rd'[j].ctr * Chunk
                            /\ j \notin damaged => Bodies!Complete(keyFile, j, rd'[j].file.chunks)
    BY BodiesFixed DEF Bodies!ReadersAreInPlace
  <2>1. CASE j = i
    BY <1>2, <2>1
  <2>2. CASE j # i
    BY <1>2, <2>2 DEF Bodies!BlobInv, Bodies!ReadersAreInPlace
  <2> QED
    BY <2>1, <2>2
<1> QED
  BY <1>3, <1>4, <1>5, <1>7 DEF Bodies!BlobInv

\* A body is begun, or opened for reading.
LEMMA BodiesBegin ==
  ASSUME Bodies!BlobInv, Bodies!BlobBounds, NEW p \in Proc, NEW i \in Id,
         Bodies!PutStart(p, i) \/ Bodies!Get(p, i)
  PROVE  Bodies!BlobInv'
<1>0. /\ opened[p].at = "open" => keyFile \in Key /\ opened[p].key = keyFile
      /\ opened[p].key \in Key \union {NoKey} /\ len[i] \in Nat /\ file[i] \in Bodies!Stored
      /\ Chunk \in Nat
  BY DEF Bodies!BlobInv, Bodies!KeysAgree, Bodies!BlobTypeOK, Bodies!BlobBounds
<1>1. CASE Bodies!PutStart(p, i)
  <2> DEFINE w == [Bodies!NoPut EXCEPT !.at = "writing", !.by = p, !.key = opened[p].key]
  <2>1. /\ w \in Bodies!Putting /\ w.at = "writing" /\ w.key = opened[p].key /\ w.read = 0 /\ w.chunks = <<>>
    BY <1>0, RestingIs DEF Bodies!NoPut, Bodies!Putting
  <2>2. /\ put' = [put EXCEPT ![i] = w] /\ opened[p].at = "open"
        /\ UNCHANGED <<keyFile, opened, len, file, rd, damaged>>
    BY <1>1 DEF Bodies!PutStart, Bodies!keyVars
  <2> HIDE DEF w
  <2>3. Len(w.chunks) = 0 /\ w.read = Len(w.chunks) * Chunk
    BY <1>0, <2>1
  <2>4. Bodies!Part(keyFile, i, w.chunks)
    BY <2>3 DEF Bodies!Part
  <2>5. keyFile \in Key /\ w.key = keyFile /\ w.read <= len[i] /\ w.at # "synced"
    BY <1>0, <2>1, <2>2
  <2> QED
    BY <2>1, <2>2, <2>3, <2>4, <2>5, PutGoesOn
<1>2. CASE Bodies!Get(p, i)
  <2> DEFINE r == [Bodies!NoReader EXCEPT !.at = "reading", !.by = p, !.key = opened[p].key, !.file = file[i]]
  <2>1. /\ r \in Bodies!Reader /\ r.at = "reading" /\ r.key = opened[p].key /\ r.file = file[i]
        /\ r.ctr = 0 /\ r.out = <<>>
    BY <1>0, RestingIs DEF Bodies!NoReader, Bodies!Reader
  <2>2. /\ rd' = [rd EXCEPT ![i] = r] /\ opened[p].at = "open" /\ file[i] # Bodies!NoFile
        /\ UNCHANGED <<keyFile, opened, len, put, file, damaged>>
    BY <1>2 DEF Bodies!Get, Bodies!keyVars
  <2> HIDE DEF r
  <2>3. Len(r.out) = 0 /\ Len(r.out) = r.ctr * Chunk /\ r.out = SubSeq(Bodies!Body(i), 1, Len(r.out))
    <3>1. Len(r.out) = 0 /\ 0 * Chunk = 0
      BY <1>0, <2>1
    <3>2. SubSeq(Bodies!Body(i), 1, 0) = <<>>
      BY <1>0, BodyIs
    <3> QED
      BY <2>1, <3>1, <3>2
  <2>4. /\ keyFile \in Key /\ r.key = keyFile /\ r.file.salt = i
        /\ i \notin damaged => Bodies!Complete(keyFile, i, r.file.chunks)
    BY <1>0, <2>1, <2>2 DEF Bodies!BlobInv, Bodies!FilesAreWhole
  <2>5. Len(r.out) <= len[i] /\ r.at # "eof" /\ r.at # "corrupt"
    BY <1>0, <2>1, <2>3
  <2> QED
    BY <2>1, <2>2, <2>3, <2>4, <2>5, ReaderGoesOn
<1> QED
  BY <1>1, <1>2

\* A body is given up, put in place, or removed.
LEMMA BodiesEnd ==
  ASSUME Bodies!BlobInv, Bodies!BlobBounds, NEW i \in Id,
         Bodies!PutFails(i) \/ Bodies!PutRename(i) \/ Bodies!Delete(i)
  PROVE  Bodies!BlobInv'
<1>0. put[i] \in Bodies!Putting /\ put \in [Id -> Bodies!Putting]
  BY DEF Bodies!BlobInv, Bodies!BlobTypeOK
<1>1. CASE Bodies!PutFails(i)
  <2> DEFINE w == [Bodies!NoPut EXCEPT !.at = "failed"]
  <2>1. w \in Bodies!Putting /\ w.at = "failed"
    BY RestingIs DEF Bodies!NoPut, Bodies!Putting
  <2>2. put' = [put EXCEPT ![i] = w] /\ UNCHANGED <<keyFile, opened, len, file, rd, damaged>>
    BY <1>1 DEF Bodies!PutFails, Bodies!keyVars
  <2> HIDE DEF w
  <2> QED
    BY <2>1, <2>2, PutGoesOn
<1>2. CASE Bodies!PutRename(i)
  <2> DEFINE w == [Bodies!NoPut EXCEPT !.at = "done"]
             f == [salt |-> i, chunks |-> put[i].chunks]
  <2>1. w \in Bodies!Putting /\ w.at = "done"
    BY RestingIs DEF Bodies!NoPut, Bodies!Putting
  <2>2. f \in Bodies!Stored /\ f.salt = i /\ f.chunks = put[i].chunks
    BY <1>0 DEF Bodies!Stored, Bodies!Putting
  <2>3. /\ put' = [put EXCEPT ![i] = w] /\ file' = [file EXCEPT ![i] = f] /\ put[i].at = "synced"
        /\ UNCHANGED <<keyFile, opened, len, rd, damaged>>
    BY <1>2 DEF Bodies!PutRename, Bodies!keyVars
  <2> HIDE DEF w, f
  <2>4. put' \in [Id -> Bodies!Putting] /\ \A j \in Id : put'[j] = put[j] \/ put'[j].at \notin {"writing", "synced"}
    BY <1>0, <2>1, <2>3
  <2>5. keyFile \in Key /\ Bodies!Complete(keyFile, i, f.chunks)
    BY <2>2, <2>3 DEF Bodies!BlobInv, Bodies!PutsInOrder
  <2> QED
    BY <2>2, <2>3, <2>4, <2>5, FileChanges
<1>3. CASE Bodies!Delete(i)
  <2>1. file' = [file EXCEPT ![i] = Bodies!NoFile] /\ UNCHANGED <<keyFile, opened, len, put, rd, damaged>>
    BY <1>3 DEF Bodies!Delete, Bodies!keyVars
  <2> QED
    BY <1>0, <2>1, RestingIs, FileChanges
<1> QED
  BY <1>1, <1>2, <1>3

\* Put seals the next chunk: its data are the next piece of the body.
LEMMA BodiesSeal ==
  ASSUME Bodies!BlobInv, Bodies!BlobBounds, NEW i \in Id, Bodies!PutChunk(i)
  PROVE  Bodies!BlobInv'
<1> DEFINE s == put[i].chunks
           n == Len(s)
           a == n * Chunk
           piece == Bodies!Piece(i, n)
           c == Bodies!SealedAs(keyFile, i, n)
           b == IF a + Chunk <= len[i] THEN a + Chunk ELSE len[i]
           w == [put[i] EXCEPT !.read = @ + Len(piece), !.chunks = Append(@, c),
                               !.at = IF c.last THEN "synced" ELSE @]
<1>0. /\ put \in [Id -> Bodies!Putting] /\ put[i] \in Bodies!Putting /\ len[i] \in Nat
      /\ Chunk \in Nat \ {0} /\ put[i].at = "writing"
      /\ keyFile \in Key /\ put[i].key = keyFile /\ put[i].read = a /\ a <= len[i]
      /\ Bodies!Part(keyFile, i, s)
  BY DEF Bodies!BlobInv, Bodies!BlobTypeOK, Bodies!PutsInOrder, Bodies!BlobBounds, Bodies!PutChunk
<1>1. s \in Seq(Bodies!Sealing) /\ n \in Nat
  BY <1>0 DEF Bodies!Putting
<1>2. a \in Nat /\ (n + 1) * Chunk = a + Chunk
  BY <1>0, <1>1, MulNext
<1>3. /\ piece \in Seq(Id \X Nat) /\ Len(piece) = b - a
      /\ Len(piece) < Chunk <=> len[i] < a + Chunk
  <2> HIDE DEF s, n, a, piece
  <2>1. a = n * Chunk
    BY DEF a
  <2> QED
    BY <1>0, <1>1, <1>2, <2>1, PieceIs DEF piece
<1>4. Bodies!Read(i) = piece
  BY <1>0 DEF Bodies!Read, Bodies!Piece
<1>5. Bodies!Sealed(i) = c
  <2>1. Bodies!Sealed(i) = [key |-> keyFile, salt |-> i, ctr |-> n, last |-> Len(piece) < Chunk, data |-> piece]
    BY <1>0, <1>4 DEF Bodies!Sealed
  <2>2. c = [key |-> keyFile, salt |-> i, ctr |-> n, last |-> len[i] < a + Chunk, data |-> piece]
    BY DEF Bodies!SealedAs
  <2> HIDE DEF s, n, a, piece, c
  <2> QED
    BY <1>3, <2>1, <2>2
<1>6. /\ c \in Bodies!Sealing /\ c.last \in BOOLEAN /\ (c.last <=> len[i] < a + Chunk)
  <2>1. c = [key |-> keyFile, salt |-> i, ctr |-> n, last |-> len[i] < a + Chunk, data |-> piece]
    BY DEF Bodies!SealedAs
  <2>2. c.key = keyFile /\ c.salt = i /\ c.ctr = n /\ c.last = (len[i] < a + Chunk)
    BY <2>1
  <2>3. c \in [key : Key \union {NoKey}, salt : Id, ctr : Nat, last : BOOLEAN, data : Seq(Id \X Nat)]
    <3> HIDE DEF s, n, a, piece, c
    <3> QED
      BY <1>0, <1>1, <1>3, <2>1
  <2>4. c = Bodies!SealedAs(c.key, c.salt, c.ctr)
    <3>1. c = Bodies!SealedAs(keyFile, i, n)
      OBVIOUS
    <3> HIDE DEF c, n
    <3> QED
      BY <2>2, <3>1
  <2> HIDE DEF s, n, a, piece, c
  <2> QED
    BY <2>2, <2>3, <2>4 DEF Bodies!Sealing
<1>7. /\ put' = [put EXCEPT ![i] = w] /\ UNCHANGED <<keyFile, opened, len, file, rd, damaged>>
  <2>1. /\ put' = [put EXCEPT ![i].read = @ + Len(Bodies!Read(i)), ![i].chunks = Append(@, Bodies!Sealed(i)),
                              ![i].at = IF Bodies!Sealed(i).last THEN "synced" ELSE @]
        /\ UNCHANGED <<keyFile, opened, len, file, rd, damaged>>
    BY DEF Bodies!PutChunk, Bodies!keyVars
  <2>2. put' = [put EXCEPT ![i].read = @ + Len(piece), ![i].chunks = Append(@, c),
                           ![i].at = IF c.last THEN "synced" ELSE @]
    BY <1>4, <1>5, <2>1
  <2> HIDE DEF piece, c
  <2> QED
    BY <1>0, <2>1, <2>2
<1> HIDE DEF a, n, piece, c
<1>8. /\ w.at = (IF c.last THEN "synced" ELSE "writing") /\ w.key = keyFile /\ w.read = b
      /\ w.chunks = Append(s, c) /\ w.chunks \in Seq(Bodies!Sealing) /\ Len(w.chunks) = n + 1
      /\ w.chunks[n + 1] = c /\ \A m \in 1..n : w.chunks[m] = s[m]
  <2>1. w.at = (IF c.last THEN "synced" ELSE "writing") /\ w.key = keyFile /\ w.chunks = Append(s, c)
    BY <1>0 DEF Bodies!Putting
  <2>2. w.read = a + (b - a)
    BY <1>0, <1>3 DEF Bodies!Putting
  <2>3. b \in Nat
    BY <1>0, <1>2
  <2>4. /\ Append(s, c) \in Seq(Bodies!Sealing) /\ Len(Append(s, c)) = n + 1
        /\ Append(s, c)[n + 1] = c /\ \A m \in 1..n : Append(s, c)[m] = s[m]
    <3> HIDE DEF s
    <3> QED
      BY <1>1, <1>6, AppendProperties DEF n
  <2>5. w.read = b
    <3> HIDE DEF b, w
    <3> QED
      BY <1>2, <2>2, <2>3
  <2> HIDE DEF s, b, w
  <2> QED
    BY <2>1, <2>4, <2>5
<1>9. Bodies!Part(keyFile, i, w.chunks)
  <2> SUFFICES ASSUME NEW m \in 1..n + 1 PROVE w.chunks[m] = Bodies!SealedAs(keyFile, i, m - 1)
    BY <1>8 DEF Bodies!Part
  <2> HIDE DEF w
  <2>1. CASE m \in 1..n
    BY <1>0, <1>8, <2>1 DEF Bodies!Part, n
  <2>2. CASE m = n + 1
    <3>1. m - 1 = n /\ m - 1 \in Nat
      BY <1>1, <2>2
    <3> QED
      BY <1>8, <2>2, <3>1 DEF c
  <2> QED
    BY <1>1, <2>1, <2>2
<1>10. w \in Bodies!Putting
  <2>1. b \in Nat
    BY <1>0, <1>2
  <2> HIDE DEF b, s
  <2> QED
    BY <1>0, <1>8, <2>1 DEF Bodies!Putting
<1>11. c.last => Bodies!Complete(keyFile, i, w.chunks)
  <2> HIDE DEF w
  <2>1. Len(w.chunks) - 1 = n
    BY <1>1, <1>8
  <2>2. (Len(w.chunks) - 1) * Chunk = a /\ Len(w.chunks) * Chunk = a + Chunk
    BY <1>2, <1>8, <2>1 DEF a
  <2>3. Len(w.chunks) > 0 /\ a <= len[i] /\ (c.last => len[i] < a + Chunk)
    BY <1>0, <1>1, <1>6, <1>8
  <2> QED
    BY <1>9, <2>2, <2>3 DEF Bodies!Complete
<1>12. ~c.last => w.read = Len(w.chunks) * Chunk /\ w.read <= len[i]
  BY <1>0, <1>2, <1>6, <1>8
<1> HIDE DEF w
<1> QED
  BY <1>0, <1>7, <1>8, <1>9, <1>10, <1>11, <1>12, PutGoesOn

\* A chunk that opens where the reader stands is the piece of the body that
\* comes next.
LEMMA OpenedIsNext ==
  ASSUME Bodies!BlobInv, Bodies!BlobBounds, NEW i \in Id, rd[i].at = "reading",
         NEW c \in Bodies!Sealing, NEW last \in BOOLEAN, Bodies!Opens(rd[i], c, last)
  PROVE  LET out == rd[i].out \o c.data IN
         /\ out \in Seq(Id \X Nat) /\ Len(out) <= len[i]
         /\ out = SubSeq(Bodies!Body(i), 1, Len(out))
         /\ last => Len(out) = len[i]
         /\ ~last => Len(out) = (rd[i].ctr + 1) * Chunk
<1> DEFINE r == rd[i]
           n == r.ctr
           a == n * Chunk
           f == Bodies!Body(i)
           piece == Bodies!Piece(i, n)
           b == IF a + Chunk <= len[i] THEN a + Chunk ELSE len[i]
<1>0. /\ r \in Bodies!Reader /\ len[i] \in Nat /\ Chunk \in Nat \ {0} /\ keyFile \in Key
      /\ r.key = keyFile /\ r.file.salt = i /\ Len(r.out) = a
      /\ Len(r.out) <= len[i] /\ r.out = SubSeq(f, 1, Len(r.out))
  BY DEF Bodies!BlobInv, Bodies!BlobTypeOK, Bodies!ReadersAreInPlace, Bodies!BlobBounds
<1>1. n \in Nat /\ r.out \in Seq(Id \X Nat)
  BY <1>0 DEF Bodies!Reader
<1>2. a \in Nat /\ (n + 1) * Chunk = a + Chunk /\ a <= len[i]
  BY <1>0, <1>1, MulNext
<1>3. c.key = keyFile /\ c.salt = i /\ c.last = last /\ c.ctr = n
  BY <1>0 DEF Bodies!Opens
<1>4. c = Bodies!SealedAs(keyFile, i, n)
  BY <1>0, <1>3 DEF Bodies!Sealing
<1>5. c.data = piece /\ c.last = (len[i] < a + Chunk)
  BY <1>4 DEF Bodies!SealedAs
<1>6. piece = SubSeq(f, a + 1, b) /\ b \in Nat /\ b <= len[i] /\ a <= b
  <2>1. piece = SubSeq(f, a + 1, b)
    <3> HIDE DEF n, piece, f
    <3>1. a = n * Chunk
      OBVIOUS
    <3> HIDE DEF a
    <3> QED
      BY <1>0, <1>1, <1>2, <3>1, PieceIs DEF piece, f
  <2>2. b \in Nat /\ b <= len[i] /\ a <= b
    <3> HIDE DEF a
    <3> QED
      BY <1>0, <1>2
  <2> QED
    BY <2>1, <2>2
<1>7. r.out \o c.data = SubSeq(f, 1, b)
  <2>1. f \in Seq(Id \X Nat) /\ Len(f) = len[i]
    BY <1>0, BodyIs
  <2>2. SubSeq(f, 1, a) \o SubSeq(f, a + 1, b) = SubSeq(f, 1, b)
    <3> HIDE DEF a, b, f
    <3> QED
      BY <1>2, <1>6, <2>1, Beginnings
  <2> QED
    BY <1>0, <1>5, <1>6, <2>2
<1>8. SubSeq(f, 1, b) \in Seq(Id \X Nat) /\ Len(SubSeq(f, 1, b)) = b
  <2>1. f \in Seq(Id \X Nat) /\ Len(f) = len[i]
    BY <1>0, BodyIs
  <2> HIDE DEF f, b
  <2> QED
    BY <1>6, <2>1
<1>9. /\ last => b = len[i]
      /\ ~last => b = a + Chunk
  <2>1. last <=> len[i] < a + Chunk
    BY <1>3, <1>5
  <2> HIDE DEF a
  <2> QED
    BY <1>0, <1>2, <2>1
<1> DEFINE out == r.out \o c.data
<1>10. out = SubSeq(f, 1, b) /\ out \in Seq(Id \X Nat) /\ Len(out) = b
  BY <1>7, <1>8
<1> HIDE DEF out, b, f, a
<1>11. out = SubSeq(f, 1, Len(out)) /\ Len(out) <= len[i]
  BY <1>6, <1>10
<1>12. /\ last => Len(out) = len[i]
       /\ ~last => Len(out) = (n + 1) * Chunk
  BY <1>2, <1>9, <1>10
<1> QED
  BY <1>10, <1>11, <1>12 DEF out, f

\* In a file that was left alone the chunk where the reader stands opens, as the
\* last one if nothing follows and as another if something does.
LEMMA UndamagedOpens ==
  ASSUME Bodies!BlobInv, Bodies!BlobBounds, NEW i \in Id, rd[i].at = "reading", i \notin damaged
  PROVE  LET s == rd[i].file.chunks
             c == s[rd[i].ctr + 1]
         IN  /\ rd[i].ctr < Len(s)
             /\ Bodies!Opens(rd[i], c, rd[i].ctr + 1 = Len(s))
             /\ rd[i].ctr + 1 < Len(s) => Len(c.data) = Chunk
<1> DEFINE r == rd[i]
           n == r.ctr
           a == n * Chunk
           s == r.file.chunks
           N == Len(s)
           c == s[n + 1]
<1>0. /\ r \in Bodies!Reader /\ len[i] \in Nat /\ Chunk \in Nat \ {0}
      /\ r.key = keyFile /\ r.file.salt = i /\ Len(r.out) = a /\ Len(r.out) <= len[i]
      /\ Bodies!Complete(keyFile, i, s)
  BY DEF Bodies!BlobInv, Bodies!BlobTypeOK, Bodies!ReadersAreInPlace, Bodies!BlobBounds
<1>1. n \in Nat /\ s \in Seq(Bodies!Sealing) /\ N \in Nat
  BY <1>0 DEF Bodies!Reader, Bodies!Stored
<1>2. a \in Nat /\ (n + 1) * Chunk = a + Chunk /\ a <= len[i]
  <2>1. a = n * Chunk /\ a <= len[i]
    BY <1>0
  <2> HIDE DEF n, a
  <2> QED
    BY <1>0, <1>1, <2>1, MulNext
<1>3. Bodies!Part(keyFile, i, s) /\ N > 0 /\ (N - 1) * Chunk <= len[i] /\ len[i] < N * Chunk
  BY <1>0 DEF Bodies!Complete
<1>4. \A x, y \in Int : x <= y => x * Chunk <= y * Chunk
  BY <1>0
<1> HIDE DEF a, n, s, N, c
<1>5. n < N
  <2>1. SUFFICES ASSUME N <= n PROVE FALSE
    BY <1>1
  <2>2. N * Chunk <= n * Chunk
    BY <1>1, <1>4, <2>1
  <2>3. N * Chunk \in Int
    BY <1>0, <1>1
  <2> QED
    BY <1>0, <1>2, <1>3, <2>2, <2>3 DEF a
<1>6. c = Bodies!SealedAs(keyFile, i, n)
  <2>1. n + 1 \in 1..N /\ (n + 1) - 1 = n
    BY <1>1, <1>5
  <2>2. \A m \in 1..N : s[m] = Bodies!SealedAs(keyFile, i, m - 1)
    BY <1>3 DEF Bodies!Part, N
  <2>3. s[n + 1] = Bodies!SealedAs(keyFile, i, (n + 1) - 1)
    BY <2>1, <2>2
  <2> QED
    BY <2>1, <2>3 DEF c
<1>7. /\ c.key = keyFile /\ c.salt = i /\ c.ctr = n /\ c.last = (len[i] < a + Chunk)
      /\ c.data = Bodies!Piece(i, n)
  BY <1>6 DEF Bodies!SealedAs, a
<1>8. n + 1 < N => a + Chunk <= len[i]
  <2>1. SUFFICES ASSUME n + 1 <= N - 1 PROVE a + Chunk <= len[i]
    BY <1>1
  <2>2. (n + 1) * Chunk <= (N - 1) * Chunk
    BY <1>1, <1>4, <2>1
  <2>3. (N - 1) * Chunk \in Int
    BY <1>0, <1>1
  <2> QED
    BY <1>0, <1>2, <1>3, <2>2, <2>3
<1>9. n + 1 = N => len[i] < a + Chunk
  BY <1>2, <1>3
<1>10. (n + 1 = N) = (len[i] < a + Chunk)
  BY <1>0, <1>1, <1>2, <1>5, <1>8, <1>9
<1>11. n + 1 < N => Len(c.data) = Chunk
  <2>1. ASSUME n + 1 < N PROVE Len(Bodies!Piece(i, n)) = Chunk
    <3>1. a + Chunk <= len[i]
      BY <1>8, <2>1
    <3>2. Len(Bodies!Piece(i, n)) = (IF a + Chunk <= len[i] THEN a + Chunk ELSE len[i]) - a
      BY <1>0, <1>1, <1>2, PieceIs DEF a
    <3> QED
      BY <1>0, <1>2, <3>1, <3>2
  <2> QED
    BY <1>7, <2>1
<1>12. Bodies!Opens(r, c, n + 1 = N)
  BY <1>0, <1>7, <1>10 DEF Bodies!Opens, n
<1> QED
  BY <1>5, <1>11, <1>12 DEF r, n, s, N, c

\* The reader goes on by one chunk, comes to the end, or finds the file damaged.
LEMMA BodiesRead ==
  ASSUME Bodies!BlobInv, Bodies!BlobBounds, NEW i \in Id, Bodies!ReadNext(i)
  PROVE  Bodies!BlobInv'
<1> DEFINE r == rd[i]
           n == r.ctr
           s == r.file.chunks
           rest == Bodies!Rest(r)
           c == Head(rest)
           q == Bodies!NextChunk(r)
           stop == [r EXCEPT !.at = "corrupt"]
           on == [r EXCEPT !.out = @ \o c.data, !.ctr = @ + 1]
           over == [r EXCEPT !.out = @ \o c.data, !.ctr = @ + 1,
                             !.at = IF Len(rest) > 1 THEN "corrupt" ELSE "eof"]
<1>0. /\ rd \in [Id -> Bodies!Reader] /\ r \in Bodies!Reader /\ len[i] \in Nat /\ Chunk \in Nat \ {0} /\ keyFile \in Key
      /\ r.at = "reading" /\ r.key = keyFile /\ r.file.salt = i /\ Len(r.out) = n * Chunk
      /\ Len(r.out) <= len[i] /\ r.out = SubSeq(Bodies!Body(i), 1, Len(r.out))
      /\ i \notin damaged => Bodies!Complete(keyFile, i, s)
  BY DEF Bodies!BlobInv, Bodies!BlobTypeOK, Bodies!ReadersAreInPlace, Bodies!BlobBounds, Bodies!ReadNext
<1>1. n \in Nat /\ s \in Seq(Bodies!Sealing) /\ Len(s) \in Nat /\ r.out \in Seq(Id \X Nat)
  BY <1>0 DEF Bodies!Reader, Bodies!Stored
<1>2. rd' = [rd EXCEPT ![i] = q] /\ UNCHANGED <<keyFile, opened, len, put, file, damaged>>
  BY <1>0 DEF Bodies!ReadNext, Bodies!keyVars
<1>3. rest = SubSeq(s, n + 1, Len(s))
  BY DEF Bodies!Rest
<1>4. /\ rest \in Seq(Bodies!Sealing) /\ Len(rest) = (IF n + 1 <= Len(s) THEN Len(s) - n ELSE 0)
      /\ n < Len(s) => c = s[n + 1] /\ c \in Bodies!Sealing /\ rest # <<>>
  <2> HIDE DEF n, s, rest
  <2>1. rest \in Seq(Bodies!Sealing) /\ Len(rest) = (IF n + 1 <= Len(s) THEN Len(s) - n ELSE 0)
    BY <1>1, <1>3
  <2>2. ASSUME n < Len(s)
        PROVE  rest # <<>> /\ rest[1] = s[n + 1] /\ s[n + 1] \in Bodies!Sealing
    <3>1. n + 1 \in 1..Len(s)
      BY <1>1, <2>2
    <3>2. s[n + 1] \in Bodies!Sealing
      BY <1>1, <3>1, ElementOfSeq
    <3>3. /\ \A k \in n + 1..Len(s) : s[k] \in Bodies!Sealing
          /\ n + 1 \in Int
      BY <1>1, ElementOfSeq
    <3>4. \A k \in 1..Len(s) - (n + 1) + 1 : rest[k] = s[n + 1 + k - 1]
      BY <1>1, <1>3, <3>3, SubSeqProperties
    <3>5. 1 \in 1..Len(s) - (n + 1) + 1 /\ n + 1 + 1 - 1 = n + 1
      BY <1>1, <2>2
    <3>6. rest[1] = s[n + 1]
      BY <3>4, <3>5
    <3>7. rest # <<>>
      BY <1>1, <2>1, <2>2
    <3> QED
      BY <3>2, <3>6, <3>7
  <2> QED
    BY <2>1, <2>2
<1>5. rest # <<>> => c \in Bodies!Sealing
  BY <1>4
<1>6. q = IF rest = <<>> \/ ~Bodies!Aligned(r) THEN stop
          ELSE IF Bodies!Opens(r, c, FALSE) THEN on
          ELSE IF Bodies!Opens(r, c, TRUE) THEN over ELSE stop
  BY DEF Bodies!NextChunk
<1>7. i \notin damaged => /\ rest # <<>> /\ Bodies!Aligned(r)
                          /\ Bodies!Opens(r, c, n + 1 = Len(s))
                          /\ (n + 1 = Len(s) <=> ~(Len(rest) > 1))
  <2> SUFFICES ASSUME i \notin damaged
               PROVE  /\ rest # <<>> /\ Bodies!Aligned(r)
                      /\ Bodies!Opens(r, c, n + 1 = Len(s))
                      /\ (n + 1 = Len(s) <=> ~(Len(rest) > 1))
    OBVIOUS
  <2>1. /\ n < Len(s) /\ Bodies!Opens(r, s[n + 1], n + 1 = Len(s))
        /\ n + 1 < Len(s) => Len(s[n + 1].data) = Chunk
    BY <1>0, UndamagedOpens
  <2>2. c = s[n + 1] /\ rest # <<>> /\ Len(rest) = Len(s) - n
    <3> HIDE DEF n, s, rest, c
    <3> QED
      BY <1>1, <1>4, <2>1
  <2>3. Len(c.data) = Chunk \/ Len(rest) = 1
    <3> HIDE DEF n, s, rest, c
    <3> QED
      BY <1>1, <2>1, <2>2
  <2>4. n + 1 = Len(s) <=> ~(Len(rest) > 1)
    <3> HIDE DEF n, s, rest, c
    <3> QED
      BY <1>1, <2>1, <2>2
  <2> QED
    BY <2>1, <2>2, <2>3, <2>4 DEF Bodies!Aligned
<1>8. ASSUME q = stop, i \in damaged PROVE Bodies!BlobInv'
  <2>1. q \in Bodies!Reader /\ q.at = "corrupt" /\ q.out = r.out
    BY <1>0, <1>8 DEF Bodies!Reader
  <2> HIDE DEF q, r
  <2>2. q.at # "eof" /\ q.at # "reading" /\ Len(q.out) <= len[i] /\ q.out = SubSeq(Bodies!Body(i), 1, Len(q.out))
    BY <1>0, <2>1
  <2> QED
    BY <1>2, <1>8, <2>1, <2>2, ReaderGoesOn
<1>9. ASSUME rest # <<>>, Bodies!Opens(r, c, FALSE), q = on PROVE Bodies!BlobInv'
  <2> DEFINE out == r.out \o c.data
  <2>1. /\ out \in Seq(Id \X Nat) /\ Len(out) <= len[i]
        /\ out = SubSeq(Bodies!Body(i), 1, Len(out)) /\ Len(out) = (n + 1) * Chunk
    BY <1>0, <1>5, <1>9, OpenedIsNext
  <2>5. n + 1 \in Nat
    BY <1>1
  <2> HIDE DEF out, q, r, n, c, rest
  <2>2. q \in Bodies!Reader /\ q.at = "reading" /\ q.out = out /\ q.ctr = n + 1 /\ q.key = keyFile /\ q.file = r.file
    BY <1>0, <1>9, <2>1, <2>5 DEF Bodies!Reader, out, n
  <2>3. /\ keyFile \in Key /\ q.key = keyFile /\ q.file.salt = i /\ Len(q.out) = q.ctr * Chunk
        /\ i \notin damaged => Bodies!Complete(keyFile, i, q.file.chunks)
    BY <1>0, <2>1, <2>2
  <2>4. q.at # "eof" /\ q.at # "corrupt"
    BY <2>2
  <2> QED
    BY <1>2, <2>1, <2>2, <2>3, <2>4, ReaderGoesOn
<1>10. ASSUME rest # <<>>, Bodies!Opens(r, c, TRUE), q = over, Len(rest) > 1 => i \in damaged
       PROVE  Bodies!BlobInv'
  <2> DEFINE out == r.out \o c.data
  <2>1. /\ out \in Seq(Id \X Nat) /\ Len(out) <= len[i]
        /\ out = SubSeq(Bodies!Body(i), 1, Len(out)) /\ Len(out) = len[i]
    BY <1>0, <1>5, <1>10, OpenedIsNext
  <2>5. n + 1 \in Nat
    BY <1>1
  <2> HIDE DEF out, q, r, n, c, rest
  <2>2. q \in Bodies!Reader /\ q.at = (IF Len(rest) > 1 THEN "corrupt" ELSE "eof") /\ q.out = out
    BY <1>0, <1>10, <2>1, <2>5 DEF Bodies!Reader, out, n
  <2>3. q.at # "reading" /\ (q.at = "corrupt" => i \in damaged)
    BY <1>10, <2>2
  <2> QED
    BY <1>2, <2>1, <2>2, <2>3, ReaderGoesOn
<1>11. rest # <<>> => (Bodies!Opens(r, c, FALSE) => ~Bodies!Opens(r, c, TRUE))
  BY DEF Bodies!Opens
<1> HIDE DEF q, on, over, stop, c, rest, r, s, n
<1>12. CASE i \in damaged
  BY <1>6, <1>8, <1>9, <1>10, <1>12
<1>13. CASE i \notin damaged
  <2>1. CASE n + 1 = Len(s)
    <3>1. Bodies!Opens(r, c, TRUE) /\ ~Bodies!Opens(r, c, FALSE)
      BY <1>7, <1>11, <1>13, <2>1
    <3> QED
      BY <1>6, <1>7, <1>10, <1>13, <2>1, <3>1
  <2>2. CASE n + 1 # Len(s)
    <3>1. (n + 1 = Len(s)) = FALSE
      BY <2>2
    <3>2. Bodies!Opens(r, c, FALSE)
      BY <1>7, <1>13, <3>1
    <3> QED
      BY <1>6, <1>7, <1>9, <1>13, <3>2
  <2> QED
    BY <2>1, <2>2
<1> QED
  BY <1>12, <1>13

\* What happens to a file leaves in it chunks that were sealed, or do not open.
LEMMA DamagesAreSealings ==
  ASSUME Bodies!BlobInv, Bodies!BlobBounds, NEW i \in Id, NEW t \in Bodies!Damages(i)
  PROVE  t \in Seq(Bodies!Sealing) /\ file[i] # Bodies!NoFile
<1> DEFINE s == file[i].chunks
           n == Len(s)
<1>0. file \in [Id -> Bodies!Stored] /\ NoKey \notin Key
  BY DEF Bodies!BlobInv, Bodies!BlobTypeOK, Bodies!BlobBounds
<1>1. \A j \in Id : file[j].chunks \in Seq(Bodies!Sealing)
  BY <1>0 DEF Bodies!Stored
<1>2. PICK k \in 1..n :
        \/ t = SubSeq(s, 1, k - 1)
        \/ t = SubSeq(s, 1, k - 1) \o <<Bodies!Short(s[k])>>
        \/ t = [s EXCEPT ![k] = Bodies!Garbled(@)]
        \/ t = Bodies!RemoveAt(s, k)
        \/ t = Bodies!InsertAt(s, k, s[k])
        \/ t = Append(s, s[k])
        \/ \E j \in 1..n : t = [s EXCEPT ![k] = s[j], ![j] = s[k]]
        \/ \E j \in Id : \E l \in 1..Len(file[j].chunks) : t = [s EXCEPT ![k] = file[j].chunks[l]]
  <2> DEFINE From(k) == UNION {{[s EXCEPT ![k] = file[j].chunks[l]] : l \in 1..Len(file[j].chunks)} : j \in Id}
             Changed(k) ==
               {SubSeq(s, 1, k - 1), SubSeq(s, 1, k - 1) \o <<Bodies!Short(s[k])>>,
                [s EXCEPT ![k] = Bodies!Garbled(@)], Bodies!RemoveAt(s, k), Bodies!InsertAt(s, k, s[k]), Append(s, s[k])}
               \union {[s EXCEPT ![k] = s[j], ![j] = s[k]] : j \in 1..n} \union From(k)
  <2>1. Bodies!Damages(i) = UNION {Changed(k) : k \in 1..n} \ {s}
    BY DEF Bodies!Damages
  <2>2. PICK k \in 1..n : t \in Changed(k)
    <3> HIDE DEF Changed, s, n
    <3> QED
      BY <2>1
  <2>3. t \in From(k) => \E j \in Id : \E l \in 1..Len(file[j].chunks) : t = [s EXCEPT ![k] = file[j].chunks[l]]
    OBVIOUS
  <2> HIDE DEF From
  <2> QED
    BY <2>2, <2>3
<1>3. s \in Seq(Bodies!Sealing) /\ n \in Nat /\ s[k] \in Bodies!Sealing
  BY <1>1
<1>4. file[i] # Bodies!NoFile
  BY <1>3, RestingIs
<1>5. ASSUME NEW c \in Bodies!Sealing PROVE Bodies!Garbled(c) \in Bodies!Sealing /\ Bodies!Short(c) \in Bodies!Sealing
  <2>1. c \in [key : Key \union {NoKey}, salt : Id, ctr : Nat, last : BOOLEAN, data : Seq(Id \X Nat)]
    BY DEF Bodies!Sealing
  <2>2. <<>> \in Seq(Id \X Nat)
    OBVIOUS
  <2>3. /\ Bodies!Garbled(c) \in [key : Key \union {NoKey}, salt : Id, ctr : Nat, last : BOOLEAN, data : Seq(Id \X Nat)]
        /\ Bodies!Garbled(c).key = NoKey
    BY <2>1 DEF Bodies!Garbled
  <2>4. /\ Bodies!Short(c) \in [key : Key \union {NoKey}, salt : Id, ctr : Nat, last : BOOLEAN, data : Seq(Id \X Nat)]
        /\ Bodies!Short(c).key = NoKey
    BY <2>1, <2>2 DEF Bodies!Short
  <2> QED
    BY <1>0, <2>3, <2>4 DEF Bodies!Sealing
<1> HIDE DEF s, n
<1>6. /\ SubSeq(s, 1, k - 1) \in Seq(Bodies!Sealing) /\ SubSeq(s, k, n) \in Seq(Bodies!Sealing)
      /\ SubSeq(s, k + 1, n) \in Seq(Bodies!Sealing)
  <2>1. \A m \in 1..n : s[m] \in Bodies!Sealing
    BY <1>3 DEF n
  <2>2. k \in Int /\ n \in Int /\ 1 <= k /\ k <= n
    BY <1>3
  <2>3. /\ \A m \in 1..k - 1 : s[m] \in Bodies!Sealing
        /\ \A m \in k..n : s[m] \in Bodies!Sealing
        /\ \A m \in k + 1..n : s[m] \in Bodies!Sealing
    BY <2>1, <2>2
  <2> QED
    BY <2>2, <2>3, SubSeqProperties
<1>7. \A e \in Bodies!Sealing : <<e>> \in Seq(Bodies!Sealing)
  OBVIOUS
<1>8. \A x, y \in Seq(Bodies!Sealing) : x \o y \in Seq(Bodies!Sealing)
  BY ConcatProperties
<1>9. \A e \in Bodies!Sealing, m \in 1..n : [s EXCEPT ![m] = e] \in Seq(Bodies!Sealing) /\ Len([s EXCEPT ![m] = e]) = n
  BY <1>3, ExceptSeq DEF n
<1> DEFINE before == SubSeq(s, 1, k - 1)
           from == SubSeq(s, k, n)
           after == SubSeq(s, k + 1, n)
           sh == <<Bodies!Short(s[k])>>
           one == <<s[k]>>
           rem == Bodies!RemoveAt(s, k)
           ins == Bodies!InsertAt(s, k, s[k])
<1>10. rem = before \o after /\ ins = (before \o one) \o from
  BY DEF Bodies!RemoveAt, Bodies!InsertAt, n
<1>11. /\ before \in Seq(Bodies!Sealing) /\ from \in Seq(Bodies!Sealing) /\ after \in Seq(Bodies!Sealing)
       /\ sh \in Seq(Bodies!Sealing) /\ one \in Seq(Bodies!Sealing)
  <2>1. before \in Seq(Bodies!Sealing) /\ from \in Seq(Bodies!Sealing) /\ after \in Seq(Bodies!Sealing)
    BY <1>6
  <2> HIDE DEF before, from, after
  <2> QED
    BY <1>3, <1>5, <1>7, <2>1
<1>12. t = before \/ t = before \o sh \/ t = rem \/ t = ins => t \in Seq(Bodies!Sealing)
  <2> HIDE DEF before, from, after, sh, one, rem, ins
  <2>1. before \o one \in Seq(Bodies!Sealing)
    BY <1>8, <1>11
  <2>2. before \o sh \in Seq(Bodies!Sealing) /\ rem \in Seq(Bodies!Sealing) /\ ins \in Seq(Bodies!Sealing)
    BY <1>8, <1>10, <1>11, <2>1
  <2> QED
    BY <1>11, <2>2
<1>13. CASE t = before \/ t = before \o sh \/ t = rem \/ t = ins
  <2> HIDE DEF before, sh, rem, ins
  <2> QED
    BY <1>4, <1>12, <1>13
<1>14. CASE t = [s EXCEPT ![k] = Bodies!Garbled(@)]
  <2>1. t = [s EXCEPT ![k] = Bodies!Garbled(s[k])]
    BY <1>3, <1>14
  <2>2. Bodies!Garbled(s[k]) \in Bodies!Sealing
    BY <1>3, <1>5
  <2> QED
    BY <1>4, <1>9, <2>1, <2>2
<1>15. CASE t = Append(s, s[k])
  <2>1. Append(s, s[k]) \in Seq(Bodies!Sealing)
    BY <1>3, AppendProperties
  <2> QED
    BY <1>4, <1>15, <2>1
<1>16. ASSUME NEW j \in 1..n, t = [s EXCEPT ![k] = s[j], ![j] = s[k]]
       PROVE  t \in Seq(Bodies!Sealing)
  <2>1. s[j] \in Bodies!Sealing
    BY <1>3 DEF n
  <2> DEFINE u == [s EXCEPT ![k] = s[j]]
  <2>2. u \in Seq(Bodies!Sealing) /\ Len(u) = n
    BY <1>9, <2>1
  <2>3. t = [u EXCEPT ![j] = s[k]]
    BY <1>16
  <2> HIDE DEF u
  <2> QED
    BY <1>3, <2>2, <2>3, ExceptSeq
<1>17. ASSUME NEW j \in Id, NEW l \in 1..Len(file[j].chunks), t = [s EXCEPT ![k] = file[j].chunks[l]]
       PROVE  t \in Seq(Bodies!Sealing)
  <2>1. file[j].chunks[l] \in Bodies!Sealing
    BY <1>1, ElementOfSeq
  <2> QED
    BY <1>9, <1>17, <2>1
<1> QED
  BY <1>2, <1>4, <1>13, <1>14, <1>15, <1>16, <1>17, Zenon DEF s, n

\* A file is damaged, and a process ends.
LEMMA BodiesSuffer ==
  ASSUME Bodies!BlobInv, Bodies!BlobBounds,
         \/ \E i \in Id : Bodies!DamageFile(i)
         \/ \E p \in Proc : Bodies!Crash(p)
  PROVE  Bodies!BlobInv'
<1>0. /\ file \in [Id -> Bodies!Stored] /\ put \in [Id -> Bodies!Putting] /\ rd \in [Id -> Bodies!Reader]
      /\ len \in [Id -> Nat]
  BY DEF Bodies!BlobInv, Bodies!BlobTypeOK
<1>1. ASSUME NEW i \in Id, Bodies!DamageFile(i) PROVE Bodies!BlobInv'
  <2>1. PICK t \in Bodies!Damages(i) : file' = [file EXCEPT ![i].chunks = t]
    BY <1>1 DEF Bodies!DamageFile
  <2> DEFINE f == [file[i] EXCEPT !.chunks = t]
  <2>2. t \in Seq(Bodies!Sealing) /\ file[i] # Bodies!NoFile
    BY DamagesAreSealings
  <2>3. f \in Bodies!Stored /\ f.salt = file[i].salt
    BY <1>0, <2>2 DEF Bodies!Stored
  <2>4. file' = [file EXCEPT ![i] = f]
    BY <1>0, <2>1
  <2>5. keyFile \in Key /\ file[i].salt = i
    BY <2>2 DEF Bodies!BlobInv, Bodies!FilesAreWhole
  <2>6. UNCHANGED <<keyFile, opened, len, put, rd>> /\ damaged' = damaged \union {i}
    BY <1>1 DEF Bodies!DamageFile, Bodies!keyVars
  <2> HIDE DEF f
  <2>7. put' \in [Id -> Bodies!Putting] /\ damaged \subseteq damaged' /\ i \in damaged'
    BY <1>0, <2>6
  <2> QED
    BY <2>3, <2>4, <2>5, <2>6, <2>7, FileChanges
<1>2. ASSUME NEW p \in Proc, Bodies!Crash(p) PROVE Bodies!BlobInv'
  <2> DEFINE gone_ == [Bodies!NoPut EXCEPT !.at = "failed"]
  <2>1. /\ UNCHANGED <<keyFile, len, file, damaged>>
        /\ opened' = [opened EXCEPT ![p] = [at |-> "down", key |-> NoKey]]
        /\ put' = [i \in Id |-> IF put[i].by = p THEN gone_ ELSE put[i]]
        /\ rd' = [i \in Id |-> IF rd[i].by = p THEN Bodies!NoReader ELSE rd[i]]
    BY <1>2 DEF Bodies!Crash, Bodies!Opening
  <2>2. gone_ \in Bodies!Putting /\ gone_.at = "failed"
    BY RestingIs DEF Bodies!NoPut, Bodies!Putting
  <2> HIDE DEF gone_
  <2>3. /\ put' \in [Id -> Bodies!Putting] /\ rd' \in [Id -> Bodies!Reader]
        /\ \A i \in Id : put'[i] = put[i] \/ put'[i].at = "failed"
        /\ \A i \in Id : rd'[i] = rd[i] \/ rd'[i] = Bodies!NoReader
    BY <1>0, <2>1, <2>2, RestingIs
  <2>4. Bodies!BlobTypeOK' /\ Bodies!KeysAgree'
    <3>1. opened' \in [Proc -> [at : {"down", "generated", "created", "open"}, key : Key \union {NoKey}]]
      BY <2>1 DEF Bodies!BlobInv, Bodies!BlobTypeOK
    <3>2. Bodies!BlobTypeOK'
      BY <2>1, <2>3, <3>1, BodiesFixed DEF Bodies!BlobInv, Bodies!BlobTypeOK
    <3>3. Bodies!KeysAgree'
      BY <2>1 DEF Bodies!BlobInv, Bodies!BlobTypeOK, Bodies!KeysAgree
    <3> QED
      BY <3>2, <3>3
  <2>5. Bodies!PutsInOrder'
    BY <2>1, <2>3, BodiesFixed DEF Bodies!BlobInv, Bodies!PutsInOrder
  <2>6. Bodies!FilesAreWhole'
    BY <2>1, BodiesFixed DEF Bodies!BlobInv, Bodies!FilesAreWhole, Bodies!NoFile
  <2>7. Bodies!ReadersAreInPlace'
    <3> SUFFICES ASSUME NEW i \in Id
                 PROVE  /\ Len(rd'[i].out) <= len[i] /\ rd'[i].out = SubSeq(Bodies!Body(i), 1, Len(rd'[i].out))
                        /\ rd'[i].at = "eof" => Len(rd'[i].out) = len[i]
                        /\ rd'[i].at = "corrupt" => i \in damaged
                        /\ rd'[i].at = "reading" =>
                              /\ keyFile \in Key /\ rd'[i].key = keyFile /\ rd'[i].file.salt = i
                              /\ Len(rd'[i].out) = rd'[i].ctr * Chunk
                              /\ i \notin damaged => Bodies!Complete(keyFile, i, rd'[i].file.chunks)
      BY <2>1, BodiesFixed DEF Bodies!ReadersAreInPlace
    <3>1. CASE rd'[i] = rd[i]
      BY <3>1 DEF Bodies!BlobInv, Bodies!ReadersAreInPlace
    <3>2. CASE rd'[i] = Bodies!NoReader
      <4>1. rd'[i].at = "no" /\ rd'[i].out = <<>> /\ Len(<<>>) = 0
        BY <3>2, RestingIs
      <4>2. len[i] \in Nat /\ SubSeq(Bodies!Body(i), 1, 0) = <<>>
        BY <1>0, BodyIs
      <4> QED
        BY <4>1, <4>2
    <3> QED
      BY <2>3, <3>1, <3>2
  <2> QED
    BY <2>4, <2>5, <2>6, <2>7 DEF Bodies!BlobInv
<1> QED
  BY <1>1, <1>2

\* Every step of processes, writers, readers and of what happens to files keeps
\* the invariant.
LEMMA NextBodies ==
  ASSUME Bodies!BlobInv, Bodies!BlobBounds, [Bodies!BlobNext]_(Bodies!vars)
  PROVE  Bodies!BlobInv'
<1>1. CASE UNCHANGED Bodies!vars
  <2>1. UNCHANGED <<keyFile, opened, len, put, file, rd, damaged>>
    BY <1>1 DEF Bodies!vars, Bodies!keyVars
  <2> QED
    BY <2>1, BodiesFixed DEF Bodies!BlobInv, Bodies!BlobTypeOK, Bodies!KeysAgree, Bodies!PutsInOrder,
       Bodies!FilesAreWhole, Bodies!ReadersAreInPlace, Bodies!NoFile
<1>2. ASSUME NEW p \in Proc,
             Bodies!LoadKey(p) \/ Bodies!CreateKey(p) \/ Bodies!Crash(p) \/ \E k \in Key : Bodies!WriteKey(p, k)
      PROVE  Bodies!BlobInv'
  BY <1>2, BodiesKeys, BodiesSuffer
<1>3. ASSUME NEW i \in Id, NEW p \in Proc, Bodies!PutStart(p, i) \/ Bodies!Get(p, i)
      PROVE  Bodies!BlobInv'
  BY <1>3, BodiesBegin
<1>4. ASSUME NEW i \in Id, Bodies!PutChunk(i) \/ Bodies!ReadNext(i) \/ Bodies!DamageFile(i)
      PROVE  Bodies!BlobInv'
  BY <1>4, BodiesSeal, BodiesRead, BodiesSuffer
<1>5. ASSUME NEW i \in Id, Bodies!PutFails(i) \/ Bodies!PutRename(i) \/ Bodies!Delete(i)
      PROVE  Bodies!BlobInv'
  BY <1>5, BodiesEnd
<1> QED
  BY <1>1, <1>2, <1>3, <1>4, <1>5 DEF Bodies!BlobNext

\* BodiesAreKept, for any ids, keys, lengths, chunk sizes, damage and crashes: a body
\* read to its end is the body that was stored, what is handed out before damage
\* is found is its beginning, and a file that was left alone can be read (blob.go,
\* nonceFor, loadOrCreateKey, Put).
THEOREM BodiesStay == Bodies!BlobSpec => []BodiesAreKept
<1>1. Bodies!BlobBounds
  BY UpkeepAssumption
<1>2. Bodies!BlobInv => BodiesAreKept
  <2> SUFFICES ASSUME Bodies!BlobInv, NEW i \in Id
               PROVE  /\ rd[i].at = "eof" => rd[i].out = Bodies!Body(i)
                      /\ Bodies!IsPrefix(rd[i].out, Bodies!Body(i))
                      /\ rd[i].at = "corrupt" => i \in damaged
    BY DEF BodiesAreKept, Bodies!ReadIsWhole, Bodies!ReadIsPrefix, Bodies!UndamagedReads
  <2>1. /\ Len(rd[i].out) <= len[i] /\ rd[i].out = SubSeq(Bodies!Body(i), 1, Len(rd[i].out))
        /\ rd[i].at = "eof" => Len(rd[i].out) = len[i]
        /\ rd[i].at = "corrupt" => i \in damaged
        /\ len[i] \in Nat /\ rd[i] \in Bodies!Reader
    BY DEF Bodies!BlobInv, Bodies!BlobTypeOK, Bodies!ReadersAreInPlace
  <2>2. rd[i].out \in Seq(Id \X Nat)
    BY <2>1 DEF Bodies!Reader
  <2>3. /\ Len(Bodies!Body(i)) = len[i] /\ SubSeq(Bodies!Body(i), 1, len[i]) = Bodies!Body(i)
    BY <2>1, BodyIs
  <2>4. SubSeq(rd[i].out, 1, Len(rd[i].out)) = rd[i].out
    BY <2>2
  <2> QED
    BY <2>1, <2>3, <2>4 DEF Bodies!IsPrefix
<1> QED
  BY InitBodies, NextBodies, <1>1, <1>2, PTL DEF Bodies!BlobSpec
-----------------------------------------------------------------------------
(* The text of times.                                                      *)

\* What the constants are assumed to be
LEMMA TimesBounds ==
  /\ Base \in Nat /\ Base >= 2 /\ Base <= 10
  /\ Places \in Nat /\ Places > 0 /\ Width \in Nat /\ Width > 0
  /\ Backoff \subseteq Nat
BY UpkeepAssumption DEF Times!TimeBounds

\* A power is the base times the one before.
LEMMA PowerFacts ==
  /\ Times!Power[0] = 1
  /\ \A k \in 1..Width + Places : Times!Power[k] = Base * Times!Power[k - 1]
  /\ \A k \in 0..Width + Places : Times!Power[k] \in Nat /\ Times!Power[k] > 0
<1> DEFINE N == Width + Places
           Mul(f, n) == [k \in 0..n |-> IF k = 0 THEN 1 ELSE Base * f[k - 1]]
<1>1. N \in Nat
  BY TimesBounds
<1> HIDE DEF N
<1>2. \E f : f = Mul(f, N)
  <2> DEFINE S == {n \in Nat : \E f : f = Mul(f, n)}
  <2>1. 0 \in S
    <3> DEFINE f == [k \in 0..0 |-> 1]
    <3>1. f = Mul(f, 0)
      OBVIOUS
    <3> QED
      BY <3>1
  <2>2. ASSUME NEW n \in Nat, n \in S PROVE n + 1 \in S
    <3>1. PICK f : f = Mul(f, n)
      BY <2>2
    <3> DEFINE g == [k \in 0..n + 1 |-> IF k = n + 1 THEN Base * f[n] ELSE f[k]]
    <3>2. \A k \in 0..n + 1 : g[k] = Mul(g, n + 1)[k]
      <4> TAKE k \in 0..n + 1
      <4>1. CASE k = n + 1
        <5>1. k # 0 /\ k - 1 = n /\ n \in 0..n + 1 /\ n # n + 1
          BY <4>1
        <5> QED
          BY <4>1, <5>1
      <4>2. CASE k = 0
        <5>1. f[0] = Mul(f, n)[0] /\ 0 \in 0..n /\ 0 # n + 1
          BY <3>1
        <5> QED
          BY <4>2, <5>1
      <4>3. CASE k \in 1..n
        <5>1. f[k] = Mul(f, n)[k] /\ k # 0 /\ k # n + 1 /\ k - 1 \in 0..n /\ k - 1 # n + 1
              /\ k - 1 \in 0..n + 1 /\ k \in 0..n
          BY <3>1, <4>3
        <5>2. f[k] = Base * f[k - 1]
          BY <5>1
        <5> QED
          BY <5>1, <5>2
      <4> QED
        BY <4>1, <4>2, <4>3
    <3>3. g = Mul(g, n + 1)
      BY <3>2
    <3> HIDE DEF g
    <3> QED
      BY <3>3
  <2> HIDE DEF S
  <2>3. N \in S
    BY <1>1, <2>1, <2>2, Induction
  <2> QED
    BY <2>3 DEF S
<1> DEFINE p == CHOOSE f : f = Mul(f, N)
<1>3. p = Mul(p, N)
  <2> HIDE DEF Mul
  <2> QED
    BY <1>2, Zenon
<1>4. Times!Power = p
  BY DEF Times!Power, N
<1> HIDE DEF p
<1>5. \A k \in 0..N : p[k] = IF k = 0 THEN 1 ELSE Base * p[k - 1]
  BY <1>3
<1>6. p[0] = 1 /\ \A k \in 1..N : p[k] = Base * p[k - 1]
  BY <1>1, <1>5
<1>7. \A k \in Nat : k <= N => p[k] \in Nat /\ p[k] > 0
  <2> DEFINE S == {k \in Nat : k <= N => p[k] \in Nat /\ p[k] > 0}
  <2>1. 0 \in S
    BY <1>6
  <2>2. ASSUME NEW k \in Nat, k \in S PROVE k + 1 \in S
    <3>1. CASE k + 1 <= N
      <4>1. k + 1 \in 1..N /\ (k + 1) - 1 = k /\ k <= N
        BY <1>1, <3>1
      <4>2. p[k + 1] = Base * p[k] /\ p[k] \in Nat /\ p[k] > 0
        BY <1>6, <2>2, <4>1
      <4>3. \A x \in Nat : x > 0 => Base * x \in Nat /\ Base * x > 0
        BY TimesBounds
      <4> QED
        BY <4>2, <4>3
    <3> QED
      BY <3>1
  <2> HIDE DEF S
  <2>3. Nat \subseteq S
    BY <2>1, <2>2, Induction
  <2> QED
    BY <2>3 DEF S
<1> QED
  BY <1>4, <1>6, <1>7 DEF N

\* Division by a product, one factor after the other
LEMMA DivTwice ==
  ASSUME NEW n \in Nat, NEW d \in Nat \ {0}, NEW b \in Nat \ {0}
  PROVE  /\ b * d \in Nat \ {0}
         /\ n \div d = b * (n \div (b * d)) + ((n \div d) % b)
<1>1. b * d \in Nat \ {0}
  OBVIOUS
<1> DEFINE q == n \div d
<1>2. q \in Nat /\ n % d \in 0..d - 1 /\ n = d * q + (n % d)
  BY DivFacts
<1> DEFINE u == q \div b
           v == q % b
           r == n % d
<1>3. u \in Nat /\ v \in 0..b - 1 /\ q = b * u + v
  BY <1>2, DivFacts
<1> HIDE DEF q, u, v, r
<1>4. n = (b * d) * u + (d * v + r)
  <2>1. d * q = d * (b * u) + d * v
    BY <1>2, <1>3
  <2>2. d * (b * u) = (b * d) * u
    BY <1>3
  <2> QED
    BY <1>2, <1>3, <2>1, <2>2 DEF r
<1>5. d * v + r \in 0..(b * d) - 1
  <2>1. r \in 0..d - 1
    BY <1>2 DEF r
  <2>2. d * v \in Nat /\ d * v <= d * (b - 1)
    BY <1>3
  <2>3. d * (b - 1) = (b * d) - d
    OBVIOUS
  <2> QED
    BY <1>1, <2>1, <2>2, <2>3
<1>6. n \div (b * d) = u
  BY <1>1, <1>3, <1>4, <1>5, DivUnique
<1> QED
  BY <1>1, <1>3, <1>6 DEF q, u, v

\* A quotient is below what the dividend is below.
LEMMA DivBelow ==
  ASSUME NEW n \in Nat, NEW d \in Nat \ {0}, NEW m \in Nat, n < m * d
  PROVE  n \div d < m
<1>1. n \div d \in Nat /\ n % d \in 0..d - 1 /\ n = d * (n \div d) + (n % d)
  BY DivFacts
<1> DEFINE q == n \div d
           r == n % d
<1>2. q \in Nat /\ r \in Nat /\ n = d * q + r
  BY <1>1
<1> HIDE DEF q, r
<1>3. ~(q >= m)
  <2> SUFFICES ASSUME q >= m PROVE FALSE
    OBVIOUS
  <2>1. d * q >= d * m
    BY <1>2
  <2> QED
    BY <1>2, <2>1
<1> QED
  BY <1>2, <1>3 DEF q

\* The number that the first i of w digits make
Leading(n, w, i) == n \div Times!Power[w - i]

\* One digit more
LEMMA LeadingFacts ==
  ASSUME NEW w \in {Width, Places}, NEW n \in Nat, n < Times!Power[w]
  PROVE  /\ w \in Nat /\ w > 0
         /\ Leading(n, w, 0) = 0 /\ Leading(n, w, w) = n
         /\ \A i \in 0..w : Leading(n, w, i) \in Nat
         /\ \A i \in 1..w : /\ Leading(n, w, i) % Base \in 0..Base - 1
                            /\ Leading(n, w, i) = Base * Leading(n, w, i - 1) + (Leading(n, w, i) % Base)
<1>0. w \in Nat /\ w > 0 /\ w <= Width + Places /\ Width + Places \in Nat
  BY TimesBounds
<1>1. \A i \in 0..w : w - i \in 0..Width + Places /\ Times!Power[w - i] \in Nat \ {0}
  BY <1>0, PowerFacts
<1>2. \A i \in 0..w : Leading(n, w, i) \in Nat
  BY <1>1, DivFacts DEF Leading
<1>3. Leading(n, w, 0) = 0
  <2>1. w - 0 = w /\ Times!Power[w] \in Nat \ {0}
    BY <1>0, <1>1
  <2>2. n \div Times!Power[w] < 1
    BY <2>1, DivBelow
  <2> QED
    BY <1>0, <1>2, <2>1, <2>2 DEF Leading
<1>4. Leading(n, w, w) = n
  <2>1. w - w = 0 /\ Times!Power[0] = 1
    BY <1>0, PowerFacts
  <2>2. n \div 1 = n
    OBVIOUS
  <2> QED
    BY <2>1, <2>2 DEF Leading
<1>5. ASSUME NEW i \in 1..w
      PROVE  /\ Leading(n, w, i) % Base \in 0..Base - 1
             /\ Leading(n, w, i) = Base * Leading(n, w, i - 1) + (Leading(n, w, i) % Base)
  <2>1. /\ (w - (i - 1)) - 1 = w - i /\ w - (i - 1) \in 1..Width + Places
        /\ i \in 0..w /\ i - 1 \in 0..w
    BY <1>0
  <2>2. Times!Power[w - (i - 1)] = Base * Times!Power[w - i]
    BY <2>1, PowerFacts
  <2> DEFINE d == Times!Power[w - i]
  <2>3. d \in Nat \ {0} /\ Base \in Nat \ {0}
    BY <1>1, <2>1, TimesBounds
  <2>4. n \div d = Base * (n \div (Base * d)) + ((n \div d) % Base)
    <3> HIDE DEF d
    <3> QED
      BY <2>3, DivTwice
  <2>5. (n \div d) % Base \in 0..Base - 1
    BY <1>2, <2>1, <2>3, DivFacts DEF Leading
  <2> QED
    BY <2>2, <2>4, <2>5 DEF Leading
<1> QED
  BY <1>0, <1>2, <1>3, <1>4, <1>5

\* The digits of a number
LEMMA DigitsFacts ==
  ASSUME NEW w \in {Width, Places}, NEW n \in Nat, n < Times!Power[w]
  PROVE  /\ Times!Digits(n, w) \in Seq(Nat) /\ Len(Times!Digits(n, w)) = w
         /\ \A i \in 1..w : /\ Times!Digits(n, w)[i] = Times!Zero + (Leading(n, w, i) % Base)
                            /\ Times!Digits(n, w)[i] \in Nat
<1>1. /\ w \in Nat /\ \A i \in 1..w : Leading(n, w, i) % Base \in 0..Base - 1
  BY LeadingFacts
<1>2. \A i \in 1..w : Times!Zero + (Leading(n, w, i) % Base) \in Nat
  BY <1>1, TimesBounds DEF Times!Zero
<1>3. Times!Digits(n, w) = [i \in 1..w |-> Times!Zero + (Leading(n, w, i) % Base)]
  BY DEF Times!Digits, Leading
<1> QED
  BY <1>1, <1>2, <1>3

\* Of two numbers of as many digits, the smaller one has the smaller digit where
\* they differ first.
LEMMA DigitsDiffer ==
  ASSUME NEW w \in {Width, Places}, NEW n \in Nat, NEW m \in Nat, n < m, m < Times!Power[w]
  PROVE  \E i \in 1..w : /\ \A j \in 1..i - 1 : Times!Digits(n, w)[j] = Times!Digits(m, w)[j]
                         /\ Times!Digits(n, w)[i] < Times!Digits(m, w)[i]
<1>0. w \in Nat /\ w > 0 /\ w \in 0..Width + Places /\ Times!Power[w] \in Nat
  BY TimesBounds, PowerFacts
<1>1. n < Times!Power[w]
  BY <1>0
<1> DEFINE T == {i \in 0..w : Leading(n, w, i) # Leading(m, w, i)}
<1>2. T \in SUBSET Nat /\ w \in T
  <2>1. Leading(n, w, w) = n /\ Leading(m, w, w) = m
    BY <1>1, LeadingFacts
  <2> QED
    BY <1>0, <2>1
<1>3. PICK i \in T : \A j \in T : i <= j
  <2> HIDE DEF T
  <2> QED
    BY <1>2, Least
<1>4. i # 0
  <2>1. Leading(n, w, 0) = 0 /\ Leading(m, w, 0) = 0
    BY <1>1, LeadingFacts
  <2> QED
    BY <1>3, <2>1
<1>5. i \in 1..w /\ i - 1 \in 0..w
  BY <1>0, <1>3, <1>4
<1>6. \A j \in 0..i - 1 : Leading(n, w, j) = Leading(m, w, j)
  <2> TAKE j \in 0..i - 1
  <2>1. j \in 0..w /\ ~(i <= j)
    BY <1>0, <1>5
  <2> QED
    BY <1>3, <2>1
<1>7. \A j \in 1..i - 1 : Times!Digits(n, w)[j] = Times!Digits(m, w)[j]
  <2> TAKE j \in 1..i - 1
  <2>1. j \in 1..w /\ Leading(n, w, j) = Leading(m, w, j)
    BY <1>0, <1>5, <1>6
  <2> QED
    BY <1>1, <2>1, DigitsFacts
<1>8. Times!Digits(n, w)[i] < Times!Digits(m, w)[i]
  <2> DEFINE a == Leading(n, w, i)
             b == Leading(m, w, i)
             c == Leading(n, w, i - 1)
  <2>1. /\ a \in Nat /\ b \in Nat /\ c \in Nat /\ a # b /\ c = Leading(m, w, i - 1)
        /\ a = Base * c + (a % Base) /\ a % Base \in 0..Base - 1
        /\ b = Base * c + (b % Base) /\ b % Base \in 0..Base - 1
    <3>1. a # b /\ i \in 0..w
      BY <1>3
    <3>2. c = Leading(m, w, i - 1)
      BY <1>5, <1>6
    <3> QED
      BY <1>1, <1>5, <3>1, <3>2, LeadingFacts
  <2>2. a <= b
    <3>1. w - i \in 0..Width + Places
      <4>1. Width + Places \in Nat /\ i \in Nat /\ i <= w
        BY <1>0, <1>5, TimesBounds
      <4> QED
        BY <1>0, <4>1
    <3>2. Times!Power[w - i] \in Nat \ {0} /\ n <= m
      BY <3>1, PowerFacts
    <3> QED
      BY <3>2, DivMono DEF Leading
  <2>3. Times!Digits(n, w)[i] = Times!Zero + (a % Base) /\ Times!Digits(m, w)[i] = Times!Zero + (b % Base)
    BY <1>1, <1>5, DigitsFacts
  <2> HIDE DEF a, b, c
  <2>4. a % Base < b % Base
    <3>1. Base * c \in Nat
      BY <2>1, TimesBounds
    <3> QED
      BY <2>1, <2>2, <3>1, TimesBounds
  <2> QED
    BY <2>1, <2>3, <2>4, TimesBounds DEF Times!Zero
<1> QED
  BY <1>5, <1>7, <1>8

\* Texts are in the order of the first place where they differ.
LEMMA TextDiffers ==
  ASSUME NEW x \in Seq(Nat), NEW y \in Seq(Nat), NEW i \in 1..Len(x), i <= Len(y),
         \A j \in 1..i - 1 : x[j] = y[j], x[i] # y[i]
  PROVE  Times!TextLE(x, y) <=> x[i] < y[i]
<1>0. /\ Len(x) \in Nat /\ Len(y) \in Nat /\ DOMAIN x = 1..Len(x) /\ DOMAIN y = 1..Len(y)
      /\ \A j \in 1..Len(x) : x[j] \in Nat
      /\ \A j \in 1..Len(y) : y[j] \in Nat
  BY ElementOfSeq
<1>1. ASSUME NEW k \in 0..Len(x), k <= Len(y)
      PROVE  SubSeq(x, 1, k) = SubSeq(y, 1, k) <=> \A j \in 1..k : x[j] = y[j]
  <2>1. SubSeq(x, 1, k) = [j \in 1..k |-> x[j]] /\ SubSeq(y, 1, k) = [j \in 1..k |-> y[j]]
    BY <1>0
  <2>2. (\A j \in 1..k : x[j] = y[j]) => [j \in 1..k |-> x[j]] = [j \in 1..k |-> y[j]]
    OBVIOUS
  <2>3. ASSUME [j \in 1..k |-> x[j]] = [j \in 1..k |-> y[j]], NEW j \in 1..k
        PROVE  x[j] = y[j]
    <3>1. [h \in 1..k |-> x[h]][j] = [h \in 1..k |-> y[h]][j]
      BY <2>3
    <3> QED
      BY <3>1
  <2> QED
    BY <2>1, <2>2, <2>3
<1>2. ~(Len(x) <= Len(y) /\ x = SubSeq(y, 1, Len(x)))
  <2> SUFFICES ASSUME Len(x) <= Len(y), x = SubSeq(y, 1, Len(x)) PROVE FALSE
    OBVIOUS
  <2>1. x[i] = y[i]
    BY <1>0
  <2> QED
    BY <2>1
<1>3. ASSUME x[i] < y[i]
      PROVE  Times!TextLE(x, y)
  <2>1. i \in DOMAIN x \intersect DOMAIN y /\ i - 1 \in 0..Len(x) /\ i - 1 <= Len(y)
    BY <1>0
  <2>2. SubSeq(x, 1, i - 1) = SubSeq(y, 1, i - 1)
    BY <1>1, <2>1
  <2> QED
    BY <1>3, <2>1, <2>2 DEF Times!TextLE
<1>4. ASSUME Times!TextLE(x, y)
      PROVE  x[i] < y[i]
  <2>1. PICK k \in DOMAIN x \intersect DOMAIN y :
             SubSeq(x, 1, k - 1) = SubSeq(y, 1, k - 1) /\ x[k] < y[k]
    BY <1>2, <1>4 DEF Times!TextLE
  <2>2. k \in 1..Len(x) /\ k <= Len(y) /\ k - 1 \in 0..Len(x) /\ k - 1 <= Len(y)
    BY <1>0
  <2>3. \A j \in 1..k - 1 : x[j] = y[j]
    BY <1>1, <2>1, <2>2
  <2>4. k = i
    <3>1. ~(k < i)
      <4> SUFFICES ASSUME k < i PROVE FALSE
        OBVIOUS
      <4>1. k \in 1..i - 1
        BY <2>2
      <4>2. x[k] = y[k] /\ x[k] \in Nat
        BY <1>0, <2>2, <4>1
      <4> QED
        BY <2>1, <4>2
    <3>2. ~(i < k)
      <4> SUFFICES ASSUME i < k PROVE FALSE
        OBVIOUS
      <4>1. i \in 1..k - 1
        BY <2>2
      <4> QED
        BY <2>3, <4>1
    <3> QED
      BY <2>2, <3>1, <3>2
  <2> QED
    BY <2>1, <2>4
<1> QED
  BY <1>3, <1>4

\* Seconds and fraction of a time
LEMMA TimeParts ==
  ASSUME NEW t \in Times!Time
  PROVE  /\ t \in Nat /\ t \div Times!Second \in Nat /\ t \div Times!Second < Times!Power[Width]
         /\ t % Times!Second \in Nat /\ t % Times!Second < Times!Power[Places]
         /\ t = (t \div Times!Second) * Times!Second + (t % Times!Second)
<1>1. /\ Times!Second \in Nat \ {0} /\ Times!Second = Times!Power[Places]
      /\ Times!Power[Width] \in Nat
  BY TimesBounds, PowerFacts DEF Times!Second
<1>2. t \in Nat /\ t < Times!Power[Width] * Times!Second
  <2>1. Times!Power[Width] * Times!Second \in Nat
    BY <1>1
  <2> QED
    BY <2>1 DEF Times!Time
<1>3. t \div Times!Second < Times!Power[Width]
  BY <1>1, <1>2, DivBelow
<1>4. /\ t \div Times!Second \in Nat /\ t % Times!Second \in 0..Times!Second - 1
      /\ t = Times!Second * (t \div Times!Second) + (t % Times!Second)
  BY <1>1, <1>2, DivFacts
<1>5. Times!Second * (t \div Times!Second) = (t \div Times!Second) * Times!Second
  BY <1>1, <1>4, MulNext
<1> QED
  BY <1>1, <1>2, <1>3, <1>4, <1>5

\* What Trim leaves off are zeros.
LEMMA TrimFacts ==
  ASSUME NEW s \in Seq(Nat)
  PROVE  \E l \in 0..Len(s) : /\ Times!Trim(s) \in Seq(Nat) /\ Len(Times!Trim(s)) = l
                              /\ \A i \in 1..l : Times!Trim(s)[i] = s[i]
                              /\ \A i \in l + 1..Len(s) : s[i] = Times!Zero
<1>0. Len(s) \in Nat /\ DOMAIN s = 1..Len(s)
  OBVIOUS
<1> DEFINE M == {0} \union {i \in DOMAIN s : s[i] # Times!Zero}
           T == {Len(s) - i : i \in M}
<1>1. M \in SUBSET (0..Len(s)) /\ 0 \in M
  BY <1>0
<1>2. T \in SUBSET Nat /\ T # {}
  <2> HIDE DEF M
  <2> QED
    BY <1>0, <1>1
<1>3. PICK x \in T : \A y \in T : x <= y
  <2> HIDE DEF T
  <2> QED
    BY <1>2, Least
<1>4. PICK m \in M : x = Len(s) - m
  BY <1>3
<1>5. \A i \in M : m >= i
  <2> TAKE i \in M
  <2>1. Len(s) - i \in T /\ i \in 0..Len(s) /\ m \in 0..Len(s)
    BY <1>1
  <2>2. Len(s) - m <= Len(s) - i
    BY <1>3, <1>4, <2>1
  <2> QED
    BY <1>0, <2>1, <2>2
<1> DEFINE l == Times!Max(M)
<1>6. l \in M /\ \A i \in M : l >= i
  <2> HIDE DEF M
  <2> QED
    BY <1>5 DEF Times!Max
<1>7. Times!Trim(s) = SubSeq(s, 1, l)
  BY DEF Times!Trim
<1>8. l \in 0..Len(s)
  BY <1>1, <1>6
<1>9. \A i \in l + 1..Len(s) : s[i] = Times!Zero
  <2> TAKE i \in l + 1..Len(s)
  <2>1. i \in DOMAIN s /\ ~(l >= i)
    BY <1>0, <1>8
  <2> QED
    BY <1>6, <2>1
<1> HIDE DEF l, M
<1>10. /\ SubSeq(s, 1, l) \in Seq(Nat) /\ Len(SubSeq(s, 1, l)) = l
       /\ \A i \in 1..l : SubSeq(s, 1, l)[i] = s[i]
  <2>1. l \in Nat /\ SubSeq(s, 1, l) = [i \in 1..l |-> s[i]] /\ \A i \in 1..l : s[i] \in Nat
    BY <1>0, <1>8, ElementOfSeq
  <2> QED
    BY <2>1
<1> QED
  BY <1>7, <1>8, <1>9, <1>10

\* The text of a time: the digits of its seconds, then the fraction as far as it
\* is not zero, then the letter.
LEMMA FormatFacts ==
  ASSUME NEW t \in Times!Time
  PROVE  \E l \in 0..Places :
           /\ Times!FormatTime(t) \in Seq(Nat)
           /\ Len(Times!FormatTime(t)) = IF l = 0 THEN Width + 1 ELSE Width + l + 2
           /\ \A i \in 1..Width :
                 Times!FormatTime(t)[i] = Times!Digits(t \div Times!Second, Width)[i]
           /\ Times!FormatTime(t)[Width + 1] = IF l = 0 THEN Times!Zulu ELSE Times!Dot
           /\ \A i \in 1..l :
                 Times!FormatTime(t)[Width + 1 + i] = Times!Digits(t % Times!Second, Places)[i]
           /\ \A i \in l + 1..Places : Times!Digits(t % Times!Second, Places)[i] = Times!Zero
<1> DEFINE d == Times!Digits(t \div Times!Second, Width)
           e == Times!Digits(t % Times!Second, Places)
           s == Times!Trim(e)
           f == Times!Fraction(t)
<1>1. d \in Seq(Nat) /\ Len(d) = Width /\ e \in Seq(Nat) /\ Len(e) = Places
  BY TimeParts, DigitsFacts
<1>2. f = IF s = <<>> THEN s ELSE <<Times!Dot>> \o s
  BY DEF Times!Fraction
<1>3. Times!FormatTime(t) = (d \o f) \o <<Times!Zulu>>
  BY DEF Times!FormatTime
<1> HIDE DEF d, e, f
<1>4. PICK l \in 0..Places : /\ s \in Seq(Nat) /\ Len(s) = l
                             /\ \A i \in 1..l : s[i] = e[i]
                             /\ \A i \in l + 1..Places : e[i] = Times!Zero
  BY <1>1, TrimFacts
<1> HIDE DEF s
<1>5. /\ <<Times!Dot>> \in Seq(Nat) /\ Len(<<Times!Dot>>) = 1 /\ <<Times!Dot>>[1] = Times!Dot
      /\ <<Times!Zulu>> \in Seq(Nat) /\ Len(<<Times!Zulu>>) = 1 /\ <<Times!Zulu>>[1] = Times!Zulu
  BY DEF Times!Dot, Times!Zulu
<1>6. /\ f \in Seq(Nat) /\ Len(f) = IF l = 0 THEN 0 ELSE l + 1
      /\ l # 0 => f[1] = Times!Dot
      /\ \A i \in 1..l : f[i + 1] = e[i]
  <2>1. CASE l = 0
    <3>1. s = <<>> /\ f = <<>>
      BY <1>2, <1>4, <2>1, EmptySeq
    <3>2. 1..l = {}
      BY <2>1
    <3> QED
      BY <2>1, <3>1, <3>2
  <2>2. CASE l # 0
    <3>1. s # <<>> /\ f = <<Times!Dot>> \o s
      BY <1>2, <1>4, <2>2
    <3> DEFINE g == <<Times!Dot>>
    <3>2. g \in Seq(Nat) /\ Len(g) = 1 /\ g[1] = Times!Dot
      BY <1>5
    <3> HIDE DEF g
    <3>3. /\ g \o s \in Seq(Nat) /\ Len(g \o s) = Len(g) + Len(s)
          /\ \A i \in 1..Len(g) + Len(s) :
                (g \o s)[i] = IF i <= Len(g) THEN g[i] ELSE s[i - Len(g)]
      BY <1>4, <3>2, ConcatProperties
    <3>4. \A i \in 1..l : i + 1 \in 1..1 + l /\ ~(i + 1 <= 1) /\ (i + 1) - 1 = i
      OBVIOUS
    <3>5. f = g \o s
      BY <3>1 DEF g
    <3>6. 1 \in 1..1 + l /\ 1 <= 1 /\ 1 + l = l + 1
      BY <2>2
    <3>7. f \in Seq(Nat) /\ Len(f) = l + 1
      BY <1>4, <3>2, <3>3, <3>5, <3>6
    <3>8. f[1] = Times!Dot
      <4>1. 1 \in 1..Len(g) + Len(s) /\ 1 <= Len(g)
        BY <1>4, <3>2, <3>6
      <4> QED
        BY <3>2, <3>3, <3>5, <4>1
    <3>9. \A i \in 1..l : f[i + 1] = e[i]
      <4> TAKE i \in 1..l
      <4>1. i + 1 \in 1..1 + l /\ ~(i + 1 <= 1) /\ (i + 1) - 1 = i
        BY <3>4
      <4>2. f[i + 1] = s[(i + 1) - 1]
        BY <1>4, <3>2, <3>3, <3>5, <4>1
      <4> QED
        BY <1>4, <4>1, <4>2
    <3> QED
      BY <2>2, <3>7, <3>8, <3>9
  <2> QED
    BY <2>1, <2>2
<1>7. /\ d \o f \in Seq(Nat) /\ Len(d \o f) = Width + Len(f)
      /\ \A i \in 1..Width + Len(f) : (d \o f)[i] = IF i <= Width THEN d[i] ELSE f[i - Width]
  BY <1>1, <1>6, ConcatProperties
<1> DEFINE h == d \o f
           z == <<Times!Zulu>>
           x == h \o z
<1>8. h \in Seq(Nat) /\ z \in Seq(Nat) /\ Len(z) = 1 /\ z[1] = Times!Zulu /\ Len(h) = Width + Len(f)
  BY <1>5, <1>7
<1>9. \A i \in 1..Width + Len(f) : h[i] = IF i <= Width THEN d[i] ELSE f[i - Width]
  BY <1>7
<1> HIDE DEF h, z
<1>10. /\ x \in Seq(Nat) /\ Len(x) = Len(h) + Len(z)
       /\ \A i \in 1..Len(h) + Len(z) : x[i] = IF i <= Len(h) THEN h[i] ELSE z[i - Len(h)]
  <2>1. h \in Seq(Nat) /\ z \in Seq(Nat)
    BY <1>8
  <2> QED
    BY <2>1, ConcatProperties
<1>11. x = Times!FormatTime(t)
  BY <1>3 DEF h, z
<1> HIDE DEF x
<1>12. Width \in Nat /\ Width > 0 /\ l \in Nat /\ Len(f) \in Nat
  BY <1>6, TimesBounds
<1>13. Len(x) = IF l = 0 THEN Width + 1 ELSE Width + l + 2
  BY <1>6, <1>8, <1>10, <1>12
<1>14. \A i \in 1..Width : x[i] = d[i]
  <2> TAKE i \in 1..Width
  <2>1. i \in 1..Len(h) + Len(z) /\ i <= Len(h) /\ i \in 1..Width + Len(f)
    BY <1>8, <1>12
  <2> QED
    BY <1>9, <1>10, <2>1
<1>15. x[Width + 1] = IF l = 0 THEN Times!Zulu ELSE Times!Dot
  <2>1. CASE l = 0
    <3>1. /\ Width + 1 \in 1..Len(h) + Len(z) /\ ~(Width + 1 <= Len(h)) /\ (Width + 1) - Len(h) = 1
      BY <1>6, <1>8, <1>12, <2>1
    <3> QED
      BY <1>8, <1>10, <2>1, <3>1
  <2>2. CASE l # 0
    <3>1. /\ Width + 1 \in 1..Len(h) + Len(z) /\ Width + 1 <= Len(h)
          /\ Width + 1 \in 1..Width + Len(f) /\ ~(Width + 1 <= Width) /\ (Width + 1) - Width = 1
      BY <1>6, <1>8, <1>12, <2>2
    <3> QED
      BY <1>6, <1>9, <1>10, <2>2, <3>1
  <2> QED
    BY <2>1, <2>2
<1>16. \A i \in 1..l : x[Width + 1 + i] = e[i]
  <2> TAKE i \in 1..l
  <2>1. /\ Width + 1 + i \in 1..Len(h) + Len(z) /\ Width + 1 + i <= Len(h)
        /\ Width + 1 + i \in 1..Width + Len(f) /\ ~(Width + 1 + i <= Width)
        /\ (Width + 1 + i) - Width = i + 1
    BY <1>6, <1>8, <1>12
  <2> QED
    BY <1>6, <1>9, <1>10, <2>1
<1> QED
  BY <1>4, <1>10, <1>11, <1>13, <1>14, <1>15, <1>16 DEF d, e

\* Digits read as a number, where those that are not there are zeros
LEMMA ValueFacts ==
  ASSUME NEW w \in {Width, Places}, NEW n \in Nat, n < Times!Power[w],
         NEW s \in Seq(Nat), Len(s) <= w,
         \A i \in 1..Len(s) : s[i] = Times!Digits(n, w)[i],
         \A i \in Len(s) + 1..w : Times!Digits(n, w)[i] = Times!Zero
  PROVE  Times!Value(s, w) = n
<1> DEFINE Loop(k) == [i \in 0..w |->
                         IF i = 0 THEN 0
                         ELSE k[i - 1] * Base + (IF i <= Len(s) THEN s[i] - Times!Zero ELSE 0)]
           f == [i \in 0..w |-> Leading(n, w, i)]
           g == CHOOSE k : k = Loop(k)
<1>0. Len(s) \in Nat /\ w \in Nat /\ w > 0 /\ Base \in Nat
  BY TimesBounds
<1>1. Times!Value(s, w) = g[w]
  BY DEF Times!Value
<1>2. f = Loop(f)
  <2>1. f[0] = 0 /\ f[0] = Leading(n, w, 0)
    BY <1>0, LeadingFacts
  <2>2. ASSUME NEW i \in 1..w
        PROVE  f[i] = f[i - 1] * Base + (IF i <= Len(s) THEN s[i] - Times!Zero ELSE 0)
    <3>1. i \in 0..w /\ i - 1 \in 0..w
      BY <1>0
    <3> DEFINE a == Leading(n, w, i)
               b == Leading(n, w, i - 1)
    <3>2. f[i] = a /\ f[i - 1] = b
      BY <3>1
    <3>3. a = Base * b + (a % Base) /\ a % Base \in 0..Base - 1 /\ a \in Nat /\ b \in Nat
      BY <3>1, LeadingFacts
    <3>4. Times!Digits(n, w)[i] = Times!Zero + (a % Base)
      BY DigitsFacts
    <3> HIDE DEF a, b, f
    <3>5. (IF i <= Len(s) THEN s[i] - Times!Zero ELSE 0) = a % Base
      <4>1. CASE i <= Len(s)
        <5>1. i \in 1..Len(s)
          BY <1>0, <4>1
        <5>2. s[i] = Times!Zero + (a % Base)
          BY <3>4, <5>1
        <5> QED
          BY <3>3, <4>1, <5>2, TimesBounds DEF Times!Zero
      <4>2. CASE ~(i <= Len(s))
        <5>1. i \in Len(s) + 1..w
          BY <1>0, <4>2
        <5>2. Times!Zero = Times!Zero + (a % Base)
          BY <3>4, <5>1
        <5> QED
          BY <3>3, <4>2, <5>2, TimesBounds DEF Times!Zero
      <4> QED
        BY <4>1, <4>2
    <3>6. b * Base = Base * b
      BY <1>0, <3>3
    <3> QED
      BY <3>2, <3>3, <3>5, <3>6
  <2>3. \A i \in 0..w : f[i] = Loop(f)[i]
    <3> HIDE DEF f
    <3> TAKE i \in 0..w
    <3>1. CASE i = 0
      BY <2>1, <3>1
    <3>2. CASE i # 0
      <4>1. i \in 1..w
        BY <3>2
      <4> QED
        BY <2>2, <3>2, <4>1
    <3> QED
      BY <3>1, <3>2
  <2> QED
    BY <2>3
<1>3. g = Loop(g)
  <2> HIDE DEF f, Loop
  <2> QED
    BY <1>2, Zenon
<1>4. \A i \in Nat : i <= w => g[i] = f[i]
  <2> DEFINE S == {i \in Nat : i <= w => g[i] = f[i]}
  <2> HIDE DEF f, g
  <2>1. \A i \in 0..w : g[i] = Loop(g)[i] /\ f[i] = Loop(f)[i]
    BY <1>2, <1>3
  <2>2. 0 \in S
    BY <1>0, <2>1
  <2>3. \A i \in Nat : i \in S => i + 1 \in S
    <3> SUFFICES ASSUME NEW i \in Nat, i \in S PROVE i + 1 \in S
      OBVIOUS
    <3>1. CASE i + 1 <= w
      <4>1. i + 1 \in 0..w /\ i + 1 # 0 /\ (i + 1) - 1 = i /\ i <= w
        BY <1>0, <3>1
      <4>2. g[i] = f[i]
        BY <4>1
      <4>3. g[i + 1] = f[i + 1]
        BY <2>1, <4>1, <4>2
      <4> QED
        BY <4>3
    <3> QED
      BY <3>1
  <2> HIDE DEF S
  <2>4. Nat \subseteq S
    BY <2>2, <2>3, Induction
  <2> QED
    BY <2>4 DEF S
<1>5. f[w] = n
  <2>1. f[w] = Leading(n, w, w)
    BY <1>0
  <2> QED
    BY <2>1, LeadingFacts
<1> QED
  <2> HIDE DEF f, g
  <2> QED
    BY <1>0, <1>1, <1>4, <1>5

\* What is read back is what was written.
LEMMA ParseFormat ==
  ASSUME NEW t \in Times!Time
  PROVE  Times!ParseTime(Times!FormatTime(t)) = t
<1> DEFINE x == Times!FormatTime(t)
           d == Times!Digits(t \div Times!Second, Width)
           e == Times!Digits(t % Times!Second, Places)
           u == SubSeq(x, 1, Width)
           f == IF x[Width + 1] = Times!Dot THEN SubSeq(x, Width + 2, Len(x) - 1) ELSE <<>>
<1>1. PICK l \in 0..Places :
           /\ x \in Seq(Nat) /\ Len(x) = IF l = 0 THEN Width + 1 ELSE Width + l + 2
           /\ \A i \in 1..Width : x[i] = d[i]
           /\ x[Width + 1] = IF l = 0 THEN Times!Zulu ELSE Times!Dot
           /\ \A i \in 1..l : x[Width + 1 + i] = e[i]
           /\ \A i \in l + 1..Places : e[i] = Times!Zero
  BY FormatFacts
<1>2. Times!ParseTime(x) = Times!Value(u, Width) * Times!Second + Times!Value(f, Places)
  BY DEF Times!ParseTime
<1>3. /\ d \in Seq(Nat) /\ Len(d) = Width /\ e \in Seq(Nat) /\ Len(e) = Places
  BY TimeParts, DigitsFacts
<1> HIDE DEF x
<1>4. Width \in Nat /\ Width > 0 /\ l \in Nat /\ \A i \in 1..Len(x) : x[i] \in Nat
  BY <1>1, TimesBounds, ElementOfSeq
<1>5. u \in Seq(Nat) /\ Len(u) = Width /\ \A i \in 1..Width : u[i] = d[i]
  <2>1. \A i \in 1..Width : i \in 1..Len(x)
    BY <1>1, <1>4
  <2>2. u = [i \in 1..Width |-> x[i]]
    BY <1>1, <1>4, <2>1
  <2> HIDE DEF u, d
  <2> QED
    BY <1>1, <1>4, <2>1, <2>2
<1>6. f \in Seq(Nat) /\ Len(f) = l /\ \A i \in 1..l : f[i] = e[i]
  <2>1. CASE l = 0
    <3>1. f = <<>>
      BY <1>1, <2>1 DEF Times!Zulu, Times!Dot
    <3> HIDE DEF f
    <3>2. 1..l = {}
      BY <2>1
    <3> QED
      BY <2>1, <3>1, <3>2
  <2>2. CASE l # 0
    <3>1. f = SubSeq(x, Width + 2, Width + l + 1)
      BY <1>1, <1>4, <2>2
    <3> HIDE DEF f, e
    <3>2. \A i \in Width + 2..Width + l + 1 : x[i] \in Nat
      BY <1>1, <1>4, <2>2
    <3>3. Width + 2 \in Int /\ Width + l + 1 \in Int /\ Width + 2 <= Width + l + 1
      BY <1>4, <2>2
    <3>4. /\ f \in Seq(Nat)
          /\ Len(f) = (Width + l + 1) - (Width + 2) + 1
          /\ \A i \in 1..(Width + l + 1) - (Width + 2) + 1 : f[i] = x[(Width + 2) + i - 1]
      BY <3>1, <3>2, <3>3, SubSeqProperties
    <3>5. (Width + l + 1) - (Width + 2) + 1 = l
      BY <1>4
    <3>6. \A i \in 1..l : (Width + 2) + i - 1 = Width + 1 + i
      BY <1>4
    <3> QED
      BY <1>1, <3>4, <3>5, <3>6
  <2> QED
    BY <2>1, <2>2
<1>7. Times!Value(u, Width) = t \div Times!Second
  <2>1. t \div Times!Second \in Nat /\ t \div Times!Second < Times!Power[Width]
    BY TimeParts
  <2>2. \A i \in Len(u) + 1..Width : FALSE
    <3> HIDE DEF u
    <3> QED
      BY <1>4, <1>5
  <2>3. Len(u) <= Width /\ \A i \in 1..Len(u) : u[i] = d[i]
    <3> HIDE DEF u, d
    <3> QED
      BY <1>4, <1>5
  <2> HIDE DEF u
  <2> QED
    BY <1>5, <2>1, <2>2, <2>3, ValueFacts
<1>8. Times!Value(f, Places) = t % Times!Second
  <2>1. t % Times!Second \in Nat /\ t % Times!Second < Times!Power[Places]
    BY TimeParts
  <2>2. /\ f \in Seq(Nat) /\ Len(f) <= Places
        /\ \A i \in 1..Len(f) : f[i] = e[i]
        /\ \A i \in Len(f) + 1..Places : e[i] = Times!Zero
    <3> HIDE DEF f, e
    <3> QED
      BY <1>1, <1>4, <1>6
  <2> HIDE DEF f
  <2> QED
    BY <2>1, <2>2, ValueFacts
<1> HIDE DEF u, f
<1>9. t = (t \div Times!Second) * Times!Second + (t % Times!Second)
  BY TimeParts
<1> QED
  BY <1>2, <1>7, <1>8, <1>9 DEF x

\* Across seconds, the texts of two times are in the order of the times.
LEMMA TextOrder ==
  ASSUME NEW t \in Times!Time, NEW u \in Times!Time, t \div Times!Second # u \div Times!Second
  PROVE  Times!TextLE(Times!FormatTime(t), Times!FormatTime(u))
           <=> t \div Times!Second < u \div Times!Second
<1> DEFINE x == Times!FormatTime(t)
           y == Times!FormatTime(u)
           a == t \div Times!Second
           b == u \div Times!Second
<1>1. a \in Nat /\ b \in Nat /\ a < Times!Power[Width] /\ b < Times!Power[Width] /\ a # b
  BY TimeParts
<1>2. /\ x \in Seq(Nat) /\ Len(x) > Width
      /\ \A i \in 1..Width : x[i] = Times!Digits(a, Width)[i]
  <2> DEFINE z == x
  <2>1. PICK l \in 0..Places :
           /\ z \in Seq(Nat) /\ Len(z) = IF l = 0 THEN Width + 1 ELSE Width + l + 2
           /\ \A i \in 1..Width : z[i] = Times!Digits(a, Width)[i]
    BY FormatFacts
  <2> HIDE DEF z, x, a
  <2>2. Len(z) > Width
    BY <2>1, TimesBounds
  <2> QED
    BY <2>1, <2>2 DEF z
<1>3. /\ y \in Seq(Nat) /\ Len(y) > Width
      /\ \A i \in 1..Width : y[i] = Times!Digits(b, Width)[i]
  <2> DEFINE z == y
  <2>1. PICK l \in 0..Places :
           /\ z \in Seq(Nat) /\ Len(z) = IF l = 0 THEN Width + 1 ELSE Width + l + 2
           /\ \A i \in 1..Width : z[i] = Times!Digits(b, Width)[i]
    BY FormatFacts
  <2> HIDE DEF z, y, b
  <2>2. Len(z) > Width
    BY <2>1, TimesBounds
  <2> QED
    BY <2>1, <2>2 DEF z
<1> HIDE DEF x, y, a, b
<1>4. \A i \in 1..Width : /\ i \in 1..Len(x) /\ i <= Len(y) /\ x[i] \in Nat /\ y[i] \in Nat
                          /\ \A j \in 1..i - 1 : j \in 1..Width
  BY <1>2, <1>3, TimesBounds, ElementOfSeq
<1>5. CASE a < b
  <2>1. PICK i \in 1..Width :
             /\ \A j \in 1..i - 1 : Times!Digits(a, Width)[j] = Times!Digits(b, Width)[j]
             /\ Times!Digits(a, Width)[i] < Times!Digits(b, Width)[i]
    BY <1>1, <1>5, DigitsDiffer
  <2>2. x[i] < y[i] /\ \A j \in 1..i - 1 : x[j] = y[j]
    BY <1>2, <1>3, <1>4, <2>1
  <2>3. x[i] # y[i]
    BY <1>4, <2>2
  <2>4. Times!TextLE(x, y)
    BY <1>2, <1>3, <1>4, <2>2, <2>3, TextDiffers
  <2> QED
    BY <1>5, <2>4 DEF x, y, a, b
<1>6. CASE b < a
  <2>1. PICK i \in 1..Width :
             /\ \A j \in 1..i - 1 : Times!Digits(b, Width)[j] = Times!Digits(a, Width)[j]
             /\ Times!Digits(b, Width)[i] < Times!Digits(a, Width)[i]
    BY <1>1, <1>6, DigitsDiffer
  <2>2. y[i] < x[i] /\ \A j \in 1..i - 1 : x[j] = y[j]
    BY <1>2, <1>3, <1>4, <2>1
  <2>3. x[i] # y[i] /\ ~(x[i] < y[i])
    BY <1>4, <2>2
  <2>4. ~Times!TextLE(x, y)
    BY <1>2, <1>3, <1>4, <2>2, <2>3, TextDiffers
  <2>5. ~(a < b)
    BY <1>1, <1>6
  <2> QED
    BY <2>4, <2>5 DEF x, y, a, b
<1> QED
  BY <1>1, <1>5, <1>6

\* A message is claimed when the text of now is not before its own, and its text is
\* made anew from the time it has to wait until.
LEMMA NextTimes ==
  ASSUME Times!TimeInv, [Times!TimeNext]_Times!vars
  PROVE  Times!TimeInv'
<1>1. /\ clock \in Times!Time /\ retryDue \in Times!Time /\ claimed \in Times!Time
      /\ retry \in [status : {"queued", "delivering"}, retry : {Times!FormatTime(retryDue)}]
      /\ Times!NotBeforeItsSecond
  BY DEF Times!TimeInv
<1>2. retry.status \in {"queued", "delivering"} /\ retry.retry = Times!FormatTime(retryDue)
  BY <1>1
<1>3. CASE Times!ClaimBatch
  <2>1. /\ retry' = [retry EXCEPT !.status = "delivering"] /\ claimed' = clock
        /\ clock' = clock /\ retryDue' = retryDue
        /\ Times!TextLE(Times!FormatTime(retryDue), Times!FormatTime(clock))
    BY <1>2, <1>3 DEF Times!ClaimBatch, Times!Due
  <2>2. clock \div Times!Second >= retryDue \div Times!Second
    <3>1. clock \div Times!Second \in Nat /\ retryDue \div Times!Second \in Nat
      BY <1>1, TimeParts
    <3>2. CASE clock \div Times!Second = retryDue \div Times!Second
      BY <3>1, <3>2
    <3>3. CASE clock \div Times!Second # retryDue \div Times!Second
      <4>1. retryDue \div Times!Second < clock \div Times!Second
        BY <1>1, <2>1, <3>3, TextOrder
      <4> QED
        BY <3>1, <4>1
    <3> QED
      BY <3>2, <3>3
  <2>3. /\ retry' \in [status : {"queued", "delivering"}, retry : {Times!FormatTime(retryDue)}]
    BY <1>1, <2>1
  <2> QED
    BY <1>1, <2>1, <2>2, <2>3 DEF Times!TimeInv, Times!NotBeforeItsSecond
<1>4. CASE Times!Reschedule
  <2>1. PICK b \in Backoff :
             /\ clock + b \in Times!Time /\ retryDue' = clock + b
             /\ retry' = [status |-> "queued", retry |-> Times!FormatTime(clock + b)]
    BY <1>4 DEF Times!Reschedule
  <2>2. clock' = clock /\ claimed' = claimed
    BY <1>4 DEF Times!Reschedule
  <2>3. /\ retry' \in [status : {"queued", "delivering"}, retry : {Times!FormatTime(clock + b)}]
        /\ retry'.status # "delivering"
    BY <2>1
  <2> QED
    BY <1>1, <2>1, <2>2, <2>3 DEF Times!TimeInv, Times!NotBeforeItsSecond
<1>5. CASE Times!TimePasses
  BY <1>1, <1>5 DEF Times!TimePasses, Times!TimeInv, Times!NotBeforeItsSecond
<1>6. CASE UNCHANGED Times!vars
  BY <1>1, <1>6 DEF Times!vars, Times!TimeInv, Times!NotBeforeItsSecond
<1> QED
  BY <1>3, <1>4, <1>5, <1>6 DEF Times!TimeNext

\* Although the text of a time leaves out the zeros at its end, so that within a
\* second the order of the texts is not that of the times, no message is claimed in
\* an earlier second than it has to wait for, every message whose second is over can
\* be claimed, and the time read back is the one written, for any number of digits
\* of the seconds and of the fraction (formatTime, parseTime; ClaimBatch).
THEOREM TimesStayInOrder == Times!TimeSpec => []TimesKeepTheirOrder
<1>1. Times!TimeInit => Times!TimeInv
  <2> SUFFICES ASSUME Times!TimeInit PROVE Times!TimeInv
    OBVIOUS
  <2>1. /\ clock \in Times!Time /\ retryDue \in Times!Time /\ claimed = clock
        /\ retry = [status |-> "queued", retry |-> Times!FormatTime(retryDue)]
    BY DEF Times!TimeInit
  <2>2. /\ retry \in [status : {"queued", "delivering"}, retry : {Times!FormatTime(retryDue)}]
        /\ retry.status # "delivering"
    BY <2>1
  <2> QED
    BY <2>1, <2>2 DEF Times!TimeInv, Times!NotBeforeItsSecond
<1>2. Times!TimeInv /\ [Times!TimeNext]_Times!vars => Times!TimeInv'
  BY NextTimes
<1>3. Times!TimeInv => TimesKeepTheirOrder
  <2> SUFFICES ASSUME Times!TimeInv PROVE TimesKeepTheirOrder
    OBVIOUS
  <2>1. /\ clock \in Times!Time /\ retryDue \in Times!Time /\ retry.retry = Times!FormatTime(retryDue)
        /\ Times!NotBeforeItsSecond
    BY DEF Times!TimeInv
  <2>2. Times!ReadBack
    BY <2>1, ParseFormat DEF Times!ReadBack
  <2>3. Times!NotAfterItsSecond
    <3> SUFFICES ASSUME clock \div Times!Second > retryDue \div Times!Second
                 PROVE  Times!TextLE(Times!FormatTime(retryDue), Times!FormatTime(clock))
      BY <2>1 DEF Times!NotAfterItsSecond, Times!Due
    <3>1. clock \div Times!Second \in Nat /\ retryDue \div Times!Second \in Nat
      BY <2>1, TimeParts
    <3>2. /\ retryDue \div Times!Second < clock \div Times!Second
          /\ retryDue \div Times!Second # clock \div Times!Second
      BY <3>1
    <3> QED
      BY <2>1, <3>2, TextOrder
  <2> QED
    BY <2>1, <2>2, <2>3 DEF TimesKeepTheirOrder
<1> QED
  BY <1>1, <1>2, <1>3, PTL DEF Times!TimeSpec

=============================================================================
