---------------------------- MODULE Certificates ----------------------------
(***************************************************************************)
(* acme/acme.go: the loop that asks autocert for the certificate, keeps    *)
(* what it got for the listeners and asks again after refreshInterval, or  *)
(* sooner after a failure; until the first one a self-signed certificate   *)
(* is served.  autocert (external) orders a certificate when it has none   *)
(* and renews the one it has on its own.                                   *)
(***************************************************************************)
EXTENDS Naturals

CONSTANTS Life,         \* how long a certificate is valid
          RenewBefore,  \* http.acme.renew_before
          Jitter,       \* how much earlier autocert may renew
          Refresh,      \* refreshInterval
          RetryInitial, RetryMax,
          MaxTime, MaxFlips, MaxRestarts  \* bounds

CertificatesBounds ==
    /\ {Life, RenewBefore, Jitter, Refresh, MaxTime, MaxFlips, MaxRestarts} \subseteq Nat
    /\ RetryInitial \in Nat \ {0} /\ RetryMax \in Nat /\ RetryInitial <= RetryMax
    /\ RenewBefore + Jitter < Life

VARIABLES now,
          ca,        \* the authority answers
          cert,      \* autocert's certificate: when it expires; None if there is none
          issued,    \* Manager.issued, likewise
          lastErr,   \* Manager.lastErr is set
          loop,      \* Run: "obtain" or "sleep", and until when
          delay,     \* Run's delay
          upSince,   \* history: when the authority came back, or this process began
          outage,    \* history: how long it was away while a certificate was served
          flips, restarts

counts == <<flips, restarts>>
vars == <<now, ca, cert, issued, lastErr, loop, delay, upSince, outage, counts>>

None == 0
CertificatesInit ==
    /\ now = 1 /\ ca \in BOOLEAN /\ cert = None /\ issued = None /\ lastErr = FALSE
    /\ loop = [at |-> "obtain", until |-> 1] /\ delay = RetryInitial
    /\ upSince = 1 /\ outage = 0 /\ flips = 0 /\ restarts = 0

-----------------------------------------------------------------------------
(* Run.                                                                    *)

Sleep(d) == loop' = [at |-> "sleep", until |-> now + d]

\* Mutant: a renewed certificate is not adopted
AdoptFirst(c) == issued' = IF issued = None THEN c ELSE issued

\* adopt: whatever autocert has by now.
Adopt(c) == issued' = c

\* GetCertificate: the one autocert has, or a new order.
Obtain ==
    /\ loop.at = "obtain" /\ (cert # None \/ ca)
    /\ cert' = IF cert = None THEN now + Life ELSE cert
    /\ Adopt(cert') /\ lastErr' = FALSE /\ delay' = RetryInitial /\ Sleep(Refresh)
    /\ UNCHANGED <<now, ca, upSince, outage, counts>>

Double(d) == IF 2 * d < RetryMax THEN 2 * d ELSE RetryMax

ObtainFails ==
    /\ loop.at = "obtain" /\ cert = None /\ ~ca
    /\ lastErr' = TRUE /\ Sleep(delay) /\ delay' = Double(delay)
    /\ UNCHANGED <<now, ca, cert, issued, upSince, outage, counts>>

Wake ==
    /\ loop.at = "sleep" /\ loop.until <= now /\ loop' = [loop EXCEPT !.at = "obtain"]
    /\ UNCHANGED <<now, ca, cert, issued, lastErr, delay, upSince, outage, counts>>

-----------------------------------------------------------------------------
(* autocert, the authority, the process and the clock.                     *)

RenewalDue == cert # None /\ now + RenewBefore >= cert

\* autocert keeps trying while the authority is away.
Renew ==
    /\ cert # None /\ now + RenewBefore + Jitter >= cert /\ ca
    /\ cert' = now + Life
    /\ UNCHANGED <<now, ca, issued, lastErr, loop, delay, upSince, outage, counts>>

AuthorityFlips ==
    /\ flips < MaxFlips /\ flips' = flips + 1 /\ ca' = ~ca
    /\ upSince' = IF ca THEN upSince ELSE now
    /\ UNCHANGED <<now, cert, issued, lastErr, loop, delay, outage, restarts>>

\* The cache on disk survives; what expired in it is ordered again.
Restart ==
    /\ restarts < MaxRestarts /\ restarts' = restarts + 1
    /\ cert' = IF cert > now THEN cert ELSE None
    /\ issued' = None /\ lastErr' = FALSE /\ delay' = RetryInitial
    /\ loop' = [at |-> "obtain", until |-> now] /\ upSince' = now
    /\ UNCHANGED <<now, ca, outage, flips>>

\* Nothing that can be done at once waits.
TimePasses ==
    /\ now < MaxTime /\ now' = now + 1
    /\ loop.at = "sleep" /\ now < loop.until /\ ~(RenewalDue /\ ca)
    /\ outage' = IF ~ca /\ issued # None THEN outage + 1 ELSE outage
    /\ UNCHANGED <<ca, cert, issued, lastErr, loop, delay, upSince, counts>>

CertificatesNext == Obtain \/ ObtainFails \/ Wake \/ Renew \/ AuthorityFlips \/ Restart \/ TimePasses
CertificatesSpec == CertificatesInit /\ [][CertificatesNext]_vars

-----------------------------------------------------------------------------
(* Properties.                                                             *)

\* The listeners do not present an expired certificate as long as the authority
\* is not away for longer than renew_before leaves room for, what was renewed
\* being adopted within refreshInterval ("leaves no room to retry a failed renewal
\* before the certificate expires").
ServedIsValid == issued # None /\ outage + Refresh < RenewBefore => now < issued

\* The backoff does not keep the self-signed certificate in place: once the
\* authority answers, the real one is served within retryMax.
ArrivesInTime == ca /\ issued = None => now - upSince <= RetryMax

-----------------------------------------------------------------------------
(* Invariant.                                                              *)

CertificatesTypeOK ==
    /\ {now, cert, issued, delay, upSince, outage} \subseteq Nat /\ ca \in BOOLEAN
    /\ loop \in [at : {"obtain", "sleep"}, until : Nat]

\* autocert is late by no more than the authority was away while it was needed;
\* the loop sleeps on a certificate no longer than refreshInterval, and without
\* one no longer than retryMax from the moment the authority is back.
CertificatesInv ==
    /\ CertificatesTypeOK
    /\ upSince <= now /\ now > 0 /\ delay <= RetryMax
    /\ cert # None => now + RenewBefore <= cert + outage
    /\ cert # None /\ issued = None => loop.at = "obtain"
    /\ cert = None => issued = None
    /\ loop.at = "sleep" => now <= loop.until
    /\ issued # None => now <= loop.until /\ loop.until + RenewBefore <= issued + outage + Refresh
    /\ issued = None /\ ca =>
          now <= upSince + RetryMax /\ (loop.at = "sleep" => loop.until <= upSince + RetryMax)
    /\ issued = None /\ ~ca /\ loop.at = "sleep" => loop.until <= now + RetryMax
=============================================================================
