------------------------------- MODULE Upkeep -------------------------------
(***************************************************************************)
(* What works beside the queue: the encrypted store of bodies (BlobStore), *)
(* the text of times (TimeText), backups (Backup), certificates and the    *)
(* guard on their issuance (Certificates, IssuanceGuard), DKIM keys        *)
(* (Signing) and outbound routes (Routing).  They share no state; here are *)
(* their instances, for any sizes, and what is promised of each.           *)
(***************************************************************************)
EXTENDS Integers, Sequences, FiniteSets, TLC

CONSTANTS Id, Proc, Key, NoKey, ShortKey, Chunk, MaxLen, MaxBytes, MaxDamage, MaxCrashes
VARIABLES keyFile, used, opened, len, put, file, rd, damaged, damage, crashes
Bodies == INSTANCE BlobStore

CONSTANTS Base, Places, Width, Backoff
VARIABLES clock, retry, retryDue, claimed
Times == INSTANCE TimeText WITH now <- clock, row <- retry, due <- retryDue, taken <- claimed

CONSTANTS Interval, Keep, MaxSeconds, MaxStops, MaxFaults
VARIABLES now, at, files, stamp, due, taken, left, stops, faults
Backups == INSTANCE Backup WITH MaxTime <- MaxSeconds

CONSTANTS Life, RenewBefore, Jitter, Refresh, RetryInitial, RetryMax, MaxHours, MaxFlips, MaxRestarts
VARIABLES time, ca, cert, issued, lastErr, loop, delay, upSince, outage, flips, restarts
Renewals == INSTANCE Certificates WITH now <- time, MaxTime <- MaxHours

CONSTANTS Client, Burst, Refill, Step, MaxMoment
VARIABLES moment, tokens, lastFill, until, free, through, atOnce
Guard == INSTANCE IssuanceGuard WITH now <- moment, MaxTime <- MaxMoment

CONSTANTS Admin, Selector, NoSelector, Mail, MaxKeyChanges
VARIABLES row, generated, dns, published, forced, patch, signature, sent, changes
Keypairs == INSTANCE Signing WITH
    Key <- Selector, NoKey <- NoSelector, MaxChanges <- MaxKeyChanges

CONSTANTS RouteId, Label, Pattern, Path, Global, Envelopes, MaxRouteChanges, MaxErrors
VARIABLES routes, lastId, routePatch, envelope, todo, gone, routeChanges, errors
Routes == INSTANCE Routing WITH
    patch <- routePatch, left <- gone, changes <- routeChanges, Id <- RouteId, MaxChanges <- MaxRouteChanges

ASSUME UpkeepAssumption ==
    /\ Bodies!BlobBounds /\ Times!TimeBounds /\ Backups!BackupBounds /\ Renewals!CertificatesBounds
    /\ Guard!GuardBounds /\ Keypairs!SigningBounds /\ Routes!RoutingBounds

-----------------------------------------------------------------------------
(* Properties: those of the seven modules, where they are discussed.       *)

\* Whatever became of a file, a body read to its end is the body that was stored,
\* and what is handed out before damage is found is its beginning; a file that was
\* left alone can be read, also by a process started later or at the same time as
\* the one that generated the key (blob.go, nonceFor, loadOrCreateKey, Put).
BodiesAreKept == Bodies!ReadIsWhole /\ Bodies!ReadIsPrefix /\ Bodies!UndamagedReads

\* Although times are compared as text, a message is never claimed in an earlier
\* second than its next_retry_at and can be claimed once that second is over; and
\* what is read back is the time that was written (store.go, formatTime, parseTime;
\* ClaimBatch).
TimesKeepTheirOrder == Times!NotBeforeItsSecond /\ Times!NotAfterItsSecond /\ Times!ReadBack

\* From the first completed copy on there is one to restore from, whatever fails
\* and wherever the process ends, and broken files do not pile up beyond one for
\* each trouble (backup.go, prune).
BackupsRemain == Backups!AWholeOneRemains /\ Backups!FilesAreBounded

\* No expired certificate is presented while the authority is away for less than
\* renew_before leaves room for, and a new one arrives within the longest delay
\* once it answers; the authority gets no more than a burst at one moment, no more
\* than the tokens without waiting, and beyond them one request per client and
\* step of waiting (acme.go, Run; guard.go).
RenewalsAreSafe ==
    /\ Renewals!ServedIsValid /\ Renewals!ArrivesInTime
    /\ Guard!BurstIsBounded /\ Guard!RunawayIsSlowed

\* Mail leaves as configured at that moment: with requests one after the other not
\* signed with a key whose record nobody published, unless an administrator forced
\* it; on the path its destination is due, for messages to one destination, and no
\* two routes are for the same one (handleUpdateDKIM; sender/outbound.go, routeFor).
OutboundAsConfigured ==
    /\ Keypairs!OneAtATime => Keypairs!SignaturesResolve
    /\ Routes!OneRouteEach
    /\ Routes!OneDestinationEach => Routes!OnItsRoute
=============================================================================
