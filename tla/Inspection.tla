----------------------------- MODULE Inspection -----------------------------
(***************************************************************************)
(* What happens to a message between its body and the answer to DATA on    *)
(* port 25: the content filters, rspamd (spam/spam.go), clamd              *)
(* (clamav/clamav.go), SPF, which is looked up by a goroutine of its own,  *)
(* and DKIM (authres/authres.go), the queue row, and the quarantine.  All  *)
(* of it shares one deadline.  Scores, names and headers are left out.     *)
(***************************************************************************)
EXTENDS Naturals, Sequences

CONSTANTS Filter,     \* verdicts of the filters: "none", "allow", "quarantine", "reject"
          Rspamd,     \* how rspamd may behave
          Clamd,      \* how clamd may behave
          Chunks,     \* pieces in which the body is streamed to clamd
          StoreFails  \* whether statements on the database may fail

InspectionBounds == Chunks \in Nat /\ StoreFails \subseteq BOOLEAN

VARIABLES cfg,      \* the configuration
          says,     \* what the filters, rspamd, clamd and the sender's domain say
          at,       \* where Data is
          live,     \* the deadline of Data has not passed
          body,     \* the body is in the spool
          spf,      \* the goroutine: "off", "running", "blocked", "sent"
          verdict,  \* the verdict of rspamd as Check returns it
          streamed, \* pieces clamd has been sent
          scan,     \* malware_scan
          hold,     \* the reason for quarantine
          row,      \* the queue row
          reply     \* the answer to DATA

asked == <<cfg, says>>
vars == <<asked, at, live, body, spf, verdict, streamed, scan, hold, row, reply>>

Config == [spam : BOOLEAN, spamReject : BOOLEAN, spamDefer : BOOLEAN, spamBig : BOOLEAN,
           clam : {"off", "quarantine", "reject"}, clamBig : BOOLEAN, auth : BOOLEAN]

NoRow == [queued |-> FALSE, held |-> FALSE, scan |-> "", scored |-> FALSE, authenticated |-> FALSE]
NoVerdict == [action |-> "none", skipped |-> TRUE]

InspectionInit ==
    /\ cfg \in Config
    /\ says \in [filter : Filter, rspamd : Rspamd, clamd : Clamd, auth : {"spf", "dkim", "nobody"}]
    /\ at = "filters" /\ live = TRUE /\ body = TRUE
    /\ spf = (IF cfg.auth THEN "running" ELSE "off")
    /\ verdict = NoVerdict /\ streamed = 0 /\ scan = "" /\ hold = "" /\ row = NoRow /\ reply = ""

-----------------------------------------------------------------------------
(* Ends of Data.                                                           *)

Refuse(code) ==
    /\ at' = "end" /\ body' = FALSE /\ reply' = code
    /\ UNCHANGED <<asked, live, spf, verdict, streamed, scan, hold, row>>

Goto(next) ==
    /\ at' = next
    /\ UNCHANGED <<asked, live, body, spf, streamed, row, reply>>

-----------------------------------------------------------------------------
(* Filters and rspamd.                                                     *)

Evaluate ==
    /\ at = "filters"
    /\ \/ says.filter = "reject" /\ Refuse("550")
       \/ /\ says.filter # "reject" /\ Goto("spam")
          /\ hold' = IF says.filter = "quarantine" THEN "filter" ELSE ""
          /\ UNCHANGED <<verdict, scan>>

\* Check, for an answer that could be parsed: a message rspamd declined to scan
\* is told from one that a rule decided on its own, and a rejection that is not
\* enabled only tags the message.
Checked(answer) ==
    IF answer.skipped /\ answer.action = "none" THEN NoVerdict
    ELSE [action |-> IF answer.action = "reject" /\ ~cfg.spamReject THEN "add header" ELSE answer.action,
          skipped |-> FALSE]

\* Disabled, too large, unreachable, too slow, nonsense, or a body that cannot be
\* opened: not scanned.
CheckSpam ==
    /\ at = "spam" /\ Goto("spammed")
    /\ verdict' = IF ~cfg.spam \/ cfg.spamBig \/ says.rspamd.down THEN NoVerdict
                  ELSE Checked(says.rspamd)
    /\ UNCHANGED <<scan, hold>>

ActOnSpam ==
    /\ at = "spammed"
    /\ \/ verdict.action = "reject" /\ Refuse("550")
       \/ verdict.action \in {"soft reject", "greylist"} /\ cfg.spamDefer /\ Refuse("451")
       \/ /\ verdict.action # "reject"
          /\ ~(verdict.action \in {"soft reject", "greylist"} /\ cfg.spamDefer)
          /\ Goto("malware") /\ UNCHANGED <<verdict, scan, hold>>

-----------------------------------------------------------------------------
(* clamd.  It may refuse the connection, close it while the body is still  *)
(* being sent, answer, or leave the scan without an answer; a body that    *)
(* cannot be opened is a failure as an offline scanner is.                 *)

Scanned(result, next) ==
    /\ at' = next /\ scan' = result
    /\ UNCHANGED <<asked, live, body, spf, verdict, streamed, hold, row, reply>>

\* checkMalware and dial
BeginScan ==
    /\ at = "malware"
    /\ \/ cfg.clam = "off" /\ Scanned("", "auth")
       \/ cfg.clam # "off" /\ cfg.clamBig /\ Scanned("skipped", "auth")
       \/ cfg.clam # "off" /\ ~cfg.clamBig /\ says.clamd = "offline" /\ Scanned("failed", "auth")
       \/ cfg.clam # "off" /\ ~cfg.clamBig /\ says.clamd # "offline" /\ Scanned("", "stream")

StreamChunk ==
    /\ at = "stream" /\ streamed < Chunks
    /\ \/ streamed' = streamed + 1 /\ UNCHANGED <<at, scan>>
       \/ says.clamd = "closes" /\ at' = "auth" /\ scan' = "failed" /\ UNCHANGED streamed
    /\ UNCHANGED <<asked, live, body, spf, verdict, hold, row, reply>>

\* Mutant: whatever is not a finding is taken for clean
ResultAnyReply == IF says.clamd = "found" THEN "infected" ELSE "clean"

\* The end of the answer decides; anything else is an error.
Result ==
    IF says.clamd = "ok" THEN "clean" ELSE IF says.clamd = "found" THEN "infected" ELSE "failed"

\* The connection has the deadline of Data, not the timeout of the scanner.
ReadAnswer ==
    /\ at = "stream" /\ streamed = Chunks
    /\ at' = "scanned" /\ scan' = Result
    /\ live' = (live /\ says.clamd # "hangs")
    /\ UNCHANGED <<asked, body, spf, verdict, streamed, hold, row, reply>>

ActOnScan ==
    /\ at = "scanned"
    /\ \/ scan = "infected" /\ cfg.clam = "reject" /\ Refuse("554")
       \/ /\ ~(scan = "infected" /\ cfg.clam = "reject")
          /\ Goto("auth") /\ hold' = IF scan = "infected" THEN "malware" ELSE hold
          /\ UNCHANGED <<verdict, scan>>

-----------------------------------------------------------------------------
(* SPF in the background, and the results put together.                    *)

\* Mutant: the result of SPF is sent on a channel without a buffer
SPFUnbuffered ==
    /\ spf = "running" /\ spf' = (IF at = "end" THEN "blocked" ELSE "sent")
    /\ UNCHANGED <<asked, at, live, body, verdict, streamed, scan, hold, row, reply>>

\* The lookup ends by its own timeout; its channel has room for the result, also
\* when nobody waits for it any more.
SPF ==
    /\ spf = "running" /\ spf' = "sent"
    /\ UNCHANGED <<asked, at, live, body, verdict, streamed, scan, hold, row, reply>>

\* checkAuth waits for it.
CheckAuth ==
    /\ at = "auth" /\ spf \in {"off", "sent"}
    /\ Goto("enqueue") /\ UNCHANGED <<verdict, scan, hold>>

\* A signature counts only when the key could be looked up before the deadline.
Authenticates == cfg.auth /\ (says.auth = "spf" \/ (says.auth = "dkim" /\ live))

Enqueue ==
    /\ at = "enqueue" /\ live
    /\ at' = "quarantine"
    /\ row' = [queued |-> TRUE, held |-> FALSE, scan |-> scan, scored |-> ~verdict.skipped,
               authenticated |-> Authenticates]
    /\ UNCHANGED <<asked, live, body, spf, verdict, streamed, scan, hold, reply>>

\* A statement fails, as all of them do once the deadline has passed.
EnqueueFails ==
    /\ at = "enqueue" /\ (~live \/ TRUE \in StoreFails)
    /\ Refuse("451 store")

\* The message is accepted also when the second statement fails.
Quarantine ==
    /\ at = "quarantine"
    /\ \E fails \in StoreFails : row' = [row EXCEPT !.held = hold # "" /\ ~fails]
    /\ at' = "end" /\ reply' = "250"
    /\ UNCHANGED <<asked, live, body, spf, verdict, streamed, scan, hold>>

InspectionNext ==
    \/ Evaluate \/ CheckSpam \/ ActOnSpam \/ BeginScan \/ StreamChunk \/ ReadAnswer \/ ActOnScan
    \/ SPF \/ CheckAuth \/ Enqueue \/ EnqueueFails \/ Quarantine

InspectionSpec == InspectionInit /\ [][InspectionNext]_vars

-----------------------------------------------------------------------------
(* Properties.                                                             *)

\* A row says "clean" only for a body clamd was sent to the last byte and found
\* nothing in ("an unscanned message is never mistaken for a clean one"), and the
\* other way round what clamd finds is on the row.
ScanIsTruthful ==
    row.queued => /\ row.scan = "clean" => says.clamd = "ok" /\ streamed = Chunks /\ ~cfg.clamBig
                  /\ streamed = Chunks /\ Chunks > 0 /\ says.clamd = "found" => row.scan = "infected"

\* What a configured check decided is done: a message that is answered 250 was not
\* rejected by a filter, by rspamd with its rejections enabled (also when it did
\* not run its whole chain), or by clamd, and it is held when one of them wants it.
VerdictsAreHonoured ==
    reply = "250" =>
        /\ says.filter # "reject"
        /\ cfg.spam /\ cfg.spamReject /\ ~cfg.spamBig /\ ~says.rspamd.down => says.rspamd.action # "reject"
        /\ cfg.clam = "reject" /\ ~cfg.clamBig => says.clamd # "found"
        /\ row.queued /\ body
        /\ LET wanted == \/ says.filter = "quarantine"
                         \/ cfg.clam = "quarantine" /\ ~cfg.clamBig /\ says.clamd = "found"
           IN (row.held => wanted) /\ (wanted /\ TRUE \notin StoreFails => row.held)

\* A scanner that is down, slow or broken never costs mail: a message is refused
\* only because a check that answered says so, or the database failed
\* ("failing open on every error path").
FailsOpen ==
    reply \notin {"", "250"} =>
        \/ says.filter = "reject"
        \/ ~says.rspamd.down /\ says.rspamd.action \in {"reject", "soft reject", "greylist"}
        \/ says.clamd = "found"
        \/ reply = "451 store" /\ TRUE \in StoreFails

\* Every transaction is answered, and no goroutine is left behind by the ones that
\* were refused before SPF had its answer.
TransactionsEnd == <>(at = "end" /\ spf \in {"off", "sent"})

-----------------------------------------------------------------------------
(* Why that holds: the inductive invariant.                                *)

\* Data goes on, or has accepted the message.
Going == at # "end" \/ reply = "250"

CheckTypes ==
    /\ cfg \in Config /\ streamed \in 0..Chunks
    /\ at \in {"filters", "spam", "spammed", "malware", "stream", "scanned", "auth", "enqueue", "quarantine", "end"}
    /\ (at # "end" <=> reply = "")
    /\ says.clamd \in Clamd /\ ("hangs" \notin Clamd => live)
    /\ scan \in {"", "skipped", "failed", "clean", "infected"}
    /\ row \in [queued : BOOLEAN, held : BOOLEAN, scan : {"", "skipped", "failed", "clean", "infected"},
               scored : BOOLEAN, authenticated : BOOLEAN]

\* A message that goes on was rejected by none of the checks it is past, and the
\* verdict is the one rspamd gave.
PassedInv ==
    /\ Going /\ at # "filters" => says.filter # "reject" /\ (says.filter = "quarantine" => hold # "")
    /\ verdict.action \in {"reject", "soft reject", "greylist"} =>
          ~says.rspamd.down /\ says.rspamd.action = verdict.action
    /\ Going /\ at \notin {"filters", "spam"} /\ cfg.spam /\ cfg.spamReject /\ ~cfg.spamBig /\ ~says.rspamd.down
          /\ says.rspamd.action = "reject" => at = "spammed" /\ verdict.action = "reject"

\* The result of a scan is that of the whole body, and what was found is held,
\* unless it is refused.
ScanInv ==
    /\ at \in {"filters", "spam", "spammed", "malware"} => streamed = 0 /\ scan = ""
    /\ at = "stream" => scan = "" /\ says.clamd # "offline" /\ cfg.clam # "off" /\ ~cfg.clamBig
    /\ scan = "clean" => says.clamd = "ok" /\ streamed = Chunks /\ ~cfg.clamBig
    /\ scan = "infected" => says.clamd = "found" /\ cfg.clam # "off" /\ ~cfg.clamBig
    /\ at = "scanned" => scan = Result /\ cfg.clam # "off" /\ ~cfg.clamBig
    /\ Going /\ at \in {"auth", "enqueue", "quarantine", "end"} /\ says.clamd = "found" =>
          /\ cfg.clam # "off" /\ ~cfg.clamBig => scan = "infected" /\ cfg.clam = "quarantine" /\ hold # ""
          /\ streamed = Chunks /\ Chunks > 0 => scan = "infected"
    /\ hold # "" => \/ says.filter = "quarantine"
                    \/ cfg.clam = "quarantine" /\ ~cfg.clamBig /\ says.clamd = "found"

\* The row is that of the message, held when there is a reason to.
RowInv ==
    /\ Going => body
    /\ row.queued <=> at = "quarantine" \/ (at = "end" /\ reply = "250")
    /\ row.queued => row.scan = scan
    /\ row.held => hold # "" /\ at = "end"
    /\ reply = "250" /\ hold # "" /\ TRUE \notin StoreFails => row.held

\* A refusal has its reason.
ReasonInv ==
    reply \notin {"", "250"} =>
        \/ says.filter = "reject"
        \/ ~says.rspamd.down /\ says.rspamd.action \in {"reject", "soft reject", "greylist"}
        \/ says.clamd = "found"
        \/ reply = "451 store" /\ (TRUE \in StoreFails \/ ~live)

CheckInv == CheckTypes /\ PassedInv /\ ScanInv /\ RowInv /\ ReasonInv
==============================================================================
