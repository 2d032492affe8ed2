------------------------------ MODULE TimeText ------------------------------
(***************************************************************************)
(* Times in the database (store/store.go): RFC3339Nano text in UTC, which  *)
(* leaves out the zeros at the end of the fraction, compared as text by    *)
(* the statements.  A message waits here for its next_retry_at.  A time is *)
(* a number of ticks; a text is a sequence of character codes, of which    *)
(* the date is left out and seconds and fraction are kept.                 *)
(***************************************************************************)
EXTENDS Naturals, Sequences, FiniteSetsExt

CONSTANTS Base,     \* digits: 10 in the code
          Places,   \* digits of the fraction: 9 in the code
          Width,    \* digits of the seconds, padded with zeros
          Backoff   \* ticks a deferred message may have to wait

TimeBounds == Base \in 2..10 /\ Places \in Nat \ {0} /\ Width \in Nat \ {0} /\ Backoff \subseteq Nat

VARIABLES now,   \* the clock
          row,   \* status and next_retry_at, as text, of one message
          due,   \* history: the time that text was made from
          taken  \* history: when the row was claimed
vars == <<now, row, due, taken>>

Power[k \in 0..Width + Places] == IF k = 0 THEN 1 ELSE Base * Power[k - 1]
Second == Power[Places]
Time == 0 .. Power[Width] * Second - 1

-----------------------------------------------------------------------------
(* Text.                                                                   *)

Dot == 46
Zero == 48
Zulu == 90

Digits(n, w) == [i \in 1..w |-> Zero + ((n \div Power[w - i]) % Base)]
Trim(s) == SubSeq(s, 1, Max({0} \union {i \in DOMAIN s : s[i] # Zero}))
Fraction(t) == LET s == Trim(Digits(t % Second, Places)) IN IF s = <<>> THEN s ELSE <<Dot>> \o s

FormatTime(t) == Digits(t \div Second, Width) \o Fraction(t) \o <<Zulu>>

\* The number of w digits, of which those that s lacks at its end are zeros: the
\* digits of the fraction count from its beginning.
Value(s, w) ==
    LET value[n \in 0..w] ==
          IF n = 0 THEN 0 ELSE value[n - 1] * Base + (IF n <= Len(s) THEN s[n] - Zero ELSE 0)
    IN value[w]

ParseTime(x) ==
    LET f == IF x[Width + 1] = Dot THEN SubSeq(x, Width + 2, Len(x) - 1) ELSE <<>>
    IN Value(SubSeq(x, 1, Width), Width) * Second + Value(f, Places)

\* x <= y for SQLite: the first place where they differ, the end coming first.
TextLE(x, y) ==
    \/ Len(x) <= Len(y) /\ x = SubSeq(y, 1, Len(x))
    \/ \E i \in DOMAIN x \intersect DOMAIN y : SubSeq(x, 1, i - 1) = SubSeq(y, 1, i - 1) /\ x[i] < y[i]

-----------------------------------------------------------------------------
(* One message and the clock.                                              *)

TimeInit ==
    /\ now \in Time /\ due \in Time /\ taken = now
    /\ row = [status |-> "queued", retry |-> FormatTime(due)]

\* Mutant: only the leading digit is compared
DueByDay(x, t) == x[1] <= FormatTime(t)[1]

\* ClaimBatch: next_retry_at <= now.
Due(x, t) == TextLE(x, FormatTime(t))

ClaimBatch ==
    /\ row.status = "queued" /\ Due(row.retry, now)
    /\ row' = [row EXCEPT !.status = "delivering"] /\ taken' = now
    /\ UNCHANGED <<now, due>>

Reschedule ==
    /\ row.status = "delivering"
    /\ \E b \in Backoff :
          /\ now + b \in Time /\ due' = now + b
          /\ row' = [status |-> "queued", retry |-> FormatTime(now + b)]
    /\ UNCHANGED <<now, taken>>

TimePasses == now + 1 \in Time /\ now' = now + 1 /\ UNCHANGED <<row, due, taken>>

TimeNext == ClaimBatch \/ Reschedule \/ TimePasses
TimeSpec == TimeInit /\ [][TimeNext]_vars

-----------------------------------------------------------------------------
(* Properties.                                                             *)

\* The order of the texts is not the order of the times within a second ("0.5Z"
\* comes before "0Z"), but it is across seconds: a message is never claimed in an
\* earlier second than its next_retry_at ...
NotBeforeItsSecond == row.status = "delivering" => taken \div Second >= due \div Second

\* ... and one whose second is over can be claimed.
NotAfterItsSecond ==
    row.status = "queued" /\ now \div Second > due \div Second => Due(row.retry, now)

\* What is read back is what was written, to the last digit of the fraction.
ReadBack == ParseTime(row.retry) = due

-----------------------------------------------------------------------------
(* The inductive invariant: the text is that of the time it was made from, *)
(* and a claim came when the text of that moment was not before it.        *)

TimeInv ==
    /\ now \in Time /\ due \in Time /\ taken \in Time
    /\ row \in [status : {"queued", "delivering"}, retry : {FormatTime(due)}]
    /\ NotBeforeItsSecond
=============================================================================
