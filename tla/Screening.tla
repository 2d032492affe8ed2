------------------------------ MODULE Screening ------------------------------
(***************************************************************************)
(* What port 25 asks before it takes a message: the block lists about the  *)
(* client (Dnsbl), the checks of the message (Inspection) and the content  *)
(* filters (Filters).  They share no state; here are their instances, for  *)
(* any zones, configuration and filters, and what is promised of each.     *)
(***************************************************************************)
EXTENDS Integers, Sequences, FiniteSets

CONSTANTS Zone, ZoneAnswer                                               \* Dnsbl
VARIABLES call, address, answer, lookup, ctx, ch, closed, heard, details, result
Lists == INSTANCE Dnsbl WITH Answer <- ZoneAnswer

CONSTANTS FilterAnswer, Rspamd, Clamd, Chunks, StoreFails                \* Inspection
VARIABLES cfg, says, at, live, body, spf, verdict, streamed, scan, hold, row, reply
Checks == INSTANCE Inspection WITH Filter <- FilterAnswer

CONSTANTS FilterId, Pattern, Action, Priority, Admin, Message, Sweep, MaxChanges, MaxRestarts, MaxFails \* Filters
VARIABLES table, matches, lastId, rules, load, req, walk, tables, inForce, changes, restarts, fails
Rules == INSTANCE Filters WITH Id <- FilterId, Session <- Message

ASSUME ScreeningAssumption == Lists!DnsblBounds /\ Checks!InspectionBounds /\ Rules!FiltersBounds

\* In whatever order the goroutines answer, an address is refused exactly for a
\* zone that listed it before the deadline, and the detailed check answers with
\* every zone and says which lookups failed (dnsbl.go, Check, CheckDetailed).
ListingsAreHonoured == Lists!ListingsAreHonoured

\* A message that is answered 250 was rejected by no check that is configured to
\* reject, and is held when one of them wants it; its row says "clean" only for a
\* body that clamd was sent to the last byte; and a scanner that is down or broken
\* costs no mail, unless it accepts a body and never answers (smtpd.go, Data;
\* spam.go; clamav.go, Scan).
VerdictsAreHonoured ==
    /\ Checks!VerdictsAreHonoured /\ Checks!ScanIsTruthful
    /\ "hangs" \notin Clamd => Checks!FailsOpen

\* A verdict of the filters is that of one table, although the rules are replaced
\* while sessions walk through them, and no match is lost when filters are edited
\* while mail is received (filter.go, Evaluate, Load; UpdateFilter).
FiltersAreConsistent == Rules!FiltersAreConsistent
==============================================================================
