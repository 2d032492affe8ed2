-------------------------------- MODULE Dnsbl --------------------------------
(***************************************************************************)
(* dnsbl/dnsbl.go: one goroutine per zone looks an address up, with a      *)
(* common deadline; Check returns at the first listing, CheckDetailed      *)
(* waits for all of them.  A zone answers with addresses or an error; what *)
(* matters of an answer is whether it holds a listing code.                *)
(***************************************************************************)
EXTENDS Naturals, Sequences, FiniteSets

CONSTANTS Zone,   \* the configured zones
          Answer  \* "listed", "resolver" (127.255.255.x), "notfound", "error", "silent"

DnsblBounds == IsFiniteSet(Zone)

VARIABLES call,     \* "check" or "detailed"
          address,  \* "public", "whitelisted" or "invalid"
          answer,   \* [Zone -> what its servers answer]
          lookup,   \* [Zone -> "new", "running", "answered", "done"]
          ctx,      \* the deadline has not passed and nobody cancelled
          ch,       \* the channel of Check
          closed,   \* and whether it was closed
          heard,    \* zones whose listing came before the deadline
          details,  \* what CheckDetailed collects
          result    \* [at, listed, zone]

vars == <<call, address, answer, lookup, ctx, ch, closed, heard, details, result>>

Pending == [at |-> "pending", listed |-> FALSE, zone |-> ""]

DnsblInit ==
    /\ call \in {"check", "detailed"} /\ address \in {"public", "whitelisted", "invalid"}
    /\ answer \in [Zone -> Answer]
    /\ lookup = [z \in Zone |-> "new"] /\ ctx = TRUE
    /\ ch = <<>> /\ closed = FALSE /\ heard = {} /\ details = {} /\ result = Pending

Return(r) == result' = [r EXCEPT !.at = "returned"]

\* An address that cannot be parsed, or is on the whitelist, is not looked up.
Bypass ==
    /\ result.at = "pending" /\ address # "public" /\ Return(result)
    /\ UNCHANGED <<call, address, heard, answer, lookup, ctx, ch, closed, details>>

Go(z) ==
    /\ result.at = "pending" /\ address = "public" /\ lookup[z] = "new"
    /\ lookup' = [lookup EXCEPT ![z] = "running"]
    /\ UNCHANGED <<call, address, heard, answer, ctx, ch, closed, details, result>>

\* isListingCode
IsListing(a) == a = "listed"

\* Every lookup that has begun ends with an answer or with the deadline.
LookupHost(z) ==
    /\ lookup[z] = "running"
    /\ \/ /\ ctx /\ answer[z] # "silent" /\ lookup' = [lookup EXCEPT ![z] = "answered"]
          /\ heard' = IF answer[z] = "listed" THEN heard \union {z} ELSE heard
          /\ UNCHANGED details
       \/ /\ ~ctx /\ lookup' = [lookup EXCEPT ![z] = "done"]
          /\ details' = IF call = "detailed" THEN details \union {[zone |-> z, listed |-> FALSE, error |-> TRUE]}
                        ELSE details
          /\ UNCHANGED heard
    /\ UNCHANGED <<call, address, answer, ctx, ch, closed, result>>

Finish(z) == lookup' = [lookup EXCEPT ![z] = "done"]

\* Mutant: a channel without a buffer
SendUnbuffered(z) ==
    /\ call = "check" /\ lookup[z] = "answered" /\ Finish(z)
    /\ \/ IsListing(answer[z]) /\ ch = <<>> /\ result = Pending /\ ch' = Append(ch, z)
       \/ UNCHANGED ch
    /\ UNCHANGED <<call, address, heard, answer, ctx, closed, details, result>>

\* Check: a send on the buffered channel, which gives up rather than waits.
Send(z) ==
    /\ call = "check" /\ lookup[z] = "answered" /\ Finish(z)
    /\ ch' = IF IsListing(answer[z]) /\ Len(ch) < Cardinality(Zone) THEN Append(ch, z) ELSE ch
    /\ UNCHANGED <<call, address, heard, answer, ctx, closed, details, result>>

\* CheckDetailed: under the mutex; the first listing is the one reported.
Collect(z) ==
    /\ call = "detailed" /\ lookup[z] = "answered" /\ Finish(z)
    /\ details' = details \union {[zone |-> z, listed |-> IsListing(answer[z]), error |-> answer[z] = "error"]}
    /\ result' = IF IsListing(answer[z]) /\ ~result.listed THEN [result EXCEPT !.listed = TRUE, !.zone = z]
                 ELSE result
    /\ UNCHANGED <<call, address, heard, answer, ctx, ch, closed>>

AllDone == address = "public" /\ \A z \in Zone : lookup[z] = "done"

CloseChannel ==
    /\ call = "check" /\ AllDone /\ ~closed /\ closed' = TRUE
    /\ UNCHANGED <<call, address, heard, answer, lookup, ctx, ch, details, result>>

\* The loop over the channel, which all goroutines were started before; what is
\* still running is cancelled when Check returns.
Receive ==
    /\ call = "check" /\ result.at = "pending" /\ \A z \in Zone : lookup[z] # "new"
    /\ \/ /\ ch # <<>> /\ ch' = Tail(ch)
          /\ Return([result EXCEPT !.listed = TRUE, !.zone = Head(ch)])
       \/ ch = <<>> /\ closed /\ Return(result) /\ UNCHANGED ch
    /\ ctx' = FALSE
    /\ UNCHANGED <<call, address, heard, answer, lookup, closed, details>>

Wait ==
    /\ call = "detailed" /\ result.at = "pending" /\ AllDone /\ Return(result) /\ ctx' = FALSE
    /\ UNCHANGED <<call, address, heard, answer, lookup, ch, closed, details>>

Timeout ==
    /\ ctx /\ ctx' = FALSE
    /\ UNCHANGED <<call, address, heard, answer, lookup, ch, closed, details, result>>

DnsblNext ==
    \/ Bypass \/ CloseChannel \/ Receive \/ Wait \/ Timeout
    \/ \E z \in Zone : Go(z) \/ LookupHost(z) \/ Send(z) \/ Collect(z)

DnsblSpec == DnsblInit /\ [][DnsblNext]_vars

\* What is fair: goroutines run and the deadline passes.
Decides == Bypass \/ Receive \/ Wait
LooksUp(z) == Go(z) \/ LookupHost(z) \/ Send(z) \/ Collect(z)

-----------------------------------------------------------------------------
(* Properties.                                                             *)

\* An address is passed only when no zone listed it before the deadline: no result
\* is lost between the goroutines and the one that decides, in whatever order they
\* come.  Lookups that were cut off count for nothing.
NoListingIsLost == result.at = "returned" /\ ~result.listed => heard = {}

\* An address is refused only for a zone that lists it: failed and late lookups
\* and the answers for open resolvers never do ("are not mistaken for a listing").
RefusedIsListed == result.listed => answer[result.zone] = "listed"

\* A detail of a zone that says what became of its lookup
Tells(d, z) ==
    d.zone = z /\ (d.listed <=> z \in heard) /\ (answer[z] \in {"error", "silent"} => d.error)

\* CheckDetailed answers with every zone, and says which lookups failed.
DetailsAreComplete ==
    call = "detailed" /\ address = "public" /\ result.at = "returned" =>
        \A z \in Zone : \E d \in details : Tells(d, z)

\* What a block list promises, of either call.
ListingsAreHonoured == NoListingIsLost /\ RefusedIsListed /\ DetailsAreComplete

\* Check returns, and every goroutine it started ends, also those whose answer
\* comes when it has returned.
LookupsEnd == <>(result.at = "returned" /\ \A z \in Zone : lookup[z] \in {"new", "done"})

-----------------------------------------------------------------------------
(* Why that holds: the inductive invariant.                                *)

ListTypes ==
    /\ call \in {"check", "detailed"} /\ ctx \in BOOLEAN /\ closed \in BOOLEAN
    /\ lookup \in [Zone -> {"new", "running", "answered", "done"}]
    /\ heard \subseteq Zone /\ ch \in Seq(Zone)
    /\ result \in [at : {"pending", "returned"}, listed : BOOLEAN, zone : Zone \union {""}]

\* A zone counts as heard when its lookup has ended with a listing; an address
\* that is not public is not looked up.
HeardInv ==
    /\ \A z \in heard : answer[z] = "listed" /\ lookup[z] \in {"answered", "done"}
    /\ \A z \in Zone : lookup[z] = "answered" => answer[z] # "silent" /\ (answer[z] = "listed" => z \in heard)
    /\ address # "public" => \A z \in Zone : lookup[z] = "new"

\* The channel holds each zone once, and only zones whose goroutine is done: so
\* that it has room for the one that is about to send.
ChannelInv ==
    /\ \A i \in 1..Len(ch) : lookup[ch[i]] = "done" /\ answer[ch[i]] = "listed"
    /\ \A i, j \in 1..Len(ch) : ch[i] = ch[j] => i = j
    /\ closed => \A z \in Zone : lookup[z] = "done"

\* What was heard and is not on its way any more is in the channel or in the
\* result.
KeptInv ==
    \A z \in heard : lookup[z] = "done" =>
        result.listed \/ (call = "check" /\ \E i \in 1..Len(ch) : ch[i] = z)

\* CheckDetailed has a detail of every zone that is done.
DetailInv ==
    call = "detailed" => \A z \in Zone : lookup[z] = "done" => \E d \in details : Tells(d, z)

ResultInv ==
    /\ result.listed => result.zone \in Zone /\ answer[result.zone] = "listed"
    /\ result.at = "returned" /\ address = "public" /\ (call = "detailed" \/ ~result.listed)
          => \A z \in Zone : lookup[z] = "done"
    /\ result.at = "returned" /\ ~result.listed => heard = {}

ListInv == ListTypes /\ HeardInv /\ ChannelInv /\ KeptInv /\ DetailInv /\ ResultInv
==============================================================================
