--------------------------- MODULE ReceptionProofs ---------------------------
(***************************************************************************)
(* Block lists, the checks of a message and the content filters, for any   *)
(* number of zones, any configuration, any size of a body and any filters: *)
(* whatever order the goroutines answer in, no listing is lost and nobody  *)
(* is refused without one; what the checks decided is what happens to the  *)
(* message; and a verdict of the filters is that of one table.  The        *)
(* inductive invariants are with the modules, Dnsbl, Inspection, Filters.  *)
(***************************************************************************)
EXTENDS Screening, FiniteSetTheorems, TLAPS

-----------------------------------------------------------------------------
(* Block lists.                                                            *)

\* Sequences of distinct members of a finite set, one of which they leave out,
\* are shorter than the set is large: a buffer with one place per zone has room.
LEMMA RoomForOneMore ==
  ASSUME NEW S, IsFiniteSet(S), NEW s \in Seq(S), NEW x \in S,
         \A i \in 1..Len(s) : s[i] # x,
         \A i, j \in 1..Len(s) : s[i] = s[j] => i = j
  PROVE  Len(s) < Cardinality(S)
<1> DEFINE T == S \ {x}
<1>1. IsFiniteSet(T) /\ Cardinality(T) = Cardinality(S) - 1 /\ Cardinality(S) \in Nat
  BY FS_RemoveElement, FS_CardinalityType
<1>2. IsFiniteSet(1..Len(s)) /\ Cardinality(1..Len(s)) = Len(s)
  <2>1. Len(s) \in Nat /\ Len(s) \in Int /\ 1 \in Int
    OBVIOUS
  <2>2. /\ IsFiniteSet(1..Len(s))
        /\ Cardinality(1..Len(s)) = IF 1 > Len(s) THEN 0 ELSE Len(s) - 1 + 1
    BY <2>1, FS_Interval, Zenon
  <2> QED
    BY <2>1, <2>2
<1>3. s \in Injection(1..Len(s), T)
  BY DEF Injection, IsInjective
<1>4. Cardinality(1..Len(s)) <= Cardinality(T)
  BY <1>1, <1>2, <1>3, FS_Injection DEF ExistsInjection
<1> QED
  BY <1>1, <1>2, <1>4

\* Dnsbl counts as this module does
LEMMA SameCount == /\ Lists!IsFiniteSet(Zone) <=> IsFiniteSet(Zone)
                   /\ Lists!Cardinality(Zone) = Cardinality(Zone)
BY Zenon DEF Lists!IsFiniteSet, IsFiniteSet, Lists!Cardinality, Cardinality

\* Before a lookup nobody listed the client.
LEMMA InitLists == Lists!DnsblInit => Lists!ListInv
<1> SUFFICES ASSUME Lists!DnsblInit PROVE Lists!ListInv
  OBVIOUS
<1>0. /\ call \in {"check", "detailed"} /\ ctx = TRUE /\ closed = FALSE
      /\ lookup = [z \in Zone |-> "new"] /\ ch = <<>> /\ heard = {}
      /\ result = [at |-> "pending", listed |-> FALSE, zone |-> ""]
  BY DEF Lists!DnsblInit, Lists!Pending
<1>1. Lists!ListTypes
  <2>1. result \in [at : {"pending", "returned"}, listed : BOOLEAN, zone : Zone \union {""}]
    BY <1>0
  <2>2. lookup \in [Zone -> {"new", "running", "answered", "done"}]
    BY <1>0
  <2>3. <<>> \in Seq(Zone)
    OBVIOUS
  <2> QED
    BY <1>0, <2>1, <2>2, <2>3 DEF Lists!ListTypes
<1>n. \A z \in Zone : lookup[z] = "new"
  BY <1>0
<1>l. ~result.listed /\ result.at = "pending"
  BY <1>0
<1>2. Lists!HeardInv
  BY <1>0, <1>n DEF Lists!HeardInv
<1>3. Lists!ChannelInv
  <2>0. Len(ch) = 0
    BY <1>0
  <2>1. 1..Len(ch) = {}
    BY <2>0
  <2>2. ~closed
    BY <1>0
  <2> QED
    BY <2>1, <2>2 DEF Lists!ChannelInv
<1>4. Lists!KeptInv
  BY <1>0 DEF Lists!KeptInv
<1>6. Lists!DetailInv
  BY <1>n DEF Lists!DetailInv
<1>5. Lists!ResultInv
  BY <1>l DEF Lists!ResultInv
<1> QED
  BY <1>1, <1>2, <1>3, <1>4, <1>5, <1>6 DEF Lists!ListInv

\* What an update of the result changes
LEMMA ListReturn ==
  ASSUME Lists!ListTypes, NEW r, r \in [at : {"pending", "returned"}, listed : BOOLEAN, zone : Zone \union {""}],
         Lists!Return(r)
  PROVE  /\ result' \in [at : {"pending", "returned"}, listed : BOOLEAN, zone : Zone \union {""}]
         /\ result'.at = "returned" /\ result'.listed = r.listed /\ result'.zone = r.zone
BY DEF Lists!Return, Lists!ListTypes

\* A lookup goes on
LEMMA ListLookup ==
  ASSUME Lists!ListTypes, NEW z \in Zone, NEW w \in {"new", "running", "answered", "done"},
         lookup' = [lookup EXCEPT ![z] = w]
  PROVE  /\ lookup' \in [Zone -> {"new", "running", "answered", "done"}]
         /\ lookup'[z] = w /\ \A y \in Zone : y # z => lookup'[y] = lookup[y]
BY DEF Lists!ListTypes

\* The channel holds zones whose goroutine is done
LEMMA ListChannel ==
  ASSUME Lists!ListInv
  PROVE  /\ ch \in Seq(Zone) /\ \A i \in 1..Len(ch) : ch[i] \in Zone
         /\ \A i \in 1..Len(ch) : lookup[ch[i]] = "done" /\ answer[ch[i]] = "listed"
         /\ \A i, j \in 1..Len(ch) : ch[i] = ch[j] => i = j
         /\ \A z \in Zone : lookup[z] # "done" => ~closed
<1>1. ch \in Seq(Zone)
  BY DEF Lists!ListInv, Lists!ListTypes
<1>2. \A i \in 1..Len(ch) : ch[i] \in Zone
  BY <1>1
<1> QED
  BY <1>1, <1>2 DEF Lists!ListInv, Lists!ChannelInv

\* The call returns without a lookup, or after the last one
LEMMA ListEnds ==
  ASSUME Lists!ListInv, Lists!Return(result), ctx' \in BOOLEAN,
         UNCHANGED <<call, address, answer, lookup, ch, closed, heard, details>>,
         address = "public" => \A z \in Zone : lookup[z] = "done",
         call = "check" => ch = <<>>
  PROVE  Lists!ListInv'
<1>0. Lists!ListTypes
  BY DEF Lists!ListInv
<1>1. /\ result' \in [at : {"pending", "returned"}, listed : BOOLEAN, zone : Zone \union {""}]
      /\ result'.listed = result.listed /\ result'.zone = result.zone
  BY <1>0, ListReturn DEF Lists!ListTypes
<1>2. Lists!ListTypes' /\ Lists!HeardInv' /\ Lists!ChannelInv'
  <2>1. Lists!ListTypes'
    BY <1>0, <1>1 DEF Lists!ListTypes
  <2>2. Lists!HeardInv'
    BY DEF Lists!ListInv, Lists!HeardInv
  <2>3. Lists!ChannelInv'
    BY DEF Lists!ListInv, Lists!ChannelInv
  <2> QED
    BY <2>1, <2>2, <2>3
<1>3. Lists!KeptInv'
  BY <1>1 DEF Lists!ListInv, Lists!KeptInv
<1>d. Lists!DetailInv'
  BY DEF Lists!ListInv, Lists!DetailInv, Lists!Tells
<1>4. ~result.listed => heard = {}
  <2>1. SUFFICES ASSUME NEW z \in heard, ~result.listed PROVE FALSE
    OBVIOUS
  <2>2. z \in Zone /\ lookup[z] \in {"answered", "done"}
    BY <1>0 DEF Lists!ListInv, Lists!ListTypes, Lists!HeardInv
  <2>3. lookup[z] = "done"
    BY <2>2 DEF Lists!ListInv, Lists!HeardInv
  <2>4. call = "check" /\ \E i \in 1..Len(ch) : ch[i] = z
    BY <2>1, <2>3 DEF Lists!ListInv, Lists!KeptInv
  <2>5. Len(ch) = 0
    BY <2>4
  <2> QED
    BY <2>4, <2>5
<1>5. Lists!ResultInv'
  BY <1>1, <1>4 DEF Lists!ListInv, Lists!ResultInv
<1> QED
  BY <1>2, <1>3, <1>d, <1>5 DEF Lists!ListInv

\* A goroutine starts, or its lookup ends
LEMMA ListLooksUp ==
  ASSUME Lists!ListInv, NEW z \in Zone, Lists!Go(z) \/ Lists!LookupHost(z)
  PROVE  Lists!ListInv'
<1>0. Lists!ListTypes /\ UNCHANGED <<call, address, answer, ctx, ch, closed, result>>
  BY DEF Lists!ListInv, Lists!Go, Lists!LookupHost
<1>1. /\ lookup' \in [Zone -> {"new", "running", "answered", "done"}]
      /\ \A y \in Zone : y # z => lookup'[y] = lookup[y]
      /\ lookup[z] \in {"new", "running"} /\ lookup'[z] \in {"running", "answered", "done"}
      /\ lookup[z] = "new" => lookup'[z] = "running" /\ address = "public" /\ result.at = "pending"
  BY <1>0 DEF Lists!Go, Lists!LookupHost, Lists!ListTypes
<1>2. /\ address = "public" /\ z \notin heard /\ ~closed
      /\ \A i \in 1..Len(ch) : ch[i] \in Zone /\ ch[i] # z
  <2>1. address = "public" /\ z \notin heard
    BY <1>1 DEF Lists!ListInv, Lists!HeardInv
  <2> QED
    BY <1>1, <2>1, ListChannel
<1>3. \/ heard' = heard /\ ~(lookup'[z] = "answered" /\ answer[z] = "listed")
      \/ heard' = heard \union {z} /\ lookup'[z] = "answered" /\ answer[z] = "listed"
  BY <1>0, <1>1 DEF Lists!Go, Lists!LookupHost, Lists!ListTypes
<1>4. lookup'[z] = "answered" => answer[z] # "silent"
  BY <1>0, <1>1 DEF Lists!Go, Lists!LookupHost, Lists!ListTypes
<1>5. result.at = "returned" => result.listed /\ call = "check"
  BY <1>0, <1>1, <1>2 DEF Lists!ListInv, Lists!ListTypes, Lists!ResultInv
<1>6. Lists!ListTypes'
  BY <1>0, <1>1, <1>3 DEF Lists!ListTypes
<1>7. Lists!HeardInv'
  BY <1>0, <1>1, <1>2, <1>3, <1>4 DEF Lists!ListInv, Lists!ListTypes, Lists!HeardInv
<1>8. Lists!ChannelInv'
  BY <1>0, <1>1, <1>2 DEF Lists!ListInv, Lists!ChannelInv
<1>9. Lists!KeptInv'
  <2> SUFFICES ASSUME NEW y \in heard', lookup'[y] = "done"
               PROVE  result.listed \/ (call = "check" /\ \E i \in 1..Len(ch) : ch[i] = y)
    BY <1>0 DEF Lists!KeptInv
  <2>1. y # z
    BY <1>1, <1>2, <1>3
  <2>2. y \in heard
    BY <1>3, <2>1
  <2>3. heard \subseteq Zone
    BY <1>0 DEF Lists!ListTypes
  <2> QED
    BY <1>1, <2>1, <2>2, <2>3 DEF Lists!ListInv, Lists!KeptInv
<1>10. Lists!DetailInv'
  <2> SUFFICES ASSUME call = "detailed", NEW y \in Zone, lookup'[y] = "done"
               PROVE  \E d \in details' : Lists!Tells(d, y)'
    BY <1>0 DEF Lists!DetailInv
  <2>1. CASE y = z
    <3> DEFINE d == [zone |-> z, listed |-> FALSE, error |-> TRUE]
    <3>1. d \in details' /\ heard' = heard
      BY <1>0, <1>1, <2>1 DEF Lists!Go, Lists!LookupHost, Lists!ListTypes
    <3>2. Lists!Tells(d, z)'
      BY <1>2, <3>1 DEF Lists!Tells
    <3> QED
      BY <2>1, <3>1, <3>2
  <2>2. CASE y # z
    <3>1. PICK d \in details : Lists!Tells(d, y)
      BY <1>1, <2>2 DEF Lists!ListInv, Lists!DetailInv
    <3>2. d \in details'
      BY DEF Lists!Go, Lists!LookupHost
    <3>3. Lists!Tells(d, y)'
      BY <1>0, <1>3, <2>2, <3>1 DEF Lists!Tells
    <3> QED
      BY <3>2, <3>3
  <2> QED
    BY <2>1, <2>2
<1>11. Lists!ResultInv'
  BY <1>0, <1>5 DEF Lists!ListInv, Lists!ListTypes, Lists!ResultInv
<1> QED
  BY <1>6, <1>7, <1>8, <1>9, <1>10, <1>11 DEF Lists!ListInv

\* A listing goes to the channel, which has room
LEMMA ListSends ==
  ASSUME Lists!DnsblBounds, Lists!ListInv, NEW z \in Zone, Lists!Send(z)
  PROVE  Lists!ListInv'
<1>0. Lists!ListTypes /\ UNCHANGED <<call, address, heard, answer, ctx, closed, details, result>>
  BY DEF Lists!ListInv, Lists!Send
<1>1. /\ lookup' \in [Zone -> {"new", "running", "answered", "done"}]
      /\ \A y \in Zone : y # z => lookup'[y] = lookup[y]
      /\ lookup[z] = "answered" /\ lookup'[z] = "done" /\ call = "check"
  BY <1>0, ListLookup DEF Lists!Send, Lists!Finish
<1>2. /\ ~closed /\ \A i \in 1..Len(ch) : ch[i] \in Zone /\ ch[i] # z
      /\ \A i, j \in 1..Len(ch) : ch[i] = ch[j] => i = j
      /\ \A i \in 1..Len(ch) : lookup[ch[i]] = "done" /\ answer[ch[i]] = "listed"
  BY <1>1, ListChannel
<1>3. ch \in Seq(Zone) /\ Len(ch) < Cardinality(Zone)
  <2>1. ch \in Seq(Zone) /\ IsFiniteSet(Zone)
    BY ListChannel, SameCount DEF Lists!DnsblBounds
  <2> QED
    BY <1>2, <2>1, RoomForOneMore
<1>4. /\ answer[z] = "listed" => ch' = Append(ch, z)
      /\ answer[z] # "listed" => ch' = ch
  <2>1. ch' = IF answer[z] = "listed" /\ Len(ch) < Cardinality(Zone) THEN Append(ch, z) ELSE ch
    BY SameCount DEF Lists!Send, Lists!IsListing
  <2> QED
    BY <1>3, <2>1
<1>5. ch' \in Seq(Zone)
  BY <1>3, <1>4
<1>6. /\ \A i \in 1..Len(ch) : i \in 1..Len(ch') /\ ch'[i] = ch[i]
      /\ \A i \in 1..Len(ch') : i \in 1..Len(ch) \/ (i = Len(ch') /\ ch'[i] = z /\ answer[z] = "listed")
      /\ answer[z] = "listed" => Len(ch') \in 1..Len(ch') /\ ch'[Len(ch')] = z
  <2>1. CASE answer[z] = "listed"
    BY <1>3, <1>4, <2>1
  <2>2. CASE answer[z] # "listed"
    BY <1>3, <1>4, <2>2
  <2> QED
    BY <2>1, <2>2
<1>7. Lists!ListTypes'
  BY <1>0, <1>1, <1>5 DEF Lists!ListTypes
<1>8. Lists!HeardInv'
  BY <1>0, <1>1 DEF Lists!ListInv, Lists!ListTypes, Lists!HeardInv
<1>9. Lists!ChannelInv'
  <2>1. \A i \in 1..Len(ch') : lookup'[ch'[i]] = "done" /\ answer[ch'[i]] = "listed"
    BY <1>1, <1>2, <1>6
  <2>2. \A i, j \in 1..Len(ch') : ch'[i] = ch'[j] => i = j
    BY <1>2, <1>6
  <2> QED
    BY <1>0, <1>2, <2>1, <2>2 DEF Lists!ChannelInv
<1>10. Lists!KeptInv'
  <2> SUFFICES ASSUME NEW y \in heard, lookup'[y] = "done", ~result.listed
               PROVE  \E i \in 1..Len(ch') : ch'[i] = y
    BY <1>0, <1>1 DEF Lists!KeptInv
  <2>1. CASE y = z
    BY <1>6, <2>1 DEF Lists!ListInv, Lists!HeardInv
  <2>2. CASE y # z
    <3>1. PICK i \in 1..Len(ch) : ch[i] = y
      BY <1>0, <1>1, <2>2 DEF Lists!ListInv, Lists!ListTypes, Lists!KeptInv
    <3> QED
      BY <1>6, <3>1
  <2> QED
    BY <2>1, <2>2
<1>11. Lists!DetailInv'
  BY <1>0, <1>1 DEF Lists!DetailInv
<1>12. Lists!ResultInv'
  BY <1>0, <1>1 DEF Lists!ListInv, Lists!ListTypes, Lists!ResultInv
<1> QED
  BY <1>7, <1>8, <1>9, <1>10, <1>11, <1>12 DEF Lists!ListInv

\* CheckDetailed notes what a lookup found
LEMMA ListCollects ==
  ASSUME Lists!ListInv, NEW z \in Zone, Lists!Collect(z)
  PROVE  Lists!ListInv'
<1>0. Lists!ListTypes /\ UNCHANGED <<call, address, heard, answer, ctx, ch, closed>>
  BY DEF Lists!ListInv, Lists!Collect
<1>1. /\ lookup' \in [Zone -> {"new", "running", "answered", "done"}]
      /\ \A y \in Zone : y # z => lookup'[y] = lookup[y]
      /\ lookup[z] = "answered" /\ lookup'[z] = "done" /\ call = "detailed"
  BY <1>0, ListLookup DEF Lists!Collect, Lists!Finish
<1>2. /\ answer[z] # "silent" /\ (z \in heard <=> answer[z] = "listed") /\ ~closed
      /\ address = "public" /\ result.at # "returned"
  BY <1>0, <1>1 DEF Lists!ListInv, Lists!HeardInv, Lists!ChannelInv, Lists!ResultInv
<1>3. /\ result' \in [at : {"pending", "returned"}, listed : BOOLEAN, zone : Zone \union {""}]
      /\ result'.at = result.at
      /\ result.listed => result' = result
      /\ answer[z] = "listed" => result'.listed
      /\ result'.listed => result' = result \/ (result'.zone = z /\ answer[z] = "listed")
  <2>1. CASE answer[z] = "listed" /\ ~result.listed
    <3>1. result' = [result EXCEPT !.listed = TRUE, !.zone = z]
      BY <2>1 DEF Lists!Collect, Lists!IsListing
    <3> QED
      BY <1>0, <2>1, <3>1 DEF Lists!ListTypes
  <2>2. CASE ~(answer[z] = "listed" /\ ~result.listed)
    <3>1. result' = result
      BY <2>2 DEF Lists!Collect, Lists!IsListing
    <3> QED
      BY <1>0, <2>2, <3>1 DEF Lists!ListTypes
  <2> QED
    BY <2>1, <2>2
<1>4. Lists!ListTypes'
  BY <1>0, <1>1, <1>3 DEF Lists!ListTypes
<1>5. Lists!HeardInv'
  BY <1>0, <1>1 DEF Lists!ListInv, Lists!ListTypes, Lists!HeardInv
<1>6. Lists!ChannelInv'
  <2>1. \A i \in 1..Len(ch) : ch[i] \in Zone
    BY ListChannel
  <2> QED
    BY <1>0, <1>1, <1>2, <2>1 DEF Lists!ListInv, Lists!ChannelInv
<1>7. Lists!KeptInv'
  <2> SUFFICES ASSUME NEW y \in heard, lookup'[y] = "done" PROVE result'.listed
    BY <1>0 DEF Lists!KeptInv
  <2>1. CASE y = z
    BY <1>2, <1>3, <2>1
  <2>2. CASE y # z
    <3>1. result.listed
      BY <1>0, <1>1, <2>2 DEF Lists!ListInv, Lists!ListTypes, Lists!KeptInv
    <3> QED
      BY <1>3, <3>1
  <2> QED
    BY <2>1, <2>2
<1>8. Lists!DetailInv'
  <2> SUFFICES ASSUME NEW y \in Zone, lookup'[y] = "done" PROVE \E e \in details' : Lists!Tells(e, y)'
    BY DEF Lists!DetailInv
  <2>0. PICK d : /\ d = [zone |-> z, listed |-> answer[z] = "listed", error |-> answer[z] = "error"]
                 /\ details' = details \union {d}
    BY DEF Lists!Collect, Lists!IsListing
  <2>1. CASE y = z
    <3>1. Lists!Tells(d, y)'
      BY <1>0, <1>2, <2>0, <2>1 DEF Lists!Tells
    <3> QED
      BY <2>0, <3>1
  <2>2. CASE y # z
    <3>1. PICK e \in details : Lists!Tells(e, y)
      BY <1>1, <2>2 DEF Lists!ListInv, Lists!DetailInv
    <3>2. Lists!Tells(e, y)'
      BY <1>0, <3>1 DEF Lists!Tells
    <3> QED
      BY <2>0, <3>2
  <2> QED
    BY <2>1, <2>2
<1>9. Lists!ResultInv'
  BY <1>0, <1>2, <1>3 DEF Lists!ListInv, Lists!ResultInv
<1> QED
  BY <1>4, <1>5, <1>6, <1>7, <1>8, <1>9 DEF Lists!ListInv

\* The loop over the channel takes the first listing, or finds the channel closed
LEMMA ListReceives ==
  ASSUME Lists!ListInv, Lists!Receive
  PROVE  Lists!ListInv'
<1>0. /\ Lists!ListTypes /\ UNCHANGED <<call, address, heard, answer, lookup, closed, details>>
      /\ ctx' = FALSE /\ call = "check"
  BY DEF Lists!ListInv, Lists!Receive
<1>1. CASE ch = <<>> /\ closed /\ Lists!Return(result) /\ UNCHANGED ch
  <2>1. \A z \in Zone : lookup[z] = "done"
    BY <1>1 DEF Lists!ListInv, Lists!ChannelInv
  <2> QED
    BY <1>0, <1>1, <2>1, ListEnds
<1>2. CASE ch # <<>> /\ ch' = Tail(ch) /\ Lists!Return([result EXCEPT !.listed = TRUE, !.zone = Head(ch)])
  <2>1. /\ ch \in Seq(Zone) /\ Len(ch) \in Nat \ {0} /\ 1 \in 1..Len(ch)
        /\ Head(ch) = ch[1] /\ ch[1] \in Zone /\ answer[ch[1]] = "listed"
    <3>1. ch \in Seq(Zone) /\ Len(ch) \in Nat \ {0} /\ Head(ch) = ch[1]
      BY <1>2, ListChannel
    <3>2. 1 \in 1..Len(ch)
      BY <3>1
    <3> QED
      BY <3>1, <3>2, ListChannel
  <2>2. /\ ch' \in Seq(Zone)
        /\ \A i \in 1..Len(ch') : i + 1 \in 1..Len(ch) /\ ch'[i] = ch[i + 1]
    BY <1>2, <2>1
  <2>3. /\ result' \in [at : {"pending", "returned"}, listed : BOOLEAN, zone : Zone \union {""}]
        /\ result'.listed /\ result'.zone = ch[1]
    <3> DEFINE r == [result EXCEPT !.listed = TRUE, !.zone = Head(ch)]
    <3>1. /\ r \in [at : {"pending", "returned"}, listed : BOOLEAN, zone : Zone \union {""}]
          /\ r.listed = TRUE /\ r.zone = ch[1]
      BY <1>0, <2>1 DEF Lists!ListTypes
    <3>2. Lists!Return(r)
      BY <1>2
    <3> HIDE DEF r
    <3>3. /\ result' \in [at : {"pending", "returned"}, listed : BOOLEAN, zone : Zone \union {""}]
          /\ result'.listed = r.listed /\ result'.zone = r.zone
      BY <1>0, <3>1, <3>2, ListReturn
    <3> QED
      BY <3>1, <3>3
  <2>4. Lists!ListTypes'
    BY <1>0, <2>2, <2>3 DEF Lists!ListTypes
  <2>5. Lists!HeardInv'
    BY <1>0 DEF Lists!ListInv, Lists!HeardInv
  <2>6. Lists!ChannelInv'
    <3>1. \A i \in 1..Len(ch') : lookup[ch'[i]] = "done" /\ answer[ch'[i]] = "listed"
      BY <2>2, ListChannel
    <3>2. \A i, j \in 1..Len(ch') : ch'[i] = ch'[j] => i = j
      <4> SUFFICES ASSUME NEW i \in 1..Len(ch'), NEW j \in 1..Len(ch'), ch'[i] = ch'[j] PROVE i = j
        OBVIOUS
      <4>0. /\ i + 1 \in 1..Len(ch) /\ j + 1 \in 1..Len(ch)
            /\ ch'[i] = ch[i + 1] /\ ch'[j] = ch[j + 1]
        BY <2>2
      <4>1. i + 1 = j + 1
        BY <4>0, ListChannel
      <4> QED
        BY <4>1
    <3> QED
      BY <1>0, <3>1, <3>2 DEF Lists!ListInv, Lists!ChannelInv
  <2>7. Lists!KeptInv'
    BY <2>3 DEF Lists!KeptInv
  <2>8. Lists!DetailInv'
    BY <1>0 DEF Lists!DetailInv
  <2>9. Lists!ResultInv'
    BY <1>0, <2>1, <2>3 DEF Lists!ResultInv
  <2> QED
    BY <2>4, <2>5, <2>6, <2>7, <2>8, <2>9 DEF Lists!ListInv
<1> QED
  BY <1>1, <1>2 DEF Lists!Receive

\* ListInv is inductive
LEMMA NextLists ==
  Lists!DnsblBounds /\ Lists!ListInv /\ [Lists!DnsblNext]_(Lists!vars) => Lists!ListInv'
<1> SUFFICES ASSUME Lists!DnsblBounds, Lists!ListInv, [Lists!DnsblNext]_(Lists!vars) PROVE Lists!ListInv'
  OBVIOUS
<1>1. ASSUME UNCHANGED <<call, address, heard, answer, lookup, ch, details, result>>, ctx' \in BOOLEAN,
             closed' \in BOOLEAN, closed' => closed \/ \A z \in Zone : lookup[z] = "done"
      PROVE  Lists!ListInv'
  <2>1. Lists!ListTypes' /\ Lists!HeardInv'
    BY <1>1 DEF Lists!ListInv, Lists!ListTypes, Lists!HeardInv
  <2>2. Lists!ChannelInv' /\ Lists!KeptInv'
    BY <1>1 DEF Lists!ListInv, Lists!ChannelInv, Lists!KeptInv
  <2>3. Lists!DetailInv'
    BY <1>1 DEF Lists!ListInv, Lists!DetailInv, Lists!Tells
  <2>4. Lists!ResultInv'
    BY <1>1 DEF Lists!ListInv, Lists!ResultInv
  <2> QED
    BY <2>1, <2>2, <2>3, <2>4 DEF Lists!ListInv
<1>t. ctx \in BOOLEAN /\ closed \in BOOLEAN
  BY DEF Lists!ListInv, Lists!ListTypes
<1>2. CASE Lists!Bypass
  <2>1. call = "check" => ch = <<>>
    <3>1. \A i \in 1..Len(ch) : FALSE
      BY <1>2, ListChannel DEF Lists!Bypass, Lists!ListInv, Lists!HeardInv
    <3>2. ch \in Seq(Zone) /\ Len(ch) \in Nat
      BY ListChannel
    <3>3. Len(ch) = 0
      BY <3>1, <3>2
    <3> QED
      BY <3>2, <3>3
  <2> QED
    BY <1>2, <1>t, <2>1, ListEnds DEF Lists!Bypass
<1>3. CASE Lists!Wait
  BY <1>3, ListEnds DEF Lists!Wait, Lists!AllDone
<1>4. CASE Lists!CloseChannel \/ Lists!Timeout \/ UNCHANGED Lists!vars
  <2>1. UNCHANGED <<call, address, heard, answer, lookup, ch, details, result>>
    BY <1>4 DEF Lists!CloseChannel, Lists!Timeout, Lists!vars
  <2>2. ctx' \in BOOLEAN /\ closed' \in BOOLEAN
    BY <1>4, <1>t DEF Lists!CloseChannel, Lists!Timeout, Lists!vars
  <2>3. closed' => closed \/ \A z \in Zone : lookup[z] = "done"
    BY <1>4 DEF Lists!CloseChannel, Lists!AllDone, Lists!Timeout, Lists!vars
  <2> QED
    BY <1>1, <2>1, <2>2, <2>3
<1>5. CASE Lists!Receive
  BY <1>5, ListReceives
<1>6. ASSUME NEW z \in Zone, Lists!Go(z) \/ Lists!LookupHost(z) \/ Lists!Send(z) \/ Lists!Collect(z)
      PROVE  Lists!ListInv'
  BY <1>6, ListLooksUp, ListSends, ListCollects
<1> QED
  BY <1>2, <1>3, <1>4, <1>5, <1>6 DEF Lists!DnsblNext

\* For any number of zones and in whatever order their answers come: an address is
\* passed only when no zone listed it in time, refused only for one that lists it,
\* and the detailed check has an answer of every zone (dnsbl.go, Check,
\* CheckDetailed).
THEOREM ListingsHonoured == Lists!DnsblSpec => []ListingsAreHonoured
<1>1. Lists!DnsblBounds
  BY ScreeningAssumption
<1>2. Lists!ListInv => ListingsAreHonoured
  <2> SUFFICES ASSUME Lists!ListInv PROVE ListingsAreHonoured
    OBVIOUS
  <2>1. Lists!NoListingIsLost /\ Lists!RefusedIsListed
    BY DEF Lists!ListInv, Lists!ResultInv, Lists!NoListingIsLost, Lists!RefusedIsListed
  <2>2. Lists!DetailsAreComplete
    BY DEF Lists!ListInv, Lists!ResultInv, Lists!DetailInv, Lists!DetailsAreComplete
  <2> QED
    BY <2>1, <2>2 DEF ListingsAreHonoured, Lists!ListingsAreHonoured
<1> QED
  BY InitLists, NextLists, <1>1, <1>2, PTL DEF Lists!DnsblSpec

-----------------------------------------------------------------------------
(* The checks of a message.                                                *)

\* Before the checks nothing is decided.
LEMMA InitChecks == Checks!InspectionBounds /\ Checks!InspectionInit => Checks!CheckInv
<1> SUFFICES ASSUME Checks!InspectionBounds, Checks!InspectionInit PROVE Checks!CheckInv
  OBVIOUS
<1>0. /\ at = "filters" /\ reply = "" /\ streamed = 0 /\ scan = "" /\ hold = ""
      /\ verdict.action = "none" /\ ~row.queued /\ ~row.held /\ live /\ body
  BY DEF Checks!InspectionInit, Checks!NoVerdict, Checks!NoRow
<1>r. row \in [queued : BOOLEAN, held : BOOLEAN, scan : {"", "skipped", "failed", "clean", "infected"},
             scored : BOOLEAN, authenticated : BOOLEAN]
  BY DEF Checks!InspectionInit, Checks!NoRow
<1>1. Checks!CheckTypes
  <2>1. cfg \in Checks!Config /\ says.clamd \in Clamd
    BY DEF Checks!InspectionInit
  <2>2. 0 \in 0..Chunks
    BY DEF Checks!InspectionBounds
  <2> QED
    BY <1>0, <1>r, <2>1, <2>2 DEF Checks!CheckTypes
<1>2. Checks!PassedInv /\ Checks!ScanInv
  BY <1>0 DEF Checks!PassedInv, Checks!ScanInv
<1>3. Checks!RowInv /\ Checks!ReasonInv
  BY <1>0 DEF Checks!RowInv, Checks!ReasonInv
<1> QED
  BY <1>1, <1>2, <1>3 DEF Checks!CheckInv

\* A refusal that has its reason
LEMMA RefusalChecked ==
  ASSUME Checks!CheckInv, at \notin {"quarantine", "end"}, NEW code, Checks!Refuse(code), code \notin {"", "250"},
         \/ says.filter = "reject"
         \/ ~says.rspamd.down /\ says.rspamd.action \in {"reject", "soft reject", "greylist"}
         \/ says.clamd = "found"
         \/ code = "451 store" /\ (TRUE \in StoreFails \/ ~live) /\ at = "enqueue"
  PROVE  Checks!CheckInv'

<1>0. /\ at' = "end" /\ reply' = code /\ UNCHANGED <<cfg, says, live, spf, verdict, streamed, scan, hold, row>>
      /\ ~Checks!Going'
  BY DEF Checks!Refuse, Checks!asked, Checks!Going
<1>1. Checks!CheckTypes'
  BY <1>0 DEF Checks!CheckInv, Checks!CheckTypes
<1>2. Checks!PassedInv'
  BY <1>0 DEF Checks!CheckInv, Checks!PassedInv
<1>3. Checks!ScanInv'
  BY <1>0 DEF Checks!CheckInv, Checks!ScanInv
<1>4. Checks!RowInv'
  <2>1. reply # "250" /\ reply' # "250"
    BY <1>0 DEF Checks!CheckInv, Checks!CheckTypes
  <2> QED
    BY <1>0, <2>1 DEF Checks!CheckInv, Checks!RowInv
<1>5. Checks!ReasonInv'
  BY <1>0 DEF Checks!ReasonInv
<1> QED
  BY <1>1, <1>2, <1>3, <1>4, <1>5 DEF Checks!CheckInv

\* CheckInv is inductive
LEMMA NextChecks ==
  Checks!InspectionBounds /\ Checks!CheckInv /\ [Checks!InspectionNext]_(Checks!vars) => Checks!CheckInv'
<1> SUFFICES ASSUME Checks!InspectionBounds, Checks!CheckInv, [Checks!InspectionNext]_(Checks!vars)
             PROVE  Checks!CheckInv'
  OBVIOUS
<1>t. Checks!CheckTypes /\ Chunks \in Nat
  BY DEF Checks!CheckInv, Checks!InspectionBounds
<1>1. CASE Checks!Evaluate
  <2>r. CASE says.filter = "reject"
    BY <1>1, <2>r, RefusalChecked DEF Checks!Evaluate
  <2>g. CASE ~(says.filter = "reject")
    <3>0. /\ at = "filters" /\ at' = "spam" /\ says.filter # "reject"
          /\ UNCHANGED <<cfg, says, live, body, verdict, streamed, scan, row, reply>>
          /\ hold' = IF says.filter = "quarantine" THEN "filter" ELSE ""
      BY <1>1, <2>g, <1>t DEF Checks!Evaluate, Checks!Goto, Checks!asked
    <3>g. Checks!Going /\ Checks!Going'
      BY <1>t, <3>0 DEF Checks!Going, Checks!CheckTypes
    <3>1. Checks!CheckTypes'
      BY <1>t, <3>0, <3>g DEF Checks!CheckInv, Checks!CheckTypes
    <3>2. Checks!PassedInv'
      BY <1>t, <3>0, <3>g DEF Checks!CheckInv, Checks!PassedInv
    <3>3. Checks!ScanInv'
      BY <1>t, <3>0, <3>g DEF Checks!CheckInv, Checks!ScanInv
    <3>4. Checks!RowInv'
      BY <1>t, <3>0, <3>g DEF Checks!CheckInv, Checks!RowInv, Checks!CheckTypes
    <3>5. Checks!ReasonInv'
      BY <1>t, <3>0, <3>g DEF Checks!CheckInv, Checks!ReasonInv
    <3> QED
      BY <3>1, <3>2, <3>3, <3>4, <3>5 DEF Checks!CheckInv
  <2> QED
    BY <2>r, <2>g
<1>2. CASE Checks!CheckSpam
  <2>0. /\ at = "spam" /\ at' = "spammed"
        /\ UNCHANGED <<cfg, says, live, body, streamed, scan, hold, row, reply>>
        /\ verdict' = IF ~cfg.spam \/ cfg.spamBig \/ says.rspamd.down THEN Checks!NoVerdict
                      ELSE Checks!Checked(says.rspamd)
    BY <1>2, <1>t DEF Checks!CheckSpam, Checks!Goto, Checks!asked
  <2>g. Checks!Going /\ Checks!Going'
    BY <1>t, <2>0 DEF Checks!Going, Checks!CheckTypes
  <2>1. Checks!CheckTypes'
    BY <1>t, <2>0, <2>g DEF Checks!CheckInv, Checks!CheckTypes
  <2>2. Checks!PassedInv'
    BY <1>t, <2>0, <2>g DEF Checks!CheckInv, Checks!PassedInv, Checks!NoVerdict, Checks!Checked
  <2>3. Checks!ScanInv'
    BY <1>t, <2>0, <2>g DEF Checks!CheckInv, Checks!ScanInv
  <2>4. Checks!RowInv'
    BY <1>t, <2>0, <2>g DEF Checks!CheckInv, Checks!RowInv, Checks!CheckTypes
  <2>5. Checks!ReasonInv'
    BY <1>t, <2>0, <2>g DEF Checks!CheckInv, Checks!ReasonInv
  <2> QED
    BY <2>1, <2>2, <2>3, <2>4, <2>5 DEF Checks!CheckInv
<1>3. CASE Checks!ActOnSpam
  <2>r. CASE \E code \in {"550", "451"} : Checks!Refuse(code)
    <3>1. PICK code \in {"550", "451"} : Checks!Refuse(code)
      BY <2>r
    <3>2. at = "spammed" /\ verdict.action \in {"reject", "soft reject", "greylist"}
      BY <1>3, <1>t, <3>1 DEF Checks!ActOnSpam, Checks!Goto, Checks!Refuse
    <3>3. ~says.rspamd.down /\ says.rspamd.action \in {"reject", "soft reject", "greylist"}
      BY <3>2 DEF Checks!CheckInv, Checks!PassedInv
    <3> QED
      BY <3>1, <3>2, <3>3, RefusalChecked
  <2>g. CASE ~(\E code \in {"550", "451"} : Checks!Refuse(code))
    <3>0. /\ at = "spammed" /\ at' = "malware" /\ verdict.action # "reject"
          /\ UNCHANGED <<cfg, says, live, body, verdict, streamed, scan, hold, row, reply>>
      BY <1>3, <2>g, <1>t DEF Checks!ActOnSpam, Checks!Goto, Checks!asked
    <3>g. Checks!Going /\ Checks!Going'
      BY <1>t, <3>0 DEF Checks!Going, Checks!CheckTypes
    <3>1. Checks!CheckTypes'
      BY <1>t, <3>0, <3>g DEF Checks!CheckInv, Checks!CheckTypes
    <3>2. Checks!PassedInv'
      BY <1>t, <3>0, <3>g DEF Checks!CheckInv, Checks!PassedInv
    <3>3. Checks!ScanInv'
      BY <1>t, <3>0, <3>g DEF Checks!CheckInv, Checks!ScanInv
    <3>4. Checks!RowInv'
      BY <1>t, <3>0, <3>g DEF Checks!CheckInv, Checks!RowInv, Checks!CheckTypes
    <3>5. Checks!ReasonInv'
      BY <1>t, <3>0, <3>g DEF Checks!CheckInv, Checks!ReasonInv
    <3> QED
      BY <3>1, <3>2, <3>3, <3>4, <3>5 DEF Checks!CheckInv
  <2> QED
    BY <2>r, <2>g
<1>4. CASE Checks!BeginScan
  <2>0. /\ at = "malware" /\ UNCHANGED <<cfg, says, live, body, verdict, streamed, hold, row, reply>>
        /\ \/ /\ at' = "auth" /\ scan' \in {"", "skipped", "failed"}
              /\ cfg.clam = "off" \/ cfg.clamBig \/ says.clamd = "offline"
           \/ at' = "stream" /\ scan' = "" /\ cfg.clam # "off" /\ ~cfg.clamBig /\ says.clamd # "offline"
    BY <1>4, <1>t DEF Checks!BeginScan, Checks!Scanned, Checks!asked
  <2>g. Checks!Going /\ Checks!Going'
    BY <1>t, <2>0 DEF Checks!Going, Checks!CheckTypes
  <2>1. Checks!CheckTypes'
    BY <1>t, <2>0, <2>g DEF Checks!CheckInv, Checks!CheckTypes
  <2>2. Checks!PassedInv'
    BY <1>t, <2>0, <2>g DEF Checks!CheckInv, Checks!PassedInv
  <2>3. Checks!ScanInv'
    <3>1. streamed = 0 /\ scan = "" /\ streamed' = 0
      BY <2>0 DEF Checks!CheckInv, Checks!ScanInv
    <3>2. CASE at' = "auth"
      <4>0. ~(streamed' = Chunks /\ Chunks > 0)
        <5>1. SUFFICES ASSUME streamed' = Chunks PROVE ~(Chunks > 0)
          OBVIOUS
        <5>2. Chunks = 0
          BY <3>1, <5>1
        <5> QED
          BY <5>2
      <4>1. scan' \notin {"clean", "infected"}
        BY <2>0, <3>2
      <4>2. says.clamd = "found" => cfg.clam = "off" \/ cfg.clamBig
        BY <2>0, <3>2
      <4> QED
        BY <2>0, <3>2, <4>0, <4>1, <4>2 DEF Checks!CheckInv, Checks!ScanInv
    <3>3. CASE at' = "stream"
      BY <1>t, <2>0, <3>1, <3>3 DEF Checks!CheckInv, Checks!ScanInv
    <3> QED
      BY <2>0, <3>2, <3>3
  <2>4. Checks!RowInv'
    BY <1>t, <2>0, <2>g DEF Checks!CheckInv, Checks!RowInv, Checks!CheckTypes
  <2>5. Checks!ReasonInv'
    BY <1>t, <2>0, <2>g DEF Checks!CheckInv, Checks!ReasonInv
  <2> QED
    BY <2>1, <2>2, <2>3, <2>4, <2>5 DEF Checks!CheckInv
<1>5. CASE Checks!StreamChunk
  <2>0. /\ at = "stream" /\ UNCHANGED <<cfg, says, live, body, verdict, hold, row, reply>>
        /\ \/ streamed < Chunks /\ streamed' = streamed + 1 /\ UNCHANGED <<at, scan>>
           \/ says.clamd = "closes" /\ at' = "auth" /\ scan' = "failed" /\ UNCHANGED streamed
    BY <1>5, <1>t DEF Checks!StreamChunk, Checks!asked
  <2>g. Checks!Going /\ Checks!Going'
    BY <1>t, <2>0 DEF Checks!Going, Checks!CheckTypes
  <2>1. Checks!CheckTypes'
    <3>0. streamed \in 0..Chunks
      BY <1>t DEF Checks!CheckTypes
    <3>1. streamed' \in 0..Chunks
      BY <1>t, <2>0, <3>0
    <3> QED
      BY <1>t, <2>0, <3>1 DEF Checks!CheckTypes
  <2>2. Checks!PassedInv'
    BY <1>t, <2>0, <2>g DEF Checks!CheckInv, Checks!PassedInv
  <2>3. Checks!ScanInv'
    BY <1>t, <2>0, <2>g DEF Checks!CheckInv, Checks!ScanInv
  <2>4. Checks!RowInv'
    BY <1>t, <2>0, <2>g DEF Checks!CheckInv, Checks!RowInv, Checks!CheckTypes
  <2>5. Checks!ReasonInv'
    BY <1>t, <2>0, <2>g DEF Checks!CheckInv, Checks!ReasonInv
  <2> QED
    BY <2>1, <2>2, <2>3, <2>4, <2>5 DEF Checks!CheckInv
<1>6. CASE Checks!ReadAnswer
  <2>0. /\ at = "stream" /\ at' = "scanned" /\ streamed = Chunks /\ scan' = Checks!Result
        /\ UNCHANGED <<cfg, says, body, verdict, streamed, hold, row, reply>>
        /\ live' = (live /\ says.clamd # "hangs")
    BY <1>6, <1>t DEF Checks!ReadAnswer, Checks!asked
  <2>g. Checks!Going /\ Checks!Going'
    BY <1>t, <2>0 DEF Checks!Going, Checks!CheckTypes
  <2>1. Checks!CheckTypes'
    BY <1>t, <2>0, <2>g DEF Checks!CheckInv, Checks!CheckTypes, Checks!Result
  <2>2. Checks!PassedInv'
    BY <1>t, <2>0, <2>g DEF Checks!CheckInv, Checks!PassedInv
  <2>3. Checks!ScanInv'
    BY <1>t, <2>0, <2>g DEF Checks!CheckInv, Checks!ScanInv, Checks!Result
  <2>4. Checks!RowInv'
    BY <1>t, <2>0, <2>g DEF Checks!CheckInv, Checks!RowInv, Checks!CheckTypes
  <2>5. Checks!ReasonInv'
    BY <1>t, <2>0, <2>g DEF Checks!CheckInv, Checks!ReasonInv
  <2> QED
    BY <2>1, <2>2, <2>3, <2>4, <2>5 DEF Checks!CheckInv
<1>7. CASE Checks!ActOnScan
  <2>r. CASE scan = "infected" /\ cfg.clam = "reject"
    <3>1. says.clamd = "found"
      BY <2>r DEF Checks!CheckInv, Checks!ScanInv
    <3>2. at = "scanned" /\ Checks!Refuse("554")
      BY <1>7, <2>r DEF Checks!ActOnScan
    <3> QED
      BY <3>1, <3>2, RefusalChecked
  <2>g. CASE ~(scan = "infected" /\ cfg.clam = "reject")
    <3>0. /\ at = "scanned" /\ at' = "auth" /\ ~(scan = "infected" /\ cfg.clam = "reject")
          /\ UNCHANGED <<cfg, says, live, body, verdict, streamed, scan, row, reply>>
          /\ hold' = IF scan = "infected" THEN "malware" ELSE hold
      BY <1>7, <2>g, <1>t DEF Checks!ActOnScan, Checks!Goto, Checks!asked
    <3>g. Checks!Going /\ Checks!Going'
      BY <1>t, <3>0 DEF Checks!Going, Checks!CheckTypes
    <3>1. Checks!CheckTypes'
      BY <1>t, <3>0, <3>g DEF Checks!CheckInv, Checks!CheckTypes
    <3>2. Checks!PassedInv'
      BY <1>t, <3>0, <3>g DEF Checks!CheckInv, Checks!PassedInv
    <3>3. Checks!ScanInv'
      BY <1>t, <3>0, <3>g DEF Checks!CheckInv, Checks!ScanInv, Checks!Result, Checks!CheckTypes, Checks!Config
    <3>4. Checks!RowInv'
      BY <1>t, <3>0, <3>g DEF Checks!CheckInv, Checks!RowInv, Checks!CheckTypes
    <3>5. Checks!ReasonInv'
      BY <1>t, <3>0, <3>g DEF Checks!CheckInv, Checks!ReasonInv
    <3> QED
      BY <3>1, <3>2, <3>3, <3>4, <3>5 DEF Checks!CheckInv
  <2> QED
    BY <2>r, <2>g
<1>8. CASE Checks!CheckAuth
  <2>0. /\ at = "auth" /\ at' = "enqueue"
        /\ UNCHANGED <<cfg, says, live, body, verdict, streamed, scan, hold, row, reply>>
    BY <1>8, <1>t DEF Checks!CheckAuth, Checks!Goto, Checks!asked
  <2>g. Checks!Going /\ Checks!Going'
    BY <1>t, <2>0 DEF Checks!Going, Checks!CheckTypes
  <2>1. Checks!CheckTypes'
    BY <1>t, <2>0, <2>g DEF Checks!CheckInv, Checks!CheckTypes
  <2>2. Checks!PassedInv'
    BY <1>t, <2>0, <2>g DEF Checks!CheckInv, Checks!PassedInv
  <2>3. Checks!ScanInv'
    BY <1>t, <2>0, <2>g DEF Checks!CheckInv, Checks!ScanInv
  <2>4. Checks!RowInv'
    BY <1>t, <2>0, <2>g DEF Checks!CheckInv, Checks!RowInv, Checks!CheckTypes
  <2>5. Checks!ReasonInv'
    BY <1>t, <2>0, <2>g DEF Checks!CheckInv, Checks!ReasonInv
  <2> QED
    BY <2>1, <2>2, <2>3, <2>4, <2>5 DEF Checks!CheckInv
<1>9. CASE Checks!Enqueue
  <2>0. /\ at = "enqueue" /\ at' = "quarantine"
        /\ UNCHANGED <<cfg, says, live, body, verdict, streamed, scan, hold, reply>>
        /\ row'.queued /\ ~row'.held /\ row'.scan = scan
        /\ row' \in [queued : BOOLEAN, held : BOOLEAN, scan : {"", "skipped", "failed", "clean", "infected"},
                       scored : BOOLEAN, authenticated : BOOLEAN]
    BY <1>9, <1>t DEF Checks!Enqueue, Checks!asked, Checks!CheckTypes, Checks!Authenticates
  <2>g. Checks!Going /\ Checks!Going'
    BY <1>t, <2>0 DEF Checks!Going, Checks!CheckTypes
  <2>1. Checks!CheckTypes'
    BY <1>t, <2>0, <2>g DEF Checks!CheckInv, Checks!CheckTypes
  <2>2. Checks!PassedInv'
    BY <1>t, <2>0, <2>g DEF Checks!CheckInv, Checks!PassedInv
  <2>3. Checks!ScanInv'
    BY <1>t, <2>0, <2>g DEF Checks!CheckInv, Checks!ScanInv
  <2>4. Checks!RowInv'
    BY <1>t, <2>0, <2>g DEF Checks!CheckInv, Checks!RowInv, Checks!CheckTypes
  <2>5. Checks!ReasonInv'
    BY <1>t, <2>0, <2>g DEF Checks!CheckInv, Checks!ReasonInv
  <2> QED
    BY <2>1, <2>2, <2>3, <2>4, <2>5 DEF Checks!CheckInv
<1>10. CASE Checks!EnqueueFails
  BY <1>10, RefusalChecked DEF Checks!EnqueueFails
<1>11. CASE Checks!Quarantine
  <2>1. PICK fault \in StoreFails : row' = [row EXCEPT !.held = hold # "" /\ ~fault]
    BY <1>11 DEF Checks!Quarantine
  <2>2. fault \in BOOLEAN
    BY DEF Checks!InspectionBounds
  <2>0. /\ at = "quarantine" /\ at' = "end" /\ reply' = "250"
        /\ UNCHANGED <<cfg, says, live, body, verdict, streamed, scan, hold>>
    BY <1>11 DEF Checks!Quarantine, Checks!asked
  <2>g. Checks!Going /\ Checks!Going'
    BY <2>0 DEF Checks!Going
  <2>3. Checks!CheckTypes'
    BY <1>t, <2>0, <2>1, <2>2 DEF Checks!CheckTypes
  <2>4. Checks!PassedInv'
    BY <2>0, <2>g DEF Checks!CheckInv, Checks!PassedInv
  <2>5. Checks!ScanInv'
    BY <2>0, <2>g DEF Checks!CheckInv, Checks!ScanInv
  <2>6. Checks!RowInv'
    <3>1. row.queued /\ row.scan = scan /\ body
      BY <2>0, <2>g DEF Checks!CheckInv, Checks!RowInv
    <3>2. row'.queued /\ row'.scan = scan /\ (row'.held <=> hold # "" /\ ~fault)
      BY <1>t, <2>1, <2>2, <3>1 DEF Checks!CheckTypes
    <3>3. TRUE \notin StoreFails => ~fault
      BY <2>2
    <3> QED
      BY <2>0, <3>1, <3>2, <3>3 DEF Checks!RowInv
  <2>7. Checks!ReasonInv'
    BY <2>0 DEF Checks!ReasonInv
  <2> QED
    BY <2>3, <2>4, <2>5, <2>6, <2>7 DEF Checks!CheckInv
<1>12. CASE Checks!SPF \/ UNCHANGED Checks!vars
  <2>0. UNCHANGED <<cfg, says, at, live, body, verdict, streamed, scan, hold, row, reply>>
    BY <1>12 DEF Checks!SPF, Checks!vars, Checks!asked
  <2>1. Checks!CheckTypes'
    <3>1. /\ cfg' \in Checks!Config /\ streamed' \in 0..Chunks /\ says'.clamd \in Clamd
          /\ scan' \in {"", "skipped", "failed", "clean", "infected"}
          /\ row' \in [queued : BOOLEAN, held : BOOLEAN, scan : {"", "skipped", "failed", "clean", "infected"},
                      scored : BOOLEAN, authenticated : BOOLEAN]
      BY <1>t, <2>0 DEF Checks!CheckTypes
    <3>2. /\ at' \in {"filters", "spam", "spammed", "malware", "stream", "scanned", "auth", "enqueue",
                     "quarantine", "end"}
          /\ at' # "end" <=> reply' = ""
      BY <1>t, <2>0 DEF Checks!CheckTypes
    <3>3. "hangs" \notin Clamd => live'
      BY <1>t, <2>0 DEF Checks!CheckTypes
    <3> QED
      BY <3>1, <3>2, <3>3 DEF Checks!CheckTypes
  <2>4. Checks!PassedInv'
    BY <2>0 DEF Checks!CheckInv, Checks!PassedInv, Checks!Going
  <2>2. Checks!ScanInv'
    BY <2>0 DEF Checks!CheckInv, Checks!ScanInv, Checks!Going, Checks!Result
  <2>3. Checks!RowInv' /\ Checks!ReasonInv'
    BY <2>0 DEF Checks!CheckInv, Checks!RowInv, Checks!ReasonInv, Checks!Going
  <2> QED
    BY <2>1, <2>2, <2>3, <2>4 DEF Checks!CheckInv
<1> QED
  BY <1>1, <1>2, <1>3, <1>4, <1>5, <1>6, <1>7, <1>8, <1>9, <1>10, <1>11, <1>12 DEF Checks!InspectionNext

\* For every configuration, every answer of the checks and every size of a body: a
\* message that is answered 250 was rejected by none of them and is held when one
\* wants it, a row says "clean" only for a body clamd has seen to its end, and a
\* scanner costs no mail unless it leaves a scan without an answer until the
\* deadline of Data (smtpd.go, Data; spam.go; clamav.go).
THEOREM VerdictsHonoured == Checks!InspectionSpec => []VerdictsAreHonoured
<1>1. Checks!InspectionBounds
  BY ScreeningAssumption
<1>2. Checks!CheckInv => VerdictsAreHonoured
  <2> SUFFICES ASSUME Checks!CheckInv PROVE VerdictsAreHonoured
    OBVIOUS
  <2>1. Checks!VerdictsAreHonoured
    <3> SUFFICES ASSUME reply = "250" PROVE Checks!VerdictsAreHonoured
      BY DEF Checks!VerdictsAreHonoured
    <3>1. at = "end" /\ Checks!Going /\ cfg \in Checks!Config
      BY DEF Checks!CheckInv, Checks!CheckTypes, Checks!Going
    <3>2. /\ says.filter # "reject" /\ (says.filter = "quarantine" => hold # "")
          /\ cfg.spam /\ cfg.spamReject /\ ~cfg.spamBig /\ ~says.rspamd.down => says.rspamd.action # "reject"
      BY <3>1 DEF Checks!CheckInv, Checks!PassedInv
    <3>3. /\ cfg.clam # "off" /\ ~cfg.clamBig /\ says.clamd = "found" => cfg.clam = "quarantine" /\ hold # ""
          /\ hold # "" => \/ says.filter = "quarantine"
                          \/ cfg.clam = "quarantine" /\ ~cfg.clamBig /\ says.clamd = "found"
      BY <3>1 DEF Checks!CheckInv, Checks!ScanInv
    <3>4. /\ row.queued /\ body /\ (row.held => hold # "")
          /\ hold # "" /\ TRUE \notin StoreFails => row.held
      BY <3>1 DEF Checks!CheckInv, Checks!RowInv
    <3> QED
      BY <3>2, <3>3, <3>4 DEF Checks!VerdictsAreHonoured
  <2>2. Checks!ScanIsTruthful
    <3> SUFFICES ASSUME row.queued PROVE Checks!ScanIsTruthful
      BY DEF Checks!ScanIsTruthful
    <3>1. row.scan = scan /\ (at = "quarantine" \/ (at = "end" /\ reply = "250"))
      BY DEF Checks!CheckInv, Checks!RowInv
    <3>2. Checks!Going
      BY <3>1 DEF Checks!Going
    <3> QED
      BY <3>1, <3>2 DEF Checks!CheckInv, Checks!ScanInv, Checks!ScanIsTruthful
  <2>3. "hangs" \notin Clamd => Checks!FailsOpen
    BY DEF Checks!CheckInv, Checks!CheckTypes, Checks!ReasonInv, Checks!FailsOpen
  <2> QED
    BY <2>1, <2>2, <2>3 DEF VerdictsAreHonoured
<1> QED
  BY InitChecks, NextChecks, <1>1, <1>2, PTL DEF Checks!InspectionSpec

-----------------------------------------------------------------------------
(* Content filters.                                                        *)

\* Filters counts as this module does
LEMMA SameFilterCount ==
  ASSUME NEW S
  PROVE  /\ Rules!IsFiniteSet(S) <=> IsFiniteSet(S)
         /\ Rules!Cardinality(S) = Cardinality(S)
BY Zenon DEF Rules!IsFiniteSet, IsFiniteSet, Rules!Cardinality, Cardinality

\* Rows with different ids are ordered by priority and id
LEMMA BeforeIsAnOrder ==
  ASSUME Rules!FiltersBounds, NEW f \in Rules!Filter, NEW g \in Rules!Filter, NEW h \in Rules!Filter
  PROVE  /\ ~Rules!Before(f, f)
         /\ Rules!Before(f, g) /\ Rules!Before(g, h) => Rules!Before(f, h)
         /\ f.id # g.id => Rules!Before(f, g) \/ Rules!Before(g, f)
<1>1. {f.prio, g.prio, h.prio, f.id, g.id, h.id} \subseteq Nat
  BY DEF Rules!FiltersBounds, Rules!Filter
<1> QED
  BY <1>1 DEF Rules!Before

\* A table keeps every row under its own id
Keyed(t) == /\ t \in [FilterId -> Rules!Row]
            /\ \A i \in FilterId : t[i] # Rules!NoFilter => t[i].id = i

\* The rules of a table are finitely many rows, each with an id of its own
LEMMA ActiveRows ==
  ASSUME Rules!FiltersBounds, NEW t, Keyed(t)
  PROVE  /\ Rules!Active(t) \subseteq Rules!Filter
         /\ IsFiniteSet(Rules!Active(t))
         /\ \A f \in Rules!Active(t) : f # Rules!NoFilter /\ f.id \in FilterId /\ f = t[f.id]
<1> DEFINE A == Rules!Active(t)
<1>1. A \subseteq Rules!Filter
  BY DEF Keyed, Rules!Active, Rules!Row
<1>2. \A f \in A : f # Rules!NoFilter /\ f.id \in FilterId /\ f = t[f.id]
  BY DEF Keyed, Rules!Active
<1>3. [f \in A |-> f.id] \in Injection(A, FilterId)
  BY <1>2 DEF Injection, IsInjective
<1>4. IsFiniteSet(FilterId)
  BY SameFilterCount DEF Rules!FiltersBounds
<1>5. IsFiniteSet(A)
  BY <1>3, <1>4, FS_Injection
<1> QED
  BY <1>1, <1>2, <1>5

\* The rules of a table can be sorted, in one way: what Load keeps is every
\* enabled row, once, each before those that come after it
LEMMA CompiledIsSorted ==
  ASSUME Rules!FiltersBounds, NEW t, Keyed(t)
  PROVE  /\ Rules!Compiled(t) \in Seq(Rules!Active(t))
         /\ \A i, j \in 1..Len(Rules!Compiled(t)) :
               i < j => Rules!Before(Rules!Compiled(t)[i], Rules!Compiled(t)[j])
         /\ \A f \in Rules!Active(t) : \E i \in 1..Len(Rules!Compiled(t)) : Rules!Compiled(t)[i] = f
<1> DEFINE A == Rules!Active(t)
           n == Cardinality(A)
           Below(f) == {g \in A : Rules!Before(g, f)}
           rank == [f \in A |-> Cardinality(Below(f)) + 1]
           Sorts(s) == \A i, j \in DOMAIN s : i < j => Rules!Before(s[i], s[j])
<1>1. A \subseteq Rules!Filter /\ IsFiniteSet(A) /\ n \in Nat
  BY ActiveRows, FS_CardinalityType
<1>2. \A f, g \in A : f = g \/ Rules!Before(f, g) \/ Rules!Before(g, f)
  <2> SUFFICES ASSUME NEW f \in A, NEW g \in A, f # g PROVE Rules!Before(f, g) \/ Rules!Before(g, f)
    OBVIOUS
  <2>1. f.id # g.id
    BY ActiveRows
  <2> QED
    BY <1>1, <2>1, BeforeIsAnOrder
<1>3. \A f \in A : IsFiniteSet(Below(f)) /\ Cardinality(Below(f)) \in Nat /\ Cardinality(Below(f)) < n
  <2> SUFFICES ASSUME NEW f \in A
               PROVE IsFiniteSet(Below(f)) /\ Cardinality(Below(f)) \in Nat /\ Cardinality(Below(f)) < n
    OBVIOUS
  <2>1. f \notin Below(f)
    BY <1>1, BeforeIsAnOrder
  <2>2. Below(f) \in SUBSET A /\ Below(f) # A
    BY <2>1
  <2>3. IsFiniteSet(Below(f)) /\ Cardinality(Below(f)) <= n /\ (n = Cardinality(Below(f)) => A = Below(f))
    BY <1>1, <2>2, FS_Subset
  <2>4. Cardinality(Below(f)) \in Nat
    BY <2>3, FS_CardinalityType
  <2> QED
    BY <1>1, <2>2, <2>3, <2>4
<1>4. rank \in [A -> 1..n]
  BY <1>1, <1>3
<1>5. ASSUME NEW f \in A, NEW g \in A, Rules!Before(f, g) PROVE rank[f] < rank[g]
  <2>1. f \notin Below(f) /\ Below(f) \cup {f} \in SUBSET Below(g)
    BY <1>1, <1>5, BeforeIsAnOrder
  <2>2. Cardinality(Below(f) \cup {f}) = Cardinality(Below(f)) + 1
    BY <1>3, <2>1, FS_AddElement
  <2>3. Cardinality(Below(f) \cup {f}) <= Cardinality(Below(g))
    BY <1>3, <2>1, FS_Subset
  <2>4. rank[f] = Cardinality(Below(f)) + 1 /\ rank[g] = Cardinality(Below(g)) + 1
    OBVIOUS
  <2>5. Cardinality(Below(f)) \in Nat /\ Cardinality(Below(g)) \in Nat
    BY <1>3
  <2> HIDE DEF Below, rank
  <2> QED
    BY <2>2, <2>3, <2>4, <2>5
<1>6. rank \in Injection(A, 1..n)
  <2>1. ASSUME NEW f \in A, NEW g \in A, rank[f] = rank[g] PROVE f = g
    <3>1. rank[f] \in Int /\ rank[g] \in Int
      BY <1>4
    <3> HIDE DEF rank
    <3> QED
      BY <1>2, <1>5, <2>1, <3>1
  <2> QED
    BY <1>4, <2>1 DEF Injection, IsInjective
<1>7. IsFiniteSet(1..n) /\ Cardinality(1..n) = n
  <2>1. n \in Int /\ 1 \in Int
    BY <1>1
  <2>2. IsFiniteSet(1..n) /\ Cardinality(1..n) = IF 1 > n THEN 0 ELSE n - 1 + 1
    BY <2>1, FS_Interval, Zenon
  <2> QED
    BY <1>1, <2>2
<1>8. rank \in Surjection(A, 1..n)
  BY <1>6, <1>7, FS_Injection
<1> HIDE DEF rank
<1>9. \A k \in 1..n : \E f \in A : rank[f] = k
  BY <1>8 DEF Surjection
<1> DEFINE inv == [k \in 1..n |-> CHOOSE f \in A : rank[f] = k]
<1>10. inv \in [1..n -> A] /\ \A k \in 1..n : rank[inv[k]] = k
  BY <1>9
<1>11. Sorts(inv)
  <2> HIDE DEF inv
  <2> SUFFICES ASSUME NEW i \in 1..n, NEW j \in 1..n, i < j PROVE Rules!Before(inv[i], inv[j])
    BY <1>10
  <2>1. inv[i] \in A /\ inv[j] \in A /\ rank[inv[i]] = i /\ rank[inv[j]] = j
    BY <1>10
  <2>2. inv[i] # inv[j]
    BY <2>1
  <2>3. ~Rules!Before(inv[j], inv[i])
    BY <1>5, <2>1
  <2> QED
    BY <1>2, <2>1, <2>2, <2>3
<1> HIDE DEF inv
<1> DEFINE s == Rules!Compiled(t)
<1>12. s = CHOOSE x \in [1..n -> A] : Sorts(x)
  BY SameFilterCount DEF Rules!Compiled
<1>13. s \in [1..n -> A] /\ Sorts(s)
  <2> HIDE DEF s, Sorts
  <2> QED
    BY <1>10, <1>11, <1>12
<1> HIDE DEF s
<1>14. s \in Seq(A) /\ Len(s) = n /\ DOMAIN s = 1..n
  BY <1>1, <1>13
<1>15. s \in Injection(1..n, A)
  <2>1. ASSUME NEW i \in 1..n, NEW j \in 1..n, s[i] = s[j] PROVE i = j
    <3>1. s[i] \in Rules!Filter /\ ~Rules!Before(s[i], s[i])
      BY <1>1, <1>13, BeforeIsAnOrder
    <3> QED
      BY <1>1, <1>14, <1>13, <2>1, <3>1
  <2> QED
    BY <1>13, <2>1 DEF Injection, IsInjective
<1>16. s \in Surjection(1..n, A)
  BY <1>1, <1>7, <1>15, FS_Injection
<1>17. \A f \in A : \E i \in 1..n : s[i] = f
  BY <1>16 DEF Surjection
<1> QED
  BY <1>13, <1>14, <1>17 DEF s

\* The first rule that matches a message is the row of the table that decides
LEMMA FirstMatchDecides ==
  ASSUME Rules!FiltersBounds, NEW t, Keyed(t), NEW message,
         NEW n \in 1..(Len(Rules!Compiled(t)) + 1),
         \A i \in 1..(n - 1) : message \notin Rules!Compiled(t)[i].match
  PROVE  IF n > Len(Rules!Compiled(t)) THEN Rules!Decides(t, message) = Rules!NoFilter
         ELSE message \in Rules!Compiled(t)[n].match => Rules!Decides(t, message) = Rules!Compiled(t)[n]
<1> DEFINE s == Rules!Compiled(t)
           m == {f \in Rules!Active(t) : message \in f.match}
<1>1. /\ s \in Seq(Rules!Active(t))
      /\ \A i, j \in 1..Len(s) : i < j => Rules!Before(s[i], s[j])
      /\ \A f \in Rules!Active(t) : \E i \in 1..Len(s) : s[i] = f
  BY CompiledIsSorted
<1>2. Rules!Active(t) \subseteq Rules!Filter
  BY ActiveRows
<1>d. Rules!Decides(t, message) = IF m = {} THEN Rules!NoFilter
                                  ELSE CHOOSE f \in m : \A g \in m : g = f \/ Rules!Before(f, g)
  BY DEF Rules!Decides
<1> HIDE DEF s
<1>3. \A i \in 1..(n - 1) : message \notin s[i].match
  BY DEF s
<1>l. n \in 1..(Len(s) + 1) /\ Len(s) \in Nat
  BY <1>1 DEF s
<1>4. CASE n > Len(s)
  <2>1. m = {}
    <3> SUFFICES ASSUME NEW f \in m PROVE FALSE
      OBVIOUS
    <3>1. PICK i \in 1..Len(s) : s[i] = f
      BY <1>1
    <3> QED
      BY <1>3, <1>4, <1>l, <3>1
  <2> QED
    BY <1>4, <1>d, <2>1 DEF s
<1>5. CASE n <= Len(s) /\ message \in s[n].match
  <2>0. n \in 1..Len(s) /\ s[n] \in m
    BY <1>1, <1>5, <1>l
  <2>1. ASSUME NEW g \in m PROVE g = s[n] \/ Rules!Before(s[n], g)
    <3>1. PICK i \in 1..Len(s) : s[i] = g
      BY <1>1
    <3>2. i >= n
      BY <1>3, <1>l, <2>0, <3>1
    <3>3. CASE i = n
      BY <3>1, <3>3
    <3>4. CASE n < i
      BY <1>1, <2>0, <3>1, <3>4
    <3> QED
      BY <1>l, <3>1, <3>2, <3>3, <3>4
  <2>2. ASSUME NEW f \in m, \A g \in m : g = f \/ Rules!Before(f, g) PROVE f = s[n]
    <3>1. f = s[n] \/ (Rules!Before(s[n], f) /\ Rules!Before(f, s[n]))
      BY <2>0, <2>1, <2>2
    <3>2. f \in Rules!Filter /\ s[n] \in Rules!Filter
      BY <1>2, <2>0
    <3> QED
      BY <3>1, <3>2, BeforeIsAnOrder
  <2>3. (CHOOSE f \in m : \A g \in m : g = f \/ Rules!Before(f, g)) = s[n]
    <3> HIDE DEF m
    <3> QED
      BY <2>0, <2>1, <2>2
  <2>4. Rules!Decides(t, message) = s[n]
    <3> HIDE DEF m
    <3> QED
      BY <1>d, <2>0, <2>3
  <2> QED
    BY <1>5, <1>l, <2>4 DEF s
<1> QED
  BY <1>4, <1>5, <1>l DEF s

\* The rules of a table are rows with ids that were given
LEMMA RulesAreRows ==
  ASSUME Rules!FiltersBounds, Rules!FilterTypes, Rules!KeysInv
  PROVE  /\ \A k \in 1..Len(tables) : Keyed(tables[k])
         /\ \A k \in 0..Len(tables) :
               /\ Rules!RulesOfTable(tables, k) \in Seq(Rules!Row)
               /\ \A n \in 1..Len(Rules!RulesOfTable(tables, k)) :
                     LET f == Rules!RulesOfTable(tables, k)[n] IN
                     f \in Rules!Filter /\ f # Rules!NoFilter /\ f.id \in 1..lastId
<1>1. ASSUME NEW k \in 1..Len(tables) PROVE Keyed(tables[k])
  BY DEF Rules!FilterTypes, Rules!KeysInv, Keyed
<1>2. ASSUME NEW k \in 0..Len(tables)
      PROVE  /\ Rules!RulesOfTable(tables, k) \in Seq(Rules!Row)
             /\ \A n \in 1..Len(Rules!RulesOfTable(tables, k)) :
                   LET f == Rules!RulesOfTable(tables, k)[n] IN
                   f \in Rules!Filter /\ f # Rules!NoFilter /\ f.id \in 1..lastId
  <2>1. CASE k = 0
    BY <2>1 DEF Rules!RulesOfTable
  <2>2. CASE k \in 1..Len(tables)
    <3> DEFINE s == Rules!Compiled(tables[k])
    <3>1. Keyed(tables[k]) /\ Rules!RulesOfTable(tables, k) = s
      BY <1>1, <2>2 DEF Rules!RulesOfTable
    <3>2. s \in Seq(Rules!Active(tables[k]))
      BY <3>1, CompiledIsSorted
    <3>3. /\ Rules!Active(tables[k]) \subseteq Rules!Filter
          /\ \A f \in Rules!Active(tables[k]) : /\ f # Rules!NoFilter /\ f.id \in FilterId
                                                /\ f = tables[k][f.id]
      BY <3>1, ActiveRows
    <3>4. \A f \in Rules!Active(tables[k]) : f.id \in 1..lastId
      BY <2>2, <3>3 DEF Rules!KeysInv, Rules!FilterTypes
    <3> HIDE DEF s
    <3>5. s \in Seq(Rules!Row)
      BY <3>2, <3>3 DEF Rules!Row
    <3>6. ASSUME NEW n \in 1..Len(s)
          PROVE  s[n] \in Rules!Filter /\ s[n] # Rules!NoFilter /\ s[n].id \in 1..lastId
      BY <3>2, <3>3, <3>4
    <3> QED
      BY <3>1, <3>5, <3>6
  <2> QED
    BY <2>1, <2>2
<1> QED
  BY <1>1, <1>2

\* The rules in force are those of an empty table.
LEMMA InitFilters == Rules!FiltersBounds /\ Rules!FiltersInit => Rules!FilterInv
<1> SUFFICES ASSUME Rules!FiltersBounds, Rules!FiltersInit PROVE Rules!FilterInv
  OBVIOUS
<1>0. /\ table = [i \in FilterId |-> Rules!NoFilter] /\ matches = [i \in FilterId |-> 0]
      /\ lastId = 0 /\ rules = <<>> /\ tables = <<table>> /\ inForce = 0
      /\ load = [l \in Rules!Loaders |-> Rules!NoLoad]
      /\ walk = [s \in Message |-> Rules!NoWalk]
  BY DEF Rules!FiltersInit
<1>1. Rules!FilterTypes
  <2>1. table \in [FilterId -> Rules!Row] /\ Rules!NoFilter \in Rules!Row
    BY <1>0 DEF Rules!Row
  <2>2. tables \in Seq([FilterId -> Rules!Row]) /\ Len(tables) = 1 /\ tables[1] = table /\ tables # <<>>
    BY <1>0, <2>1
  <2>3. matches \in [FilterId -> Nat]
    BY <1>0
  <2>4. <<>> \in Seq(Rules!Row)
    OBVIOUS
  <2>5. load \in [Rules!Loaders -> [at : {"no", "list", "install"}, rules : Seq(Rules!Row), of : Nat]]
    BY <1>0, <2>4 DEF Rules!NoLoad
  <2>6. walk \in [Message -> [at : {"no", "walk", "count", "done"}, rules : Seq(Rules!Row), of : Nat,
                              next : Nat, verdict : Rules!Row]]
    <3> HIDE DEF Rules!NoFilter
    <3> QED
      BY <1>0, <2>1, <2>4 DEF Rules!NoWalk
  <2> QED
    BY <1>0, <2>1, <2>2, <2>3, <2>5, <2>6 DEF Rules!FilterTypes
<1>2. Rules!KeysInv
  <2>1. DOMAIN tables = {1} /\ tables[1] = table
    BY <1>0
  <2> QED
    BY <1>0, <2>1 DEF Rules!KeysInv
<1>3. Rules!LoadInv
  BY <1>0 DEF Rules!LoadInv, Rules!RulesOfTable, Rules!NoLoad
<1>4. Rules!WalkInv /\ Rules!VerdictsAreOfOneTable
  BY <1>0 DEF Rules!WalkInv, Rules!VerdictsAreOfOneTable, Rules!NoWalk
<1>5. Rules!CountInv /\ Rules!MatchesAreCounted
  BY <1>0 DEF Rules!CountInv, Rules!MatchesAreCounted
<1> QED
  BY <1>1, <1>2, <1>3, <1>4, <1>5 DEF Rules!FilterInv

\* The messages whose verdict has been counted for a filter
Counted(i) == {s \in Message : /\ walk[s].at = "done" /\ walk[s].verdict.id = i
                               /\ walk[s].verdict.action # "allow"}

\* The property about counts in the cardinalities of this module, now and after a step.
LEMMA CountsAgree ==
  /\ Rules!MatchesAreCounted
       <=> \A i \in FilterId : table[i] # Rules!NoFilter => matches[i] = Cardinality(Counted(i))
  /\ Rules!MatchesAreCounted'
       <=> \A i \in FilterId : table'[i] # Rules!NoFilter => matches'[i] = Cardinality(Counted(i)')
<1>1. \A i : Rules!Cardinality(Counted(i)) = Cardinality(Counted(i))
  BY SameFilterCount
<1>2. \A i : Rules!Cardinality(Counted(i)') = Cardinality(Counted(i)')
  BY SameFilterCount
<1> QED
  BY <1>1, <1>2 DEF Rules!MatchesAreCounted, Counted

\* Whoever saves a table appends it to those there have been, and what has been
\* read from one of them is still of it
LEMMA SaveKeeps ==
  ASSUME Rules!FiltersBounds, Rules!FilterInv, NEW a \in Admin, NEW t, Rules!Save(t), Rules!Saved(a),
         t \in [FilterId -> Rules!Row],
         \A i \in FilterId : t[i] # Rules!NoFilter => t[i].id = i /\ i \in 1..lastId',
         \A i \in FilterId : t[i] # Rules!NoFilter /\ table[i] = Rules!NoFilter => i > lastId,
         lastId' \in {lastId, lastId + 1}, matches' = matches
  PROVE  Rules!FilterInv'
<1>t. Rules!FilterTypes /\ Rules!KeysInv
  BY DEF Rules!FilterInv
<1>0. /\ table' = t /\ tables' = Append(tables, t) /\ UNCHANGED <<rules, walk, inForce>>
      /\ load' = [load EXCEPT ![a] = [Rules!NoLoad EXCEPT !.at = "list"]]
  BY DEF Rules!Save, Rules!Saved
<1>1. /\ tables' \in Seq([FilterId -> Rules!Row]) /\ Len(tables') = Len(tables) + 1 /\ Len(tables) \in Nat
      /\ tables'[Len(tables')] = t /\ tables' # <<>>
      /\ \A k \in 1..Len(tables) : tables'[k] = tables[k]
  BY <1>0, <1>t DEF Rules!FilterTypes
<1>2. \A k \in 0..Len(tables) : Rules!RulesOfTable(tables', k) = Rules!RulesOfTable(tables, k)
  BY <1>1 DEF Rules!RulesOfTable
<1>3. Rules!FilterTypes'
  <2>1. load' \in [Rules!Loaders -> [at : {"no", "list", "install"}, rules : Seq(Rules!Row), of : Nat]]
    <3>1. [Rules!NoLoad EXCEPT !.at = "list"]
            \in [at : {"no", "list", "install"}, rules : Seq(Rules!Row), of : Nat]
      <4>1. [Rules!NoLoad EXCEPT !.at = "list"] = [at |-> "list", rules |-> <<>>, of |-> 0]
        BY DEF Rules!NoLoad
      <4>2. <<>> \in Seq(Rules!Row)
        OBVIOUS
      <4>3. [at |-> "list", rules |-> <<>>, of |-> 0]
              \in [at : {"no", "list", "install"}, rules : Seq(Rules!Row), of : Nat]
        BY <4>2
      <4> QED
        BY <4>1, <4>3, Zenon
    <3>2. load \in [Rules!Loaders -> [at : {"no", "list", "install"}, rules : Seq(Rules!Row), of : Nat]]
      BY <1>t DEF Rules!FilterTypes
    <3> QED
      BY <1>0, <3>1, <3>2
  <2>2. inForce' \in 0..Len(tables') /\ lastId' \in Nat /\ matches' \in [FilterId -> Nat]
    BY <1>0, <1>1, <1>t DEF Rules!FilterTypes
  <2> QED
    BY <1>0, <1>1, <1>t, <2>1, <2>2 DEF Rules!FilterTypes
<1>4. Rules!KeysInv'
  <2> SUFFICES ASSUME NEW k \in 1..Len(tables'), NEW i \in FilterId, tables'[k][i] # Rules!NoFilter
               PROVE  tables'[k][i].id = i /\ i \in 1..lastId'
    BY <1>1 DEF Rules!KeysInv
  <2>1. CASE k = Len(tables')
    BY <1>1, <2>1
  <2>2. CASE k \in 1..Len(tables)
    <3>1. k \in DOMAIN tables /\ tables'[k] = tables[k] /\ lastId \in Nat
      BY <1>1, <1>t, <2>2 DEF Rules!FilterTypes
    <3>2. tables[k][i].id = i /\ i \in 1..lastId
      BY <1>t, <3>1 DEF Rules!KeysInv
    <3> QED
      BY <3>1, <3>2
  <2> QED
    BY <1>1, <2>1, <2>2
<1>5. Rules!LoadInv'
  <2>1. rules' = Rules!RulesOfTable(tables', inForce')
    BY <1>0, <1>2, <1>t DEF Rules!FilterInv, Rules!LoadInv, Rules!FilterTypes
  <2>2. ASSUME NEW l \in Rules!Loaders, load'[l].at = "install"
        PROVE  load'[l].of \in DOMAIN tables' /\ load'[l].rules = Rules!RulesOfTable(tables', load'[l].of)
    <3>1. load'[l] = load[l]
      BY <1>0, <1>t, <2>2 DEF Rules!FilterTypes, Rules!NoLoad
    <3>2. load[l].of \in 1..Len(tables) /\ load[l].rules = Rules!RulesOfTable(tables, load[l].of)
      BY <1>t, <2>2, <3>1 DEF Rules!FilterInv, Rules!LoadInv, Rules!FilterTypes
    <3> QED
      BY <1>1, <1>2, <3>1, <3>2
  <2> QED
    BY <2>1, <2>2 DEF Rules!LoadInv
<1>6. Rules!WalkInv'
  <2> SUFFICES ASSUME NEW s \in Message, walk[s].at # "no"
               PROVE  /\ walk[s].of \in 0..Len(tables') /\ walk[s].rules = Rules!RulesOfTable(tables', walk[s].of)
                      /\ walk[s].next \in 1..(Len(walk[s].rules) + 1)
                      /\ walk[s].at = "walk" => /\ walk[s].verdict = Rules!NoFilter
                                                /\ \A n \in 1..(walk[s].next - 1) : s \notin walk[s].rules[n].match
                      /\ walk[s].verdict # Rules!NoFilter => walk[s].verdict.id \in 1..lastId'
                      /\ walk[s].at = "count" => /\ walk[s].verdict # Rules!NoFilter
                                                 /\ walk[s].verdict.action # "allow"
    BY <1>0 DEF Rules!WalkInv
  <2>1. /\ walk[s].of \in 0..Len(tables) /\ walk[s].rules = Rules!RulesOfTable(tables, walk[s].of)
        /\ walk[s].next \in 1..(Len(walk[s].rules) + 1)
        /\ walk[s].at = "walk" => /\ walk[s].verdict = Rules!NoFilter
                                  /\ \A n \in 1..(walk[s].next - 1) : s \notin walk[s].rules[n].match
        /\ walk[s].verdict # Rules!NoFilter => walk[s].verdict.id \in 1..lastId
        /\ walk[s].at = "count" => walk[s].verdict # Rules!NoFilter /\ walk[s].verdict.action # "allow"
    BY DEF Rules!FilterInv, Rules!WalkInv
  <2>2. \A x \in 1..lastId : x \in 1..lastId'
    BY <1>t DEF Rules!FilterTypes
  <2>3. walk[s].of \in 0..Len(tables') /\ walk[s].rules = Rules!RulesOfTable(tables', walk[s].of)
    BY <1>1, <1>2, <2>1
  <2> QED
    BY <2>1, <2>2, <2>3
<1>7. Rules!CountInv'
  BY <1>t DEF Rules!FilterInv, Rules!CountInv, Rules!FilterTypes, Rules!FiltersBounds
<1>8. Rules!VerdictsAreOfOneTable'
  <2> SUFFICES ASSUME NEW s \in Message, walk[s].at \in {"count", "done"}
               PROVE  walk[s].verdict = IF walk[s].of = 0 THEN Rules!NoFilter
                                        ELSE Rules!Decides(tables'[walk[s].of], s)
    BY <1>0 DEF Rules!VerdictsAreOfOneTable
  <2>1. walk[s].of \in 0..Len(tables)
    BY DEF Rules!FilterInv, Rules!WalkInv
  <2>2. walk[s].of # 0 => tables'[walk[s].of] = tables[walk[s].of]
    BY <1>1, <2>1
  <2> QED
    BY <2>2 DEF Rules!FilterInv, Rules!VerdictsAreOfOneTable
<1>9. Rules!MatchesAreCounted'
  <2>1. \A i \in FilterId : Counted(i)' = Counted(i)
    BY <1>0 DEF Counted
  <2> SUFFICES ASSUME NEW i \in FilterId, t[i] # Rules!NoFilter
               PROVE  matches[i] = Cardinality(Counted(i))
    BY <1>0, <2>1, CountsAgree
  <2>2. CASE table[i] # Rules!NoFilter
    BY <2>2, CountsAgree DEF Rules!FilterInv
  <2>3. CASE table[i] = Rules!NoFilter
    <3>1. i > lastId /\ i \in Nat /\ i # 0 /\ lastId \in Nat
      BY <1>t, <2>3 DEF Rules!FiltersBounds, Rules!FilterTypes
    <3>2. Counted(i) = {}
      <4> SUFFICES ASSUME NEW s \in Counted(i) PROVE FALSE
        OBVIOUS
      <4>1. s \in Message /\ walk[s].at = "done" /\ walk[s].verdict.id = i
        BY DEF Counted
      <4>2. walk[s].verdict # Rules!NoFilter
        BY <3>1, <4>1 DEF Rules!NoFilter
      <4>3. walk[s].verdict.id \in 1..lastId
        BY <4>1, <4>2 DEF Rules!FilterInv, Rules!WalkInv
      <4> QED
        BY <3>1, <4>1, <4>3
    <3>3. Cardinality({}) = 0
      BY FS_EmptySet
    <3> QED
      BY <3>1, <3>2, <3>3 DEF Rules!FilterInv, Rules!CountInv
  <2> QED
    BY <2>2, <2>3
<1> QED
  BY <1>3, <1>4, <1>5, <1>6, <1>7, <1>8, <1>9 DEF Rules!FilterInv

\* A step of a Load changes what it has read, and perhaps the rules in force
LEMMA LoadKeeps ==
  ASSUME Rules!FilterInv, UNCHANGED <<table, matches, lastId, walk, tables>>,
         inForce' \in 0..Len(tables), rules' = Rules!RulesOfTable(tables, inForce'),
         NEW l \in Rules!Loaders, NEW r, load' = [load EXCEPT ![l] = r],
         r \in [at : {"no", "list", "install"}, rules : Seq(Rules!Row), of : Nat],
         r.at = "install" => r.of \in DOMAIN tables /\ r.rules = Rules!RulesOfTable(tables, r.of)
  PROVE  Rules!FilterInv'
<1>1. load \in [Rules!Loaders -> [at : {"no", "list", "install"}, rules : Seq(Rules!Row), of : Nat]]
  BY DEF Rules!FilterInv, Rules!FilterTypes
<1>2. load' \in [Rules!Loaders -> [at : {"no", "list", "install"}, rules : Seq(Rules!Row), of : Nat]]
  BY <1>1
<1>3. Rules!FilterTypes'
  BY <1>2 DEF Rules!FilterInv, Rules!FilterTypes
<1>4. Rules!LoadInv'
  <2> SUFFICES ASSUME NEW m \in Rules!Loaders, load'[m].at = "install"
               PROVE  load'[m].of \in DOMAIN tables /\ load'[m].rules = Rules!RulesOfTable(tables, load'[m].of)
    BY DEF Rules!LoadInv
  <2>1. CASE m = l
    BY <1>1, <2>1
  <2>2. CASE m # l
    <3>1. load'[m] = load[m]
      BY <1>1, <2>2
    <3> QED
      BY <3>1 DEF Rules!FilterInv, Rules!LoadInv
  <2> QED
    BY <2>1, <2>2
<1>5. Rules!KeysInv' /\ Rules!CountInv'
  BY DEF Rules!FilterInv, Rules!KeysInv, Rules!CountInv
<1>6. Rules!WalkInv' /\ Rules!VerdictsAreOfOneTable'
  BY DEF Rules!FilterInv, Rules!WalkInv, Rules!VerdictsAreOfOneTable
<1>7. Rules!MatchesAreCounted'
  BY CountsAgree DEF Rules!FilterInv, Counted
<1> QED
  BY <1>3, <1>4, <1>5, <1>6, <1>7 DEF Rules!FilterInv

\* What is known of one session
WalkRecord == [at : {"no", "walk", "count", "done"}, rules : Seq(Rules!Row), of : Nat,
               next : Nat, verdict : Rules!Row]
WalkFits(s, w) ==
  w.at # "no" =>
    /\ w.of \in 0..Len(tables) /\ w.rules = Rules!RulesOfTable(tables, w.of) /\ w.next \in 1..(Len(w.rules) + 1)
    /\ w.at = "walk" => w.verdict = Rules!NoFilter /\ \A n \in 1..(w.next - 1) : s \notin w.rules[n].match
    /\ w.verdict # Rules!NoFilter => w.verdict.id \in 1..lastId
    /\ w.at = "count" => w.verdict # Rules!NoFilter /\ w.verdict.action # "allow"
    /\ w.at \in {"count", "done"} =>
         w.verdict = IF w.of = 0 THEN Rules!NoFilter ELSE Rules!Decides(tables[w.of], s)

\* The invariant and the property about walks, session by session.
LEMMA WalksFit ==
  /\ Rules!WalkInv /\ Rules!VerdictsAreOfOneTable <=> \A s \in Message : WalkFits(s, walk[s])
  /\ Rules!WalkInv' /\ Rules!VerdictsAreOfOneTable' <=> \A s \in Message : WalkFits(s, walk[s])'
<1>1. ASSUME NEW s \in Message, walk[s].at \in {"count", "done"} PROVE walk[s].at # "no"
  BY <1>1
<1>2. ASSUME NEW s \in Message, walk'[s].at \in {"count", "done"} PROVE walk'[s].at # "no"
  BY <1>2
<1>3. Rules!WalkInv /\ Rules!VerdictsAreOfOneTable <=> \A s \in Message : WalkFits(s, walk[s])
  BY <1>1, Zenon DEF Rules!WalkInv, Rules!VerdictsAreOfOneTable, WalkFits
<1>4. Rules!WalkInv' /\ Rules!VerdictsAreOfOneTable' <=> \A s \in Message : WalkFits(s, walk[s])'
  BY <1>2, Zenon DEF Rules!WalkInv, Rules!VerdictsAreOfOneTable, WalkFits
<1> QED
  BY <1>3, <1>4

\* A step of one session leaves the others, and the counts but for the one it raises
LEMMA WalkKeeps ==
  ASSUME Rules!FilterInv, UNCHANGED <<table, lastId, rules, load, tables, inForce>>,
         NEW s \in Message, NEW w \in WalkRecord, walk' = [walk EXCEPT ![s] = w], WalkFits(s, w),
         matches' \in [FilterId -> Nat], Rules!CountInv', Rules!MatchesAreCounted'
  PROVE  Rules!FilterInv'
<1>1. walk \in [Message -> WalkRecord]
  BY DEF Rules!FilterInv, Rules!FilterTypes, WalkRecord
<1>2. walk' \in [Message -> WalkRecord]
  BY <1>1
<1>3. Rules!FilterTypes'
  BY <1>2 DEF Rules!FilterInv, Rules!FilterTypes, WalkRecord
<1>4. Rules!KeysInv' /\ Rules!LoadInv'
  BY DEF Rules!FilterInv, Rules!KeysInv, Rules!LoadInv
<1>5. \A m \in Message : WalkFits(m, walk[m])'
  <2> SUFFICES ASSUME NEW m \in Message PROVE WalkFits(m, walk[m])'
    OBVIOUS
  <2>1. WalkFits(m, walk'[m])
    BY <1>1, WalksFit DEF Rules!FilterInv
  <2> QED
    BY <2>1 DEF WalkFits
<1>6. Rules!WalkInv' /\ Rules!VerdictsAreOfOneTable'
  BY <1>5, WalksFit
<1> QED
  BY <1>3, <1>4, <1>6 DEF Rules!FilterInv

\* A session that is not done with a verdict to count, before or after its step,
\* changes no count
LEMMA CountsKept ==
  ASSUME Rules!FilterInv, UNCHANGED <<table, matches, lastId>>,
         NEW s \in Message, NEW w \in WalkRecord, walk' = [walk EXCEPT ![s] = w],
         walk[s].at # "done", w.at = "done" => w.verdict = Rules!NoFilter \/ w.verdict.action = "allow"
  PROVE  matches' \in [FilterId -> Nat] /\ Rules!CountInv' /\ Rules!MatchesAreCounted'
<1>1. walk \in [Message -> WalkRecord]
  BY DEF Rules!FilterInv, Rules!FilterTypes, WalkRecord
<1>2. matches' \in [FilterId -> Nat] /\ Rules!CountInv'
  BY DEF Rules!FilterInv, Rules!FilterTypes, Rules!CountInv
<1>3. ASSUME NEW i \in FilterId, table[i] # Rules!NoFilter PROVE matches[i] = Cardinality(Counted(i)')
  <2>1. i # 0
    <3>1. Len(tables) \in DOMAIN tables /\ table = tables[Len(tables)] /\ lastId \in Nat
      BY DEF Rules!FilterInv, Rules!FilterTypes
    <3> QED
      BY <1>3, <3>1 DEF Rules!FilterInv, Rules!KeysInv
  <2>2. ~(w.at = "done" /\ w.verdict.id = i /\ w.verdict.action # "allow")
    BY <2>1 DEF Rules!NoFilter
  <2>3. \A m \in Message : (m # s => walk'[m] = walk[m]) /\ walk'[s] = w
    BY <1>1
  <2>4. Counted(i)' = Counted(i)
    BY <2>2, <2>3 DEF Counted
  <2> QED
    BY <1>3, <2>4, CountsAgree DEF Rules!FilterInv
<1> QED
  BY <1>2, <1>3, CountsAgree

\* A session walks on: past the last rule, to one that matches, or past one
LEMMA StepKeeps ==
  ASSUME Rules!FiltersBounds, Rules!FilterInv, NEW s \in Message, Rules!Step(s)
  PROVE  Rules!FilterInv'
<1> DEFINE w == walk[s]
           n == w.next
           r == w.rules
<1>t. Rules!FilterTypes /\ Rules!KeysInv /\ w \in WalkRecord /\ w.at = "walk"
  BY DEF Rules!FilterInv, Rules!FilterTypes, Rules!Step, WalkRecord
<1>0. /\ UNCHANGED <<table, matches, lastId, rules, load, tables, inForce>>
      /\ walk' = [walk EXCEPT ![s] =
           IF n > Len(r) THEN [w EXCEPT !.at = "done"]
           ELSE IF s \in r[n].match
                THEN [w EXCEPT !.at = IF r[n].action = "allow" THEN "done" ELSE "count", !.verdict = r[n]]
           ELSE [w EXCEPT !.next = n + 1]]
  BY DEF Rules!Step, Rules!RulesOf, Rules!reqVars
<1>1. /\ w.of \in 0..Len(tables) /\ r = Rules!RulesOfTable(tables, w.of) /\ n \in 1..(Len(r) + 1)
      /\ w.verdict = Rules!NoFilter /\ \A i \in 1..(n - 1) : s \notin r[i].match
  BY <1>t DEF Rules!FilterInv, Rules!WalkInv
<1>2. /\ Keyed(tables[w.of]) \/ w.of = 0
      /\ r \in Seq(Rules!Row)
      /\ \A i \in 1..Len(r) : r[i] \in Rules!Filter /\ r[i] # Rules!NoFilter /\ r[i].id \in 1..lastId
  BY <1>1, <1>t, RulesAreRows
<1>3. IF n > Len(r) THEN w.of = 0 \/ Rules!Decides(tables[w.of], s) = Rules!NoFilter
      ELSE s \in r[n].match => w.of # 0 /\ Rules!Decides(tables[w.of], s) = r[n]
  <2>1. CASE w.of = 0
    <3>1. r = <<>>
      BY <1>1, <2>1 DEF Rules!RulesOfTable
    <3>2. Len(r) = 0 /\ n > Len(r)
      BY <1>1, <3>1
    <3> QED
      BY <2>1, <3>2
  <2>2. CASE w.of # 0
    <3>1. r = Rules!Compiled(tables[w.of])
      BY <1>1, <2>2 DEF Rules!RulesOfTable
    <3> HIDE DEF r, n
    <3> QED
      BY <1>1, <1>2, <2>2, <3>1, FirstMatchDecides
  <2> QED
    BY <2>1, <2>2
<1> SUFFICES ASSUME NEW v \in WalkRecord, walk' = [walk EXCEPT ![s] = v], WalkFits(s, v),
                    v.at = "done" => v.verdict = Rules!NoFilter \/ v.verdict.action = "allow"
             PROVE  Rules!FilterInv'
  <2>1. CASE n > Len(r)
    <3> DEFINE v == [w EXCEPT !.at = "done"]
    <3>1. v \in WalkRecord /\ v.at = "done" /\ v.rules = r /\ v.of = w.of /\ v.next = n /\ v.verdict = w.verdict
      BY <1>t DEF WalkRecord
    <3>2. walk' = [walk EXCEPT ![s] = v]
      BY <1>0, <2>1
    <3> HIDE DEF v
    <3>3. WalkFits(s, v)
      BY <1>1, <1>3, <2>1, <3>1 DEF WalkFits
    <3> QED
      BY <1>1, <3>1, <3>2, <3>3
  <2>2. CASE n <= Len(r) /\ s \in r[n].match
    <3> DEFINE v == [w EXCEPT !.at = IF r[n].action = "allow" THEN "done" ELSE "count", !.verdict = r[n]]
    <3>0. n \in 1..Len(r) /\ ~(n > Len(r)) /\ r[n] \in Rules!Row
      BY <1>1, <1>2, <2>2
    <3>1. /\ v \in WalkRecord /\ v.rules = r /\ v.of = w.of /\ v.next = n /\ v.verdict = r[n]
          /\ v.at = IF r[n].action = "allow" THEN "done" ELSE "count"
      BY <1>t, <3>0 DEF WalkRecord
    <3>2. walk' = [walk EXCEPT ![s] = v]
      BY <1>0, <2>2, <3>0
    <3> HIDE DEF v
    <3>4. r[n] # Rules!NoFilter /\ r[n].id \in 1..lastId
      BY <1>2, <3>0
    <3>5. w.of # 0 /\ Rules!Decides(tables[w.of], s) = r[n]
      BY <1>3, <2>2, <3>0
    <3>3. WalkFits(s, v)
      BY <1>1, <3>1, <3>4, <3>5 DEF WalkFits
    <3> QED
      BY <3>1, <3>2, <3>3
  <2>3. CASE n <= Len(r) /\ s \notin r[n].match
    <3> DEFINE v == [w EXCEPT !.next = n + 1]
    <3>0. n \in 1..Len(r) /\ ~(n > Len(r)) /\ n + 1 \in 1..(Len(r) + 1) /\ n + 1 \in Nat
      BY <1>1, <1>2, <2>3
    <3>1. v \in WalkRecord /\ v.at = "walk" /\ v.rules = r /\ v.of = w.of /\ v.next = n + 1 /\ v.verdict = w.verdict
      BY <1>t, <3>0 DEF WalkRecord
    <3>2. walk' = [walk EXCEPT ![s] = v]
      BY <1>0, <2>3, <3>0
    <3> HIDE DEF v
    <3>4. \A i \in 1..((n + 1) - 1) : s \notin r[i].match
      <4> SUFFICES ASSUME NEW i \in 1..n PROVE s \notin r[i].match
        BY <3>0
      <4>1. i = n \/ i \in 1..(n - 1)
        BY <3>0
      <4> QED
        BY <1>1, <2>3, <4>1
    <3>3. WalkFits(s, v)
      BY <1>1, <3>0, <3>1, <3>4 DEF WalkFits
    <3> QED
      BY <3>1, <3>2, <3>3
  <2> QED
    BY <1>1, <1>2, <2>1, <2>2, <2>3
<1> QED
  BY <1>0, <1>t, CountsKept, WalkKeeps

\* A match that is recorded raises the count of its filter by one
LEMMA RecordKeeps ==
  ASSUME Rules!FiltersBounds, Rules!FilterInv, NEW s \in Message, Rules!RecordFilterMatch(s)
  PROVE  Rules!FilterInv'
<1> DEFINE w == walk[s]
           i == w.verdict.id
           v == [w EXCEPT !.at = "done"]
<1>t. Rules!FilterTypes /\ Rules!KeysInv /\ walk \in [Message -> WalkRecord] /\ w \in WalkRecord /\ w.at = "count"
  BY DEF Rules!FilterInv, Rules!FilterTypes, Rules!RecordFilterMatch, WalkRecord
<1>0. /\ matches' = IF table[i] = Rules!NoFilter THEN matches ELSE [matches EXCEPT ![i] = @ + 1]
      /\ UNCHANGED <<table, lastId, rules, load, tables, inForce>> /\ walk' = [walk EXCEPT ![s] = v]
  BY <1>t DEF Rules!RecordFilterMatch, Rules!reqVars
<1>1. WalkFits(s, w) /\ w.verdict # Rules!NoFilter /\ i \in 1..lastId /\ w.verdict.action # "allow"
  <2>1. WalkFits(s, w)
    BY WalksFit DEF Rules!FilterInv
  <2> QED
    BY <1>t, <2>1 DEF WalkFits
<1>2. i \in FilterId
  BY <1>1, <1>t DEF WalkRecord, Rules!Row, Rules!Filter
<1>3. /\ v \in WalkRecord /\ v.at = "done" /\ v.rules = w.rules /\ v.of = w.of /\ v.next = w.next
      /\ v.verdict = w.verdict
  BY <1>t DEF WalkRecord
<1>m. \A m \in Message : (m # s => walk'[m] = walk[m]) /\ walk'[s] = v
  BY <1>0, <1>t
<1>4. matches \in [FilterId -> Nat] /\ matches' \in [FilterId -> Nat]
      /\ \A k \in FilterId : matches'[k] = IF k = i /\ table[i] # Rules!NoFilter THEN matches[k] + 1 ELSE matches[k]
  BY <1>0, <1>2, <1>t DEF Rules!FilterTypes
<1> HIDE DEF v, i
<1>5. WalkFits(s, v)
  BY <1>1, <1>3, <1>t DEF WalkFits
<1>6. Rules!CountInv'
  <2> SUFFICES ASSUME NEW k \in FilterId, k > lastId PROVE matches'[k] = 0
    BY <1>0 DEF Rules!CountInv
  <2>1. lastId \in Nat /\ k \in Nat
    BY <1>t DEF Rules!FilterTypes, Rules!FiltersBounds
  <2>2. k # i
    BY <1>1, <2>1
  <2> QED
    BY <1>4, <2>2 DEF Rules!FilterInv, Rules!CountInv
<1>7. Rules!MatchesAreCounted'
  <2> SUFFICES ASSUME NEW k \in FilterId, table[k] # Rules!NoFilter PROVE matches'[k] = Cardinality(Counted(k)')
    BY <1>0, CountsAgree
  <2>0. matches[k] = Cardinality(Counted(k))
    BY CountsAgree DEF Rules!FilterInv
  <2>1. CASE k # i
    <3>1. Counted(k)' = Counted(k)
      BY <1>3, <1>m, <1>t, <2>1 DEF Counted, i
    <3> QED
      BY <1>4, <2>0, <2>1, <3>1
  <2>2. CASE k = i
    <3>1. Counted(k)' = Counted(k) \cup {s} /\ s \notin Counted(k)
      BY <1>1, <1>3, <1>m, <1>t, <2>2 DEF Counted, i
    <3>2. IsFiniteSet(Message) /\ Counted(k) \in SUBSET Message
      BY SameFilterCount DEF Rules!FiltersBounds, Counted
    <3>3. IsFiniteSet(Counted(k))
      BY <3>2, FS_Subset
    <3>4. Cardinality(Counted(k) \cup {s}) = Cardinality(Counted(k)) + 1
      BY <3>1, <3>3, FS_AddElement
    <3> QED
      BY <1>4, <2>0, <2>2, <3>1, <3>4
  <2> QED
    BY <2>1, <2>2
<1> QED
  BY <1>0, <1>3, <1>4, <1>5, <1>6, <1>7, WalkKeeps

\* The invariant of the filters is kept by every step.
LEMMA NextFilters ==
  ASSUME Rules!FiltersBounds, Rules!FilterInv, [Rules!FiltersNext]_Rules!vars
  PROVE  Rules!FilterInv'
<1>t. /\ Rules!FilterTypes /\ Rules!KeysInv /\ Rules!LoadInv
      /\ table \in [FilterId -> Rules!Row] /\ lastId \in Nat
      /\ inForce \in 0..Len(tables) /\ rules = Rules!RulesOfTable(tables, inForce)
  BY DEF Rules!FilterInv, Rules!FilterTypes, Rules!LoadInv
<1>k. \A i \in FilterId : table[i] # Rules!NoFilter => table[i].id = i /\ i \in 1..lastId
  <2>1. Len(tables) \in DOMAIN tables /\ table = tables[Len(tables)]
    BY <1>t DEF Rules!FilterTypes
  <2> QED
    BY <1>t, <2>1 DEF Rules!KeysInv
<1>s. Sweep \in Rules!Loaders /\ \A a \in Admin : a \in Rules!Loaders
  BY DEF Rules!Loaders
<1>n. Rules!NoLoad \in [at : {"no", "list", "install"}, rules : Seq(Rules!Row), of : Nat]
      /\ Rules!NoLoad.at = "no"
  <2>1. <<>> \in Seq(Rules!Row)
    OBVIOUS
  <2> QED
    BY <2>1 DEF Rules!NoLoad
<1>w. /\ Rules!NoWalk \in WalkRecord /\ Rules!NoWalk.at = "no" /\ Rules!NoWalk.next = 1
      /\ Rules!NoWalk.verdict = Rules!NoFilter
  <2>1. <<>> \in Seq(Rules!Row) /\ Rules!NoFilter \in Rules!Row
    BY DEF Rules!Row
  <2> QED
    BY <2>1 DEF Rules!NoWalk, WalkRecord
<1>l. ASSUME NEW l \in Rules!Loaders, load' = [load EXCEPT ![l] = [Rules!NoLoad EXCEPT !.at = "list"]],
             UNCHANGED <<table, matches, lastId, walk, tables, rules, inForce>>
      PROVE  Rules!FilterInv'
  <2> DEFINE r == [Rules!NoLoad EXCEPT !.at = "list"]
  <2>1. r \in [at : {"no", "list", "install"}, rules : Seq(Rules!Row), of : Nat] /\ r.at = "list"
    BY <1>n
  <2> HIDE DEF r
  <2> QED
    BY <1>l, <1>t, <2>1, LoadKeeps DEF r
<1>1. ASSUME NEW a \in Admin, NEW f \in Rules!Filter, Rules!UpdateFilter(a, f) PROVE Rules!FilterInv'
  <2>1. /\ f.id \in FilterId /\ table[f.id] # Rules!NoFilter /\ UNCHANGED <<matches, lastId>>
        /\ Rules!Save([table EXCEPT ![f.id] = f]) /\ Rules!Saved(a)
    BY <1>1 DEF Rules!UpdateFilter, Rules!Filter
  <2> DEFINE t == [table EXCEPT ![f.id] = f]
  <2>2. /\ t \in [FilterId -> Rules!Row] /\ t[f.id] = f
        /\ \A i \in FilterId : i # f.id => t[i] = table[i]
    BY <1>t, <2>1 DEF Rules!Row
  <2>3. Rules!Save(t)
    BY <2>1
  <2> HIDE DEF t
  <2>4. \A i \in FilterId : t[i] # Rules!NoFilter => t[i].id = i /\ i \in 1..lastId'
    BY <1>k, <2>1, <2>2
  <2>5. \A i \in FilterId : t[i] # Rules!NoFilter /\ table[i] = Rules!NoFilter => i > lastId
    BY <2>1, <2>2
  <2> QED
    BY <2>1, <2>2, <2>3, <2>4, <2>5, SaveKeeps
<1>2. ASSUME NEW a \in Admin, NEW f \in Rules!Filter, Rules!CreateFilter(a, f.id, f) PROVE Rules!FilterInv'
  <2>1. /\ f.id \in FilterId /\ f.id = lastId + 1 /\ lastId' = lastId + 1 /\ UNCHANGED matches
        /\ Rules!Save([table EXCEPT ![f.id] = f]) /\ Rules!Saved(a)
    BY <1>2 DEF Rules!CreateFilter, Rules!Filter
  <2> DEFINE t == [table EXCEPT ![f.id] = f]
  <2>2. /\ t \in [FilterId -> Rules!Row] /\ t[f.id] = f
        /\ \A i \in FilterId : i # f.id => t[i] = table[i]
    BY <1>t, <2>1 DEF Rules!Row
  <2>3. Rules!Save(t)
    BY <2>1
  <2> HIDE DEF t
  <2>4. ASSUME NEW i \in FilterId, t[i] # Rules!NoFilter PROVE t[i].id = i /\ i \in 1..lastId'
    <3>1. CASE i = f.id
      BY <1>t, <2>1, <2>2, <3>1
    <3>2. CASE i # f.id
      <4>1. t[i] = table[i] /\ table[i].id = i /\ i \in 1..lastId
        BY <1>k, <2>2, <2>4, <3>2
      <4> QED
        BY <1>t, <2>1, <4>1
    <3> QED
      BY <3>1, <3>2
  <2>5. \A i \in FilterId : t[i] # Rules!NoFilter /\ table[i] = Rules!NoFilter => i > lastId
    BY <1>t, <2>1, <2>2
  <2> QED
    BY <2>1, <2>2, <2>3, <2>4, <2>5, SaveKeeps
<1>3. ASSUME NEW a \in Admin, NEW i \in FilterId, Rules!DeleteFilter(a, i) PROVE Rules!FilterInv'
  <2>1. /\ UNCHANGED <<matches, lastId>> /\ Rules!Saved(a)
        /\ Rules!Save([table EXCEPT ![i] = Rules!NoFilter])
    BY <1>3 DEF Rules!DeleteFilter
  <2> DEFINE t == [table EXCEPT ![i] = Rules!NoFilter]
  <2>2. /\ t \in [FilterId -> Rules!Row] /\ t[i] = Rules!NoFilter
        /\ \A j \in FilterId : j # i => t[j] = table[j]
    BY <1>t DEF Rules!Row
  <2>3. Rules!Save(t)
    BY <2>1
  <2> HIDE DEF t
  <2>4. \A j \in FilterId : t[j] # Rules!NoFilter => t[j].id = j /\ j \in 1..lastId'
    BY <1>k, <2>1, <2>2
  <2>5. \A j \in FilterId : t[j] # Rules!NoFilter /\ table[j] = Rules!NoFilter => j > lastId
    BY <2>2
  <2> QED
    BY <2>1, <2>2, <2>3, <2>4, <2>5, SaveKeeps
<1>4. ASSUME UNCHANGED <<table, matches, lastId, rules, load, walk, tables, inForce>> PROVE Rules!FilterInv'
  <2>1. Rules!FilterTypes' /\ Rules!KeysInv' /\ Rules!LoadInv' /\ Rules!CountInv'
    BY <1>4 DEF Rules!FilterInv, Rules!FilterTypes, Rules!KeysInv, Rules!LoadInv, Rules!CountInv
  <2>2. Rules!WalkInv' /\ Rules!VerdictsAreOfOneTable'
    BY <1>4 DEF Rules!FilterInv, Rules!WalkInv, Rules!VerdictsAreOfOneTable
  <2>3. Rules!MatchesAreCounted'
    BY <1>4, CountsAgree DEF Rules!FilterInv, Counted
  <2> QED
    BY <2>1, <2>2, <2>3 DEF Rules!FilterInv
<1>5. ASSUME NEW l \in Rules!Loaders, Rules!ListFilters(l) PROVE Rules!FilterInv'
  <2> DEFINE r == [at |-> "install", rules |-> Rules!Compiled(table), of |-> Len(tables)]
  <2>1. /\ load' = [load EXCEPT ![l] = r]
        /\ UNCHANGED <<table, matches, lastId, rules, walk, tables, inForce>>
    BY <1>5 DEF Rules!ListFilters, Rules!bounds
  <2>2. Len(tables) \in 1..Len(tables) /\ Len(tables) \in DOMAIN tables /\ table = tables[Len(tables)]
    BY <1>t DEF Rules!FilterTypes
  <2>3. Rules!RulesOfTable(tables, Len(tables)) = Rules!Compiled(table)
    BY <2>2 DEF Rules!RulesOfTable
  <2>4. Rules!Compiled(table) \in Seq(Rules!Row)
    BY <1>t, <2>2, <2>3, RulesAreRows
  <2>5. r \in [at : {"no", "list", "install"}, rules : Seq(Rules!Row), of : Nat]
        /\ r.of \in DOMAIN tables /\ r.rules = Rules!RulesOfTable(tables, r.of)
    BY <2>2, <2>3, <2>4
  <2> HIDE DEF r
  <2> QED
    BY <1>t, <2>1, <2>5, LoadKeeps
<1>6. ASSUME NEW l \in Rules!Loaders, Rules!ListFails(l) PROVE Rules!FilterInv'
  <2>1. /\ load' = [load EXCEPT ![l] = Rules!NoLoad]
        /\ UNCHANGED <<table, matches, lastId, rules, walk, tables, inForce>>
    BY <1>6 DEF Rules!ListFails
  <2> QED
    BY <1>n, <1>t, <2>1, LoadKeeps
<1>7. ASSUME NEW l \in Rules!Loaders, Rules!Install(l) PROVE Rules!FilterInv'
  <2>1. /\ load' = [load EXCEPT ![l] = Rules!NoLoad] /\ rules' = load[l].rules /\ inForce' = load[l].of
        /\ UNCHANGED <<table, matches, lastId, walk, tables>>
    BY <1>7 DEF Rules!Install, Rules!bounds
  <2>2. load[l].of \in DOMAIN tables /\ load[l].rules = Rules!RulesOfTable(tables, load[l].of)
    BY <1>7, <1>t DEF Rules!LoadInv, Rules!Install
  <2>3. inForce' \in 0..Len(tables) /\ rules' = Rules!RulesOfTable(tables, inForce')
    BY <1>t, <2>1, <2>2 DEF Rules!FilterTypes
  <2> QED
    BY <1>n, <2>1, <2>3, LoadKeeps
<1>8. CASE Rules!Tick
  <2>1. /\ load' = [load EXCEPT ![Sweep] = [Rules!NoLoad EXCEPT !.at = "list"]]
        /\ UNCHANGED <<table, matches, lastId, walk, tables, rules, inForce>>
    BY <1>8 DEF Rules!Tick, Rules!bounds
  <2> QED
    BY <1>l, <1>s, <2>1
<1>9. CASE Rules!Restart
  <2>0. /\ rules' = <<>> /\ inForce' = 0 /\ load' = [l \in Rules!Loaders |-> Rules!NoLoad]
        /\ walk' = [s \in Message |-> IF walk[s].at = "done" THEN walk[s] ELSE Rules!NoWalk]
        /\ UNCHANGED <<table, matches, lastId, tables>>
    BY <1>9 DEF Rules!Restart
  <2>w. walk \in [Message -> WalkRecord]
    BY <1>t DEF Rules!FilterTypes, WalkRecord
  <2>1. Rules!NoWalk \in WalkRecord /\ Rules!NoWalk.at = "no"
    BY <1>w
  <2>2. walk' \in [Message -> WalkRecord]
    BY <2>0, <2>1, <2>w
  <2>3. Rules!FilterTypes'
    <3>1. load' \in [Rules!Loaders -> [at : {"no", "list", "install"}, rules : Seq(Rules!Row), of : Nat]]
      BY <1>n, <2>0
    <3>2. inForce' \in 0..Len(tables)
      BY <1>t, <2>0 DEF Rules!FilterTypes
    <3> QED
      BY <1>t, <2>0, <2>2, <3>1, <3>2 DEF Rules!FilterTypes, WalkRecord
  <2>4. Rules!KeysInv' /\ Rules!CountInv'
    BY <2>0 DEF Rules!FilterInv, Rules!KeysInv, Rules!CountInv
  <2>5. Rules!LoadInv'
    BY <1>n, <2>0 DEF Rules!LoadInv, Rules!RulesOfTable
  <2>6. Rules!WalkInv' /\ Rules!VerdictsAreOfOneTable'
    <3> SUFFICES ASSUME NEW s \in Message PROVE WalkFits(s, walk[s])'
      BY WalksFit
    <3>1. CASE walk[s].at = "done"
      <4>1. walk'[s] = walk[s] /\ WalkFits(s, walk[s])
        BY <2>0, <3>1, WalksFit DEF Rules!FilterInv
      <4> QED
        BY <2>0, <4>1 DEF WalkFits
    <3>2. CASE walk[s].at # "done"
      <4>1. walk'[s].at = "no"
        BY <2>0, <2>1, <3>2
      <4> QED
        BY <4>1 DEF WalkFits
    <3> QED
      BY <3>1, <3>2
  <2>7. Rules!MatchesAreCounted'
    <3>1. \A i : Counted(i)' = Counted(i)
      BY <2>0, <2>1 DEF Counted
    <3> QED
      BY <2>0, <3>1, CountsAgree DEF Rules!FilterInv
  <2> QED
    BY <2>3, <2>4, <2>5, <2>6, <2>7 DEF Rules!FilterInv
<1>10. ASSUME NEW s \in Message, Rules!BeginWalk(s) PROVE Rules!FilterInv'
  <2> DEFINE w == [Rules!NoWalk EXCEPT !.at = "walk", !.rules = rules, !.of = inForce]
  <2>0. /\ walk[s].at = "no" /\ walk' = [walk EXCEPT ![s] = w]
        /\ UNCHANGED <<table, matches, lastId, rules, load, tables, inForce>>
    BY <1>10 DEF Rules!BeginWalk, Rules!reqVars
  <2>2. rules \in Seq(Rules!Row) /\ inForce \in Nat
    BY <1>t, RulesAreRows
  <2>3. /\ w \in WalkRecord /\ w.at = "walk" /\ w.rules = rules /\ w.of = inForce /\ w.next = 1
        /\ w.verdict = Rules!NoFilter
    BY <1>w, <2>2 DEF WalkRecord
  <2> HIDE DEF w
  <2>4. WalkFits(s, w)
    <3>1. w.next = 1 /\ w.next \in 1..(Len(w.rules) + 1)
      BY <2>2, <2>3
    <3> QED
      BY <1>t, <2>3, <3>1 DEF WalkFits
  <2>5. w.at # "done" /\ walk[s].at # "done"
    BY <2>0, <2>3
  <2> QED
    BY <2>0, <2>3, <2>4, <2>5, CountsKept, WalkKeeps
<1>11. CASE \E a \in Admin : (\E i \in FilterId : Rules!ReadFilter(a, i)) \/ Rules!UpdateMissing(a)
  <2>1. UNCHANGED <<table, matches, lastId, rules, load, walk, tables, inForce>>
    BY <1>11 DEF Rules!ReadFilter, Rules!UpdateMissing
  <2> QED
    BY <1>4, <2>1
<1>12. CASE UNCHANGED Rules!vars
  BY <1>12, <1>4 DEF Rules!vars, Rules!reqVars
<1> QED
  BY <1>1, <1>2, <1>3, <1>5, <1>6, <1>7, <1>8, <1>9, <1>10, <1>11, <1>12, StepKeeps, RecordKeeps
     DEF Rules!FiltersNext

\* For any filters, messages and administrators: the verdict on a message is the one
\* the rules of a single table give it, however often they are replaced while it is
\* evaluated, and the count of every filter is the number of messages it has refused
\* or held (filter.go, Evaluate, Load; store/filters.go, RecordFilterMatch,
\* UpdateFilter).
THEOREM FiltersConsistent == Rules!FiltersSpec => []FiltersAreConsistent
<1>1. Rules!FiltersBounds
  BY ScreeningAssumption
<1>2. Rules!FilterInv => FiltersAreConsistent
  BY DEF Rules!FilterInv, Rules!FiltersAreConsistent, FiltersAreConsistent
<1> QED
  BY InitFilters, NextFilters, <1>1, <1>2, PTL DEF Rules!FiltersSpec
==============================================================================
