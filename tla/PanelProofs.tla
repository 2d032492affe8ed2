----------------------------- MODULE PanelProofs -----------------------------
(***************************************************************************)
(* Accounts, second factors, live streams and the limit on sign-ins, for   *)
(* any number of requests, accounts, codes, streams and addresses.  The    *)
(* inductive invariants are with the modules Accounts, SecondFactor,       *)
(* LiveEvents and Limiter.                                                 *)
(***************************************************************************)
EXTENDS Panel, FiniteSetTheorems, SequenceTheorems, WellFoundedInduction, TLAPS

-----------------------------------------------------------------------------
(* The live stream.                                                        *)

\* What a stream has received and what waits in its channel
Seen(s) == got[s] \o chan[s].buf

\* Every event since the subscription was seen, in order, or missed.
Whole(h, m, b, e) ==
  /\ {h[i] : i \in 1..Len(h)} \union m = b + 1 .. e
  /\ \A i, j \in 1..Len(h) : i < j => h[i] < h[j]

\* The property of the streams, stream by stream.
LEMMA SlowMeansWhole ==
  ASSUME Streams!LiveTypes
  PROVE  Streams!SlowClientsAreAlone <=>
           \A s \in clients : Whole(Seen(s), missed[s], from[s], events)
<1> SUFFICES ASSUME NEW s \in Stream
             PROVE  Seen(s) \in Seq(Nat) /\ DOMAIN Seen(s) = 1..Len(Seen(s))
  BY DEF Streams!SlowClientsAreAlone, Streams!ToSet, Streams!LiveTypes, Whole, Seen
<1>1. got[s] \in Seq(Nat) /\ chan[s].buf \in Seq(Nat)
  BY DEF Streams!LiveTypes
<1> QED
  BY <1>1, ConcatProperties, LenProperties DEF Seen

\* The same after a step
LEMMA SlowStaysWhole ==
  ASSUME Streams!LiveTypes'
  PROVE  Streams!SlowClientsAreAlone' <=>
           \A s \in clients' : Whole(Seen(s)', missed'[s], from'[s], events')
<1> SUFFICES ASSUME NEW s \in Stream
             PROVE  Seen(s)' \in Seq(Nat) /\ DOMAIN Seen(s)' = 1..Len(Seen(s)')
  BY DEF Streams!SlowClientsAreAlone, Streams!ToSet, Streams!LiveTypes, Whole, Seen
<1>1. got'[s] \in Seq(Nat) /\ chan'[s].buf \in Seq(Nat)
  BY DEF Streams!LiveTypes
<1> QED
  BY <1>1, ConcatProperties, LenProperties DEF Seen

\* The next event is seen last, or missed.
LEMMA OneMore ==
  ASSUME NEW h \in Seq(Nat), NEW e \in Nat, NEW b \in 0..e, NEW m, Whole(h, m, b, e)
  PROVE  /\ Whole(Append(h, e + 1), m, b, e + 1)
         /\ Whole(h, m \union {e + 1}, b, e + 1)
<1> DEFINE g == Append(h, e + 1)
<1>1. /\ Len(h) \in Nat /\ Len(g) = Len(h) + 1 /\ g[Len(h) + 1] = e + 1
      /\ \A i \in 1..Len(h) : g[i] = h[i] /\ h[i] \in b + 1 .. e
  BY AppendProperties, LenProperties DEF Whole
<1>2. b + 1 .. e + 1 = (b + 1 .. e) \union {e + 1}
  OBVIOUS
<1> HIDE DEF g
<1>0. 1..Len(g) = (1..Len(h)) \union {Len(h) + 1}
  BY <1>1
<1>3. {g[i] : i \in 1..Len(g)} = {h[i] : i \in 1..Len(h)} \union {e + 1}
  <2>1. \A i \in 1..Len(h) : g[i] = h[i]
    BY <1>1
  <2>2. g[Len(h) + 1] = e + 1
    BY <1>1
  <2> QED
    BY <1>0, <2>1, <2>2, Zenon
<1>4. \A i, j \in 1..Len(g) : i < j => g[i] < g[j]
  <2> SUFFICES ASSUME NEW i \in 1..Len(g), NEW j \in 1..Len(g), i < j PROVE g[i] < g[j]
    OBVIOUS
  <2>1. i \in 1..Len(h) /\ h[i] <= e /\ h[i] \in Int
    BY <1>1
  <2>2. CASE j = Len(h) + 1
    BY <1>1, <2>1, <2>2
  <2>3. CASE j \in 1..Len(h)
    BY <1>1, <2>1, <2>3 DEF Whole
  <2> QED
    BY <1>0, <2>2, <2>3
<1>5. Whole(g, m, b, e + 1)
  BY <1>2, <1>3, <1>4 DEF Whole
<1>6. Whole(h, m \union {e + 1}, b, e + 1)
  BY <1>2 DEF Whole
<1> QED
  BY <1>5, <1>6 DEF g

\* What is published goes to the end of what a stream sees, and what it receives
\* comes from the front of its channel.
LEMMA SeenGrows ==
  ASSUME NEW g \in Seq(Nat), NEW c \in Seq(Nat), NEW e \in Nat
  PROVE  g \o Append(c, e) = Append(g \o c, e)
<1>1. <<e>> \in Seq(Nat) /\ g \o c \in Seq(Nat)
  BY ConcatProperties
<1> QED
  BY <1>1, AppendIsConcat, ConcatAssociative

\* An event that leaves a channel for its client stays what the stream has had.
LEMMA SeenStays ==
  ASSUME NEW g \in Seq(Nat), NEW c \in Seq(Nat), c # <<>>
  PROVE  Append(g, Head(c)) \o Tail(c) = g \o c
<1>1. Head(c) \in Nat /\ Tail(c) \in Seq(Nat) /\ <<Head(c)>> \in Seq(Nat)
  BY HeadTailProperties
<1>2. Append(g, Head(c)) \o Tail(c) = g \o (<<Head(c)>> \o Tail(c))
  BY <1>1, AppendIsConcat, ConcatAssociative
<1>3. <<Head(c)>> \o Tail(c) = c
  BY <1>1
<1> QED
  BY <1>2, <1>3

\* No streams, no events.
LEMMA InitLive == Streams!LiveInit => Streams!LiveInv
<1> SUFFICES ASSUME Streams!LiveInit PROVE Streams!LiveInv
  OBVIOUS
<1>1. <<>> \in Seq(Nat)
  OBVIOUS
<1>2. Streams!LiveTypes
  BY <1>1 DEF Streams!LiveInit, Streams!LiveTypes, Streams!NoChan, Streams!Place
<1>3. Streams!HubInv /\ Streams!NewInv /\ Streams!NoPanic /\ Streams!SlowClientsAreAlone
  BY DEF Streams!LiveInit, Streams!HubInv, Streams!NewInv, Streams!NoPanic, Streams!SlowClientsAreAlone
<1> QED
  BY <1>2, <1>3 DEF Streams!LiveInv

\* What the types say of a stream
LEMMA LiveRow ==
  ASSUME Streams!LiveTypes, NEW s \in Stream
  PROVE  /\ chan[s].buf \in Seq(Nat) /\ chan[s].closed \in BOOLEAN
         /\ got[s] \in Seq(Nat) /\ Seen(s) \in Seq(Nat) /\ missed[s] \subseteq Nat
         /\ events \in Nat /\ from[s] \in 0..events
<1>1. got[s] \in Seq(Nat) /\ chan[s] \in [buf : Seq(Nat), closed : BOOLEAN]
  BY DEF Streams!LiveTypes
<1>2. Seen(s) \in Seq(Nat)
  BY <1>1, ConcatProperties DEF Seen
<1> QED
  BY <1>1, <1>2 DEF Streams!LiveTypes

\* A step that publishes nothing and lets every stream of the hub see what it saw
LEMMA LiveQuiet ==
  ASSUME Streams!LiveInv, Streams!LiveTypes', clients' \subseteq clients, UNCHANGED <<events, from, missed>>,
         \A s \in clients' : Seen(s)' = Seen(s)
  PROVE  Streams!SlowClientsAreAlone'
<1>1. \A s \in clients : Whole(Seen(s), missed[s], from[s], events)
  BY SlowMeansWhole DEF Streams!LiveInv
<1>2. \A s \in clients' : Whole(Seen(s)', missed'[s], from'[s], events')
  BY <1>1
<1> QED
  BY <1>2, SlowStaysWhole

\* An event is offered to every channel, and goes where there is room.
LEMMA LivePublishes ==
  ASSUME Streams!LiveInv, Streams!LiveBounds, Streams!Notify
  PROVE  Streams!LiveInv'
<1>0. Streams!LiveTypes /\ Streams!HubInv /\ Streams!NewInv /\ ~panic /\ clients \subseteq Stream
  BY DEF Streams!LiveInv, Streams!LiveTypes, Streams!NoPanic
<1>1. /\ events' = events + 1
      /\ panic' = (panic \/ \E s \in clients : chan[s].closed)
      /\ chan' = [s \in Stream |-> IF s \in clients \ Streams!FullOf(clients)
                                   THEN [chan[s] EXCEPT !.buf = Append(@, events + 1)] ELSE chan[s]]
      /\ missed' = [s \in Stream |-> IF s \in Streams!FullOf(clients) THEN missed[s] \union {events + 1}
                                     ELSE missed[s]]
      /\ UNCHANGED <<at, clients, closed, server, from, got>>
  <2>1. (IF closed THEN {} ELSE clients) = clients
    BY <1>0 DEF Streams!HubInv
  <2> QED
    BY <2>1 DEF Streams!Notify, Streams!Publish
<1>2. Streams!FullOf(clients) \subseteq clients
  BY DEF Streams!FullOf
<1>3. ASSUME NEW s \in Stream
      PROVE  /\ chan'[s].closed = chan[s].closed
             /\ s \notin clients => chan'[s] = chan[s] /\ missed'[s] = missed[s]
             /\ s \in Streams!FullOf(clients) => chan'[s] = chan[s] /\ missed'[s] = missed[s] \union {events + 1}
             /\ s \in clients \ Streams!FullOf(clients) =>
                  chan'[s].buf = Append(chan[s].buf, events + 1) /\ missed'[s] = missed[s]
             /\ chan'[s] \in [buf : Seq(Nat), closed : BOOLEAN] /\ missed'[s] \subseteq Nat
  <2>1. chan[s].buf \in Seq(Nat) /\ events \in Nat /\ missed[s] \subseteq Nat
    BY <1>0, LiveRow
  <2>2. events + 1 \in Nat /\ Append(chan[s].buf, events + 1) \in Seq(Nat)
    BY <2>1, AppendProperties
  <2>3. chan[s] \in [buf : Seq(Nat), closed : BOOLEAN]
    BY <1>0 DEF Streams!LiveTypes
  <2> QED
    BY <1>1, <1>2, <2>1, <2>2, <2>3
<1>4. Streams!LiveTypes'
  <2>1. chan' \in [Stream -> [buf : Seq(Nat), closed : BOOLEAN]] /\ missed' \in [Stream -> SUBSET Nat]
    BY <1>1, <1>3
  <2>2. events' \in Nat /\ from' \in [Stream -> 0..events']
    BY <1>0, <1>1 DEF Streams!LiveTypes
  <2> QED
    BY <1>0, <1>1, <2>1, <2>2 DEF Streams!LiveTypes
<1>5. Streams!HubInv' /\ Streams!NewInv' /\ Streams!NoPanic'
  BY <1>0, <1>1, <1>3 DEF Streams!HubInv, Streams!NewInv, Streams!NoPanic
<1>6. ASSUME NEW s \in clients PROVE Whole(Seen(s)', missed'[s], from[s], events + 1)
  <2>0. s \in Stream /\ Whole(Seen(s), missed[s], from[s], events)
    BY <1>0, SlowMeansWhole DEF Streams!LiveInv
  <2>1. /\ got[s] \in Seq(Nat) /\ chan[s].buf \in Seq(Nat) /\ Seen(s) \in Seq(Nat)
        /\ events \in Nat /\ from[s] \in 0..events
    BY <1>0, <2>0, LiveRow
  <2>a. events + 1 \in Nat
    BY <2>1
  <2>2. /\ Whole(Append(Seen(s), events + 1), missed[s], from[s], events + 1)
        /\ Whole(Seen(s), missed[s] \union {events + 1}, from[s], events + 1)
    BY <2>0, <2>1, OneMore
  <2>3. CASE s \in Streams!FullOf(clients)
    BY <1>1, <1>3, <2>0, <2>2, <2>3 DEF Seen
  <2>4. CASE s \notin Streams!FullOf(clients)
    <3>1. Seen(s)' = got[s] \o Append(chan[s].buf, events + 1) /\ missed'[s] = missed[s]
      BY <1>1, <1>3, <2>0, <2>4 DEF Seen
    <3>2. got[s] \o Append(chan[s].buf, events + 1) = Append(Seen(s), events + 1)
      BY <2>1, <2>a, SeenGrows DEF Seen
    <3> QED
      BY <2>2, <3>1, <3>2
  <2> QED
    BY <2>3, <2>4
<1>7. Streams!SlowClientsAreAlone'
  <2>1. \A s \in clients' : Whole(Seen(s)', missed'[s], from'[s], events')
    BY <1>1, <1>6
  <2> QED
    BY <1>4, <2>1, SlowStaysWhole
<1> QED
  BY <1>4, <1>5, <1>7 DEF Streams!LiveInv

\* A new stream has had everything since it came.
LEMMA LiveSubscribes ==
  ASSUME Streams!LiveInv, NEW s \in Stream, Streams!Subscribe(s)
  PROVE  Streams!LiveInv'
<1>0. Streams!LiveTypes /\ Streams!HubInv /\ Streams!NewInv /\ ~panic
  BY DEF Streams!LiveInv, Streams!NoPanic
<1>1. /\ at[s] = "accepted" /\ at' = [at EXCEPT ![s] = "open"]
      /\ from' = [from EXCEPT ![s] = events]
      /\ UNCHANGED <<closed, server, events, got, missed, panic>>
  BY DEF Streams!Subscribe, Streams!Goes
<1>2. /\ s \notin clients /\ chan[s] = Streams!NoChan /\ got[s] = <<>> /\ missed[s] = {}
      /\ events \in Nat
  BY <1>0, <1>1 DEF Streams!HubInv, Streams!NewInv, Streams!LiveTypes
<1>3. /\ at' \in [Stream -> Streams!Place] /\ from' \in [Stream -> 0..events]
      /\ at'[s] = "open" /\ from'[s] = events
      /\ \A t \in Stream \ {s} : at'[t] = at[t] /\ from'[t] = from[t]
  BY <1>0, <1>1, <1>2 DEF Streams!LiveTypes, Streams!Place
<1>4. CASE closed
  <2>1. /\ clients' = clients /\ clients = {}
        /\ chan' = [t \in Stream |-> IF t \in {s} THEN [chan[t] EXCEPT !.closed = TRUE] ELSE chan[t]]
    BY <1>0, <1>4 DEF Streams!HubInv, Streams!Subscribe, Streams!CloseAll
  <2>2. chan' \in [Stream -> [buf : Seq(Nat), closed : BOOLEAN]] /\ \A t \in Stream \ {s} : chan'[t] = chan[t]
    BY <1>0, <2>1 DEF Streams!LiveTypes
  <2>3. Streams!LiveTypes'
    BY <1>0, <1>1, <1>3, <2>1, <2>2 DEF Streams!LiveTypes
  <2>4. Streams!HubInv' /\ Streams!NewInv' /\ Streams!NoPanic'
    BY <1>0, <1>1, <1>3, <2>1, <2>2 DEF Streams!HubInv, Streams!NewInv, Streams!NoPanic
  <2>5. Streams!SlowClientsAreAlone'
    BY <2>1 DEF Streams!SlowClientsAreAlone
  <2> QED
    BY <2>3, <2>4, <2>5 DEF Streams!LiveInv
<1>5. CASE ~closed
  <2>1. clients' = clients \union {s} /\ chan' = chan
    BY <1>5 DEF Streams!Subscribe
  <2>3. Streams!LiveTypes'
    BY <1>0, <1>1, <1>3, <2>1 DEF Streams!LiveTypes
  <2>4. Streams!HubInv' /\ Streams!NewInv' /\ Streams!NoPanic'
    BY <1>0, <1>1, <1>2, <1>3, <1>5, <2>1 DEF Streams!HubInv, Streams!NewInv, Streams!NoPanic, Streams!NoChan
  <2>5. Whole(Seen(s)', missed'[s], from'[s], events')
    <3>1. Seen(s)' = <<>> /\ Len(<<>>) = 0 /\ 1..0 = {}
      BY <1>1, <1>2, <2>1 DEF Seen, Streams!NoChan
    <3>2. from'[s] + 1 .. events' = {} /\ missed'[s] = {}
      BY <1>1, <1>2, <1>3
    <3> QED
      BY <3>1, <3>2 DEF Whole
  <2>6. \A t \in clients : Whole(Seen(t), missed[t], from[t], events)
    BY <1>0, SlowMeansWhole DEF Streams!LiveInv
  <2>7. \A t \in clients : t # s /\ t \in Stream /\ Seen(t)' = Seen(t) /\ missed'[t] = missed[t] /\ from'[t] = from[t]
    BY <1>0, <1>1, <1>2, <1>3, <2>1 DEF Seen, Streams!LiveTypes
  <2>8. Streams!SlowClientsAreAlone'
    <3>1. \A t \in clients' : Whole(Seen(t)', missed'[t], from'[t], events')
      BY <1>1, <2>1, <2>5, <2>6, <2>7
    <3> QED
      BY <2>3, <3>1, SlowStaysWhole
  <2> QED
    BY <2>3, <2>4, <2>8 DEF Streams!LiveInv
<1> QED
  BY <1>4, <1>5

\* A stream takes the first event of its channel.
LEMMA LiveReceives ==
  ASSUME Streams!LiveInv, NEW s \in Stream, Streams!Receive(s)
  PROVE  Streams!LiveInv'
<1>0. Streams!LiveTypes /\ Streams!HubInv /\ Streams!NewInv /\ ~panic
  BY DEF Streams!LiveInv, Streams!NoPanic
<1>1. /\ at[s] = "open" /\ chan[s].buf # <<>>
      /\ got' = [got EXCEPT ![s] = Append(@, Head(chan[s].buf))]
      /\ chan' = [chan EXCEPT ![s].buf = Tail(@)]
      /\ UNCHANGED <<at, clients, closed, server, events, from, missed, panic>>
  BY DEF Streams!Receive
<1>2. chan[s].buf \in Seq(Nat) /\ got[s] \in Seq(Nat)
  BY <1>0, LiveRow
<1>3. Head(chan[s].buf) \in Nat /\ Tail(chan[s].buf) \in Seq(Nat) /\ Append(got[s], Head(chan[s].buf)) \in Seq(Nat)
  BY <1>1, <1>2, HeadTailProperties, AppendProperties
<1>4. /\ got' \in [Stream -> Seq(Nat)] /\ chan' \in [Stream -> [buf : Seq(Nat), closed : BOOLEAN]]
      /\ got'[s] = Append(got[s], Head(chan[s].buf)) /\ chan'[s].buf = Tail(chan[s].buf)
      /\ \A t \in Stream : chan'[t].closed = chan[t].closed
      /\ \A t \in Stream \ {s} : got'[t] = got[t] /\ chan'[t] = chan[t]
  BY <1>0, <1>1, <1>3 DEF Streams!LiveTypes
<1>5. Streams!LiveTypes'
  BY <1>0, <1>1, <1>4 DEF Streams!LiveTypes
<1>6. Streams!HubInv' /\ Streams!NewInv' /\ Streams!NoPanic'
  BY <1>0, <1>1, <1>4 DEF Streams!HubInv, Streams!NewInv, Streams!NoPanic, Streams!LiveTypes
<1>7. Seen(s)' = Seen(s)
  BY <1>1, <1>2, <1>4, SeenStays DEF Seen
<1>8. \A t \in clients : Seen(t)' = Seen(t)
  BY <1>0, <1>4, <1>7 DEF Seen, Streams!LiveTypes
<1>9. Streams!SlowClientsAreAlone'
  BY <1>1, <1>5, <1>8, LiveQuiet
<1> QED
  BY <1>5, <1>6, <1>9 DEF Streams!LiveInv

\* A stream that goes takes its channel with it.
LEMMA LiveUnsubscribes ==
  ASSUME Streams!LiveInv, NEW s \in Stream, Streams!Unsubscribe(s)
  PROVE  Streams!LiveInv'
<1>0. Streams!LiveTypes /\ Streams!HubInv /\ Streams!NewInv /\ ~panic
  BY DEF Streams!LiveInv, Streams!NoPanic
<1>1. /\ at[s] = "leaving" /\ at' = [at EXCEPT ![s] = "ended"] /\ clients' = clients \ {s}
      /\ chan' = [t \in Stream |-> IF t \in {s} \intersect clients THEN [chan[t] EXCEPT !.closed = TRUE] ELSE chan[t]]
      /\ panic' = (panic \/ (s \in clients /\ chan[s].closed))
      /\ UNCHANGED <<closed, server, events, from, got, missed>>
  BY DEF Streams!Unsubscribe, Streams!Goes, Streams!CloseAll, Streams!history
<1>2. /\ at' \in [Stream -> Streams!Place] /\ at'[s] = "ended" /\ \A t \in Stream \ {s} : at'[t] = at[t]
      /\ chan' \in [Stream -> [buf : Seq(Nat), closed : BOOLEAN]]
      /\ \A t \in Stream \ {s} : chan'[t] = chan[t]
  BY <1>0, <1>1 DEF Streams!LiveTypes, Streams!Place
<1>3. Streams!LiveTypes'
  BY <1>0, <1>1, <1>2 DEF Streams!LiveTypes
<1>4. Streams!HubInv' /\ Streams!NewInv' /\ Streams!NoPanic'
  BY <1>0, <1>1, <1>2 DEF Streams!HubInv, Streams!NewInv, Streams!NoPanic, Streams!LiveTypes
<1>5. \A t \in clients' : Seen(t)' = Seen(t)
  BY <1>0, <1>1, <1>2 DEF Seen, Streams!LiveTypes
<1>6. Streams!SlowClientsAreAlone'
  BY <1>1, <1>3, <1>5, LiveQuiet
<1> QED
  BY <1>3, <1>4, <1>6 DEF Streams!LiveInv

\* The hub closes every channel that is left, once.
LEMMA LiveCloses ==
  ASSUME Streams!LiveInv, Streams!Close
  PROVE  Streams!LiveInv'
<1>0. Streams!LiveTypes /\ Streams!HubInv /\ Streams!NewInv /\ ~panic
  BY DEF Streams!LiveInv, Streams!NoPanic
<1>1. /\ clients' = {}
      /\ chan' = [t \in Stream |-> IF t \in clients THEN [chan[t] EXCEPT !.closed = TRUE] ELSE chan[t]]
      /\ panic' = (panic \/ \E s \in clients : chan[s].closed)
      /\ UNCHANGED <<at, events, from, got, missed>>
  BY DEF Streams!Close, Streams!CloseAll, Streams!history
<1>2. Streams!LiveTypes'
  BY <1>0, <1>1 DEF Streams!LiveTypes
<1>3. Streams!HubInv' /\ Streams!NoPanic' /\ Streams!SlowClientsAreAlone'
  BY <1>0, <1>1 DEF Streams!HubInv, Streams!NoPanic, Streams!SlowClientsAreAlone
<1>4. Streams!NewInv'
  BY <1>0, <1>1 DEF Streams!HubInv, Streams!NewInv
<1> QED
  BY <1>2, <1>3, <1>4 DEF Streams!LiveInv

\* A stream or the server goes on; the hub and its channels are left alone.
LEMMA LiveGoesOn ==
  ASSUME Streams!LiveInv, UNCHANGED <<chan, clients, closed, events, from, got, missed, panic>>,
         \/ UNCHANGED at
         \/ \E s \in Stream : \/ at[s] = "free" /\ at' = [at EXCEPT ![s] = "accepted"]
                              \/ at[s] = "open" /\ at' = [at EXCEPT ![s] = "leaving"]
  PROVE  Streams!LiveInv'
<1>0. Streams!LiveTypes /\ Streams!HubInv /\ Streams!NewInv /\ ~panic
  BY DEF Streams!LiveInv, Streams!NoPanic
<1>1. Streams!LiveTypes'
  BY <1>0 DEF Streams!LiveTypes, Streams!Place
<1>2. Streams!HubInv' /\ Streams!NewInv' /\ Streams!NoPanic'
  BY <1>0 DEF Streams!HubInv, Streams!NewInv, Streams!NoPanic, Streams!LiveTypes
<1>3. \A s \in clients' : Seen(s)' = Seen(s)
  BY DEF Seen
<1>4. Streams!SlowClientsAreAlone'
  BY <1>1, <1>3, LiveQuiet
<1> QED
  BY <1>1, <1>2, <1>4 DEF Streams!LiveInv

\* The invariant of the streams is kept by every step.
LEMMA NextLive ==
  ASSUME Streams!LiveInv, Streams!LiveBounds, [Streams!LiveNext]_(Streams!vars)
  PROVE  Streams!LiveInv'
<1>1. CASE Streams!Notify
  BY <1>1, LivePublishes
<1>2. CASE Streams!Close
  BY <1>2, LiveCloses
<1>3. ASSUME NEW s \in Stream, Streams!Subscribe(s) \/ Streams!Receive(s) \/ Streams!Unsubscribe(s)
      PROVE  Streams!LiveInv'
  BY <1>3, LiveSubscribes, LiveReceives, LiveUnsubscribes
<1>4. CASE Streams!Signal \/ Streams!Shutdown \/ UNCHANGED Streams!vars
  BY <1>4, LiveGoesOn DEF Streams!Signal, Streams!Shutdown, Streams!vars, Streams!history
<1>5. ASSUME NEW s \in Stream, Streams!Accept(s) \/ Streams!Disconnect(s) \/ Streams!EndOfChannel(s)
      PROVE  Streams!LiveInv'
  <2>1. /\ UNCHANGED <<chan, clients, closed, events, from, got, missed, panic>>
        /\ \/ at[s] = "free" /\ at' = [at EXCEPT ![s] = "accepted"]
           \/ at[s] = "open" /\ at' = [at EXCEPT ![s] = "leaving"]
    BY <1>5 DEF Streams!Accept, Streams!Disconnect, Streams!EndOfChannel, Streams!Goes, Streams!history
  <2>2. \E t \in Stream : \/ at[t] = "free" /\ at' = [at EXCEPT ![t] = "accepted"]
                          \/ at[t] = "open" /\ at' = [at EXCEPT ![t] = "leaving"]
    BY <1>5, <2>1
  <2> QED
    BY <2>1, <2>2, LiveGoesOn
<1> QED
  BY <1>1, <1>2, <1>3, <1>4, <1>5 DEF Streams!LiveNext, Streams!Serve

\* For any number of streams and any size of their channels: a stream of the hub
\* has, in order, every event since it subscribed but those that found its own
\* channel full, and no channel is closed twice or sent on when closed, whatever
\* order clients leave, events come and the server ends in (hub.go).
THEOREM SlowClientsAlone == Streams!LiveSpec => []SlowClientsAreAlone
<1>1. Streams!LiveBounds
  BY PanelAssumption
<1>2. Streams!LiveInv => SlowClientsAreAlone
  BY DEF Streams!LiveInv, SlowClientsAreAlone
<1> QED
  BY InitLive, NextLive, <1>1, <1>2, PTL DEF Streams!LiveSpec

-----------------------------------------------------------------------------
(* Accounts.                                                               *)

NoUser == Users!NoUser

\* The sizes of the panel are sizes of Accounts.
LEMMA Bounds == Request # {} /\ MaxId \in Nat /\ MaxPassword \in Nat \ {0} /\ DefaultRole \in Users!Role
BY PanelAssumption DEF Users!AccountBounds, Users!Role

\* An account that exists has a row, which is not that of an id without account.
LEMMA LiveRows ==
  ASSUME Users!AccountTypes
  PROVE  /\ Users!Live \subseteq Users!Ids
         /\ \A u \in Users!Ids : u \in Users!Live <=> users[u] # NoUser
         /\ \A u \in Users!Live : users[u] \in Users!UserRow
         /\ \A row \in Users!UserRow : row # NoUser
         /\ NoUser \notin Users!UserRow
BY DEF Users!AccountTypes, Users!Live, Users!UserRow, Users!NoUser, Users!Role, NoUser

\* What a statement may do to the table: a new id, or a row of the same address
TableStep ==
  /\ users' \in [Users!Ids -> Users!UserRow \union {NoUser}]
  /\ nextId' \in 1..MaxId + 1 /\ nextId <= nextId'
  /\ \A u \in Users!Ids : u >= nextId' => users'[u] = NoUser
  /\ \A u \in Users!Ids : users'[u] # NoUser =>
       u = nextId \/ (users[u] # NoUser /\ users'[u].email = users[u].email)

\* A step that leaves the users table alone.
LEMMA TableStays ==
  ASSUME Users!AccountTypes, Users!RowsInv, UNCHANGED <<users, nextId>>
  PROVE  TableStep /\ Users!Live' = Users!Live
BY DEF TableStep, Users!AccountTypes, Users!RowsInv, Users!Live, NoUser

\* An INSERT: a new id, and the other rows as they were.
LEMMA TableGrows ==
  ASSUME Users!AccountTypes, Users!RowsInv, nextId <= MaxId, NEW row \in Users!UserRow, Users!Insert(row)
  PROVE  TableStep /\ nextId \in Users!Ids /\ users[nextId] = NoUser /\ users'[nextId] = row
         /\ nextId' = nextId + 1 /\ Users!Live' = Users!Live \union {nextId}
         /\ \A u \in Users!Ids \ {nextId} : users'[u] = users[u]
<1>1. nextId \in Users!Ids /\ users[nextId] = NoUser /\ users'[nextId] = row /\ nextId' = nextId + 1
      /\ \A u \in Users!Ids \ {nextId} : users'[u] = users[u]
  BY Bounds DEF Users!AccountTypes, Users!RowsInv, Users!Insert, Users!Ids, NoUser
<1>2. users' \in [Users!Ids -> Users!UserRow \union {NoUser}] /\ nextId' \in 1..MaxId + 1
  BY <1>1, Bounds DEF Users!AccountTypes, Users!Insert, NoUser
<1>3. Users!Live' = Users!Live \union {nextId}
  <2>1. DOMAIN users = Users!Ids /\ DOMAIN users' = Users!Ids /\ row # NoUser
    BY <1>2, LiveRows DEF Users!AccountTypes
  <2> QED
    BY <1>1, <2>1 DEF Users!Live, NoUser
<1> QED
  BY <1>1, <1>2, <1>3, Bounds DEF TableStep, Users!AccountTypes, Users!RowsInv, Users!Ids, NoUser

\* An UPDATE of one row that keeps its address.
LEMMA TableEdited ==
  ASSUME Users!AccountTypes, Users!RowsInv, NEW u \in Users!Live, NEW row \in Users!UserRow,
         row.email = users[u].email, users' = [users EXCEPT ![u] = row], UNCHANGED nextId
  PROVE  TableStep /\ Users!Live' = Users!Live /\ users'[u] = row
         /\ \A v \in Users!Ids \ {u} : users'[v] = users[v]
<1>0. u \in Users!Ids /\ users[u] # NoUser /\ row # NoUser
  BY LiveRows
<1>1. /\ users' \in [Users!Ids -> Users!UserRow \union {NoUser}]
      /\ users'[u] = row /\ \A v \in Users!Ids \ {u} : users'[v] = users[v]
  BY <1>0 DEF Users!AccountTypes, NoUser
<1>2. Users!Live' = Users!Live
  BY <1>0, <1>1 DEF Users!AccountTypes, Users!Live, NoUser
<1> QED
  BY <1>0, <1>1, <1>2 DEF TableStep, Users!AccountTypes, Users!RowsInv, NoUser

\* A DELETE of one row.
LEMMA TableErased ==
  ASSUME Users!AccountTypes, Users!RowsInv, NEW u, users' = [users EXCEPT ![u] = NoUser], UNCHANGED nextId
  PROVE  TableStep
<1>1. \A v \in Users!Ids : users'[v] = IF v = u THEN NoUser ELSE users[v]
  BY DEF Users!AccountTypes
<1>2. users' \in [Users!Ids -> Users!UserRow \union {NoUser}]
  BY DEF Users!AccountTypes, NoUser
<1> QED
  BY <1>1, <1>2 DEF TableStep, Users!AccountTypes, Users!RowsInv, NoUser

\* The request is about an account that has been given its id, and those that go
\* on to change it still know its address
Fits(q) ==
  /\ q.tgt < nextId'
  /\ q.op \in {"update", "delete", "password", "login"} /\ q.tgt \in Users!Live' =>
       users'[q.tgt].email = q.email
  /\ Users!Asks(q)

\* A request that keeps its target keeps to it.
LEMMA FitsStill ==
  ASSUME Users!AccountTypes, Users!RowsInv, TableStep, NEW r \in Request, NEW q,
         q.tgt = req[r].tgt, q.op = req[r].op, q.email = req[r].email,
         Users!Asks(q)
  PROVE  Fits(q)
<1>1. req[r].tgt \in 0..MaxId /\ req[r].tgt < nextId /\ DOMAIN req = Request
  BY DEF Users!AccountTypes, Users!RowsInv, Users!RequestRow
<1>2. q.tgt < nextId'
  BY <1>1 DEF TableStep, Users!AccountTypes
<1>3. ASSUME q.op \in {"update", "delete", "password", "login"}, q.tgt \in Users!Live'
      PROVE  users'[q.tgt].email = q.email
  <2>1. q.tgt \in Users!Ids /\ users'[q.tgt] # NoUser /\ q.tgt # nextId
    BY <1>1, <1>3 DEF TableStep, Users!Live, NoUser, Users!AccountTypes
  <2>2. q.tgt \in Users!Live /\ users'[q.tgt].email = users[q.tgt].email
    BY <2>1, LiveRows DEF TableStep
  <2> QED
    BY <1>1, <1>3, <2>2 DEF Users!RowsInv, Users!TargetsStay
<1> QED
  BY <1>2, <1>3 DEF Fits

\* One request goes on by one statement.
LEMMA RowsStep ==
  ASSUME Users!AccountTypes, Users!RowsInv, TableStep, NEW r \in Request, NEW q \in Users!RequestRow, Fits(q),
         req' = [req EXCEPT ![r] = q], first' \subseteq Users!Ids,
         sess' \in [Session -> [user : 0..MaxId, pwd : 0..MaxPassword]],
         tok' \in [Token -> [by : 0..MaxId, role : Users!Role]],
         \A s \in Session : sess'[s] = Users!NoSession \/ sess'[s].user \in Users!Live',
         \A t \in Token : tok'[t] = Users!NoToken \/ tok'[t].by \in Users!Live'
  PROVE  Users!AccountTypes' /\ Users!RowsInv'
<1>1. Users!AccountTypes'
  BY DEF Users!AccountTypes, TableStep, NoUser
<1>2. req'[r] = q /\ DOMAIN req' = Request /\ \A p \in Request \ {r} : req'[p] = req[p]
  BY DEF Users!AccountTypes
<1>3. \A p \in Request : Fits(req'[p])
  BY <1>2, FitsStill DEF Users!RowsInv
<1>4. /\ Users!TargetsStay'
      /\ \A p \in Request : req'[p].tgt < nextId' /\ Users!Asks(req'[p])
  BY <1>2, <1>3 DEF Fits, Users!TargetsStay
<1> QED
  BY <1>1, <1>4 DEF Users!RowsInv, TableStep, NoUser

\* ... and no account, session or token goes.
LEMMA RowsGo ==
  ASSUME Users!AccountTypes, Users!RowsInv, TableStep, Users!Live \subseteq Users!Live',
         NEW r \in Request, NEW q \in Users!RequestRow, Fits(q), req' = [req EXCEPT ![r] = q],
         first' \subseteq Users!Ids, UNCHANGED <<sess, tok>>
  PROVE  Users!AccountTypes' /\ Users!RowsInv'
<1>1. /\ \A s \in Session : sess'[s] = Users!NoSession \/ sess'[s].user \in Users!Live'
      /\ \A t \in Token : tok'[t] = Users!NoToken \/ tok'[t].by \in Users!Live'
  BY DEF Users!RowsInv
<1>2. /\ sess' \in [Session -> [user : 0..MaxId, pwd : 0..MaxPassword]]
      /\ tok' \in [Token -> [by : 0..MaxId, role : Users!Role]]
  BY DEF Users!AccountTypes
<1> QED
  BY <1>1, <1>2, RowsStep

\* A statement that reads only
LEMMA RowsRead ==
  ASSUME Users!AccountTypes, Users!RowsInv, UNCHANGED <<users, nextId, sess, tok, first>>,
         NEW r \in Request, NEW q \in Users!RequestRow, req' = [req EXCEPT ![r] = q],
         Users!Asks(q),
         \/ q.tgt = req[r].tgt /\ q.op = req[r].op /\ q.email = req[r].email
         \/ q.tgt < nextId /\ q.op \notin {"update", "delete", "password", "login"}
         \/ q.tgt \in Users!Live /\ users[q.tgt].email = q.email
  PROVE  Users!AccountTypes' /\ Users!RowsInv'
<1>1. TableStep
  BY TableStays
<1>2. Users!Live' = Users!Live
  BY TableStays
<1>3. CASE q.tgt = req[r].tgt /\ q.op = req[r].op /\ q.email = req[r].email
  <2>1. Fits(q)
    BY <1>1, <1>3, FitsStill
  <2> QED
    BY <1>1, <1>2, <2>1, RowsGo DEF Users!AccountTypes
<1>4. CASE q.tgt < nextId /\ q.op \notin {"update", "delete", "password", "login"}
  <2>1. Fits(q)
    BY <1>4 DEF Fits
  <2> QED
    BY <1>1, <1>2, <2>1, RowsGo DEF Users!AccountTypes
<1>5. CASE q.tgt \in Users!Live /\ users[q.tgt].email = q.email
  <2>1. q.tgt < nextId
    <3>1. q.tgt \in Users!Ids /\ users[q.tgt] # NoUser
      BY <1>5, LiveRows
    <3> QED
      BY <3>1 DEF Users!RowsInv, Users!AccountTypes, Users!Ids, NoUser
  <2>2. Fits(q)
    BY <1>5, <2>1 DEF Fits
  <2> QED
    BY <1>1, <1>2, <2>2, RowsGo DEF Users!AccountTypes
<1> QED
  BY <1>3, <1>4, <1>5

\* A request is given up or is answered, or goes to its next statement.
LEMMA GoesOn ==
  ASSUME Users!AccountTypes, Users!RowsInv, TableStep, NEW r \in Request, NEW where \in Users!Statement,
         Users!Finish(r) \/ Users!Goto(r, where), where # "password",
         where \in {"lookup", "create"} => req[r].email \in Email
  PROVE  \E q \in Users!RequestRow : Fits(q) /\ req' = [req EXCEPT ![r] = q]
<1>1. Users!Idle \in Users!RequestRow /\ nextId > 0 /\ nextId' > 0
  <2>1. Users!Idle \in Users!RequestRow
    <3>1. 0 \in 0..MaxId /\ 0 \in 0..MaxPassword /\ "viewer" \in Users!Role
      BY Bounds DEF Users!Role
    <3> QED
      BY <3>1 DEF Users!Idle, Users!RequestRow, Users!Statement
  <2>2. nextId > 0 /\ nextId' > 0
    BY Bounds DEF Users!AccountTypes, TableStep
  <2> QED
    BY <2>1, <2>2
<1>2. [req[r] EXCEPT !.at = where] \in Users!RequestRow
  BY DEF Users!AccountTypes, Users!RequestRow
<1>3. CASE Users!Finish(r)
  <2>1. Fits(Users!Idle)
    BY <1>1 DEF Fits, Users!Idle, Users!Asks
  <2> QED
    BY <1>1, <1>3, <2>1 DEF Users!Finish
<1>4. CASE Users!Goto(r, where)
  <2> DEFINE q == [req[r] EXCEPT !.at = where]
  <2>1. req' = [req EXCEPT ![r] = q]
    BY <1>4 DEF Users!Goto
  <2>2. /\ q \in Users!RequestRow /\ q.tgt = req[r].tgt /\ q.op = req[r].op /\ q.email = req[r].email
        /\ q.at = where
    BY <1>2 DEF Users!AccountTypes, Users!RequestRow
  <2> HIDE DEF q
  <2>3. Fits(q)
    BY <2>2, FitsStill DEF Users!Asks
  <2> QED
    BY <2>1, <2>2, <2>3
<1> QED
  BY <1>3, <1>4

\* ... and the statement changes no account that a session or a token stands for.
LEMMA RowsGoto ==
  ASSUME Users!AccountTypes, Users!RowsInv, TableStep, Users!Live \subseteq Users!Live',
         UNCHANGED <<sess, tok, first>>, NEW r \in Request, NEW where \in Users!Statement,
         Users!Finish(r) \/ Users!Goto(r, where), where # "password",
         where \in {"lookup", "create"} => req[r].email \in Email
  PROVE  Users!AccountTypes' /\ Users!RowsInv'
<1>1. PICK q \in Users!RequestRow : Fits(q) /\ req' = [req EXCEPT ![r] = q]
  BY GoesOn
<1> QED
  BY <1>1, RowsGo DEF Users!AccountTypes

\* Whoever a request comes from has an account.
LEMMA Callers ==
  ASSUME Users!AccountTypes, Users!RowsInv, NEW p \in Users!BySession \union Users!ByToken
  PROVE  p.me \in Users!Live /\ p.me \in 0..MaxId /\ p.me # 0 /\ p.via \in Session \union {Nobody}
<1>1. ASSUME p \in Users!BySession
      PROVE  p.me \in Users!Live /\ p.via \in Session
  <2>1. PICK s \in Session : sess[s].user # 0 /\ p.me = sess[s].user /\ p.via = s
    BY <1>1 DEF Users!BySession
  <2> QED
    BY <2>1 DEF Users!RowsInv, Users!NoSession
<1>2. ASSUME p \in Users!ByToken
      PROVE  p.me \in Users!Live /\ p.via = Nobody
  <2>1. PICK t \in Token : tok[t].by # 0 /\ p.me = tok[t].by /\ p.via = Nobody
    BY <1>2 DEF Users!ByToken
  <2> QED
    BY <2>1 DEF Users!RowsInv, Users!NoToken
<1>3. p.me \in Users!Live => p.me \in 0..MaxId /\ p.me # 0
  BY LiveRows, Bounds DEF Users!Ids
<1> QED
  BY <1>1, <1>2, <1>3

\* Requests begin about an account that exists, whose address they know.
LEMMA RowsBegin ==
  ASSUME Users!AccountTypes, Users!RowsInv, NEW r \in Request, UNCHANGED <<users, nextId, sess, tok, first>>,
         \/ \E e \in Email : Users!BeginSetup(r, e)
         \/ \E u \in Users!Ids : Users!Login(r, u)
         \/ \E p \in Users!BySession, new \in 1..MaxPassword : Users!BeginChangePassword(r, p, new)
         \/ \E p \in Users!BySession \union Users!ByToken :
              \/ \E e \in Email, role \in Users!Role, pwd \in {0, 1} : Users!BeginCreateUser(r, p, e, role, pwd)
              \/ \E u \in Users!Ids, role \in Users!Role : Users!BeginUpdateUser(r, p, u, role)
              \/ \E u \in Users!Ids : Users!BeginDeleteUser(r, p, u)
              \/ \E role \in Users!Role : Users!BeginCreateToken(r, p, role)
  PROVE  Users!AccountTypes' /\ Users!RowsInv'
<1>0. /\ 0 \in 0..MaxId /\ 0 \in 0..MaxPassword /\ 1 \in 0..MaxPassword /\ "viewer" \in Users!Role /\ 0 < nextId
      /\ \A u \in Users!Ids : u \in 0..MaxId
      /\ \A u \in Users!Live : u \in Users!Ids /\ users[u].email \in Email /\ users[u].pwd \in 0..MaxPassword
  BY Bounds, LiveRows DEF Users!Role, Users!Ids, Users!AccountTypes, Users!UserRow
<1>1. ASSUME NEW e \in Email, Users!BeginSetup(r, e) PROVE Users!AccountTypes' /\ Users!RowsInv'
  <2> DEFINE q == [Users!To("setup", "create") EXCEPT !.email = e]
  <2>1. req' = [req EXCEPT ![r] = q]
    BY <1>1 DEF Users!BeginSetup, Users!Begin
  <2>2. q \in Users!RequestRow /\ q.tgt = 0 /\ q.op = "setup" /\ q.email \in Email /\ Users!Asks(q)
    BY <1>0 DEF Users!To, Users!Idle, Users!RequestRow, Users!Statement, Users!AllOps, Users!Asks
  <2> HIDE DEF q
  <2> QED
    BY <1>0, <2>1, <2>2, RowsRead
<1>2. ASSUME NEW u \in Users!Ids, Users!Login(r, u) PROVE Users!AccountTypes' /\ Users!RowsInv'
  <2> DEFINE q == [Users!To("login", "session") EXCEPT !.tgt = u, !.email = users[u].email,
                                           !.pwd = users[u].pwd]
  <2>1. req' = [req EXCEPT ![r] = q]
    BY <1>2 DEF Users!Login, Users!Begin
  <2>2. u \in Users!Live /\ u \in 0..MaxId
    BY <1>0, <1>2 DEF Users!Login
  <2>3. q \in Users!RequestRow /\ q.tgt = u /\ q.email = users[u].email /\ q.email \in Email /\ Users!Asks(q)
    BY <1>0, <2>2 DEF Users!To, Users!Idle, Users!RequestRow, Users!Statement, Users!AllOps, Users!Asks
  <2> HIDE DEF q
  <2> QED
    BY <2>1, <2>2, <2>3, RowsRead
<1>3. ASSUME NEW p \in Users!BySession, NEW new \in 1..MaxPassword, Users!BeginChangePassword(r, p, new)
      PROVE  Users!AccountTypes' /\ Users!RowsInv'
  <2>0. p.me \in Users!Live /\ p.me \in 0..MaxId /\ p.me # 0 /\ p.via \in Session \union {Nobody} /\ new \in 0..MaxPassword
    BY Callers, Bounds
  <2> DEFINE q == [Users!To("password", "password") EXCEPT !.me = p.me, !.via = p.via, !.tgt = p.me,
                                               !.email = users[p.me].email, !.pwd = new]
  <2>1. req' = [req EXCEPT ![r] = q]
    BY <1>3 DEF Users!BeginChangePassword, Users!Begin
  <2>2. p.me \in Users!Live /\ p.me \in 0..MaxId
    BY <1>0, <1>3, <2>0 DEF Users!BeginChangePassword
  <2>3. q \in Users!RequestRow /\ q.tgt = p.me /\ q.email = users[p.me].email /\ q.email \in Email /\ Users!Asks(q)
    BY <1>0, <2>0, <2>2 DEF Users!To, Users!Idle, Users!RequestRow, Users!Statement, Users!AllOps, Users!Asks
  <2> HIDE DEF q
  <2> QED
    BY <2>1, <2>2, <2>3, RowsRead
<1>4. ASSUME NEW p \in Users!BySession \union Users!ByToken, NEW e \in Email, NEW role \in Users!Role,
             NEW pwd \in {0, 1}, Users!BeginCreateUser(r, p, e, role, pwd)
      PROVE  Users!AccountTypes' /\ Users!RowsInv'
  <2>0. p.me \in 0..MaxId /\ pwd \in 0..MaxPassword
    BY <1>0, Callers
  <2> DEFINE q == [Users!To("create", "create") EXCEPT !.me = p.me, !.email = e, !.role = role,
                                           !.pwd = pwd]
  <2>1. req' = [req EXCEPT ![r] = q]
    BY <1>4 DEF Users!BeginCreateUser, Users!Begin
  <2>2. q \in Users!RequestRow /\ q.tgt = 0 /\ q.op = "create" /\ q.email \in Email /\ Users!Asks(q)
    BY <1>0, <2>0 DEF Users!To, Users!Idle, Users!RequestRow, Users!Statement, Users!AllOps, Users!Asks
  <2> HIDE DEF q
  <2> QED
    BY <1>0, <2>1, <2>2, RowsRead
<1>5. ASSUME NEW p \in Users!BySession \union Users!ByToken, NEW u \in Users!Ids, NEW role \in Users!Role,
             Users!BeginUpdateUser(r, p, u, role)
      PROVE  Users!AccountTypes' /\ Users!RowsInv'
  <2>0. p.me \in 0..MaxId
    BY Callers
  <2> DEFINE q == [Users!To("update", "scope") EXCEPT !.me = p.me, !.tgt = u, !.role = role,
                                          !.email = users[u].email]
  <2>1. req' = [req EXCEPT ![r] = q]
    BY <1>5 DEF Users!BeginUpdateUser, Users!Begin
  <2>2. u \in Users!Live /\ u \in 0..MaxId
    BY <1>0, <1>5, <2>0 DEF Users!BeginUpdateUser
  <2>3. q \in Users!RequestRow /\ q.tgt = u /\ q.email = users[u].email /\ q.email \in Email /\ Users!Asks(q)
    BY <1>0, <2>0, <2>2 DEF Users!To, Users!Idle, Users!RequestRow, Users!Statement, Users!AllOps, Users!Asks
  <2> HIDE DEF q
  <2> QED
    BY <2>1, <2>2, <2>3, RowsRead
<1>6. ASSUME NEW p \in Users!BySession \union Users!ByToken, NEW u \in Users!Ids, Users!BeginDeleteUser(r, p, u)
      PROVE  Users!AccountTypes' /\ Users!RowsInv'
  <2>0. p.me \in 0..MaxId
    BY Callers
  <2> DEFINE q == [Users!To("delete", "remove") EXCEPT !.me = p.me, !.tgt = u, !.email = users[u].email]
  <2>1. req' = [req EXCEPT ![r] = q]
    BY <1>6 DEF Users!BeginDeleteUser, Users!Begin
  <2>2. u \in Users!Live /\ u \in 0..MaxId
    BY <1>0, <1>6, <2>0 DEF Users!BeginDeleteUser
  <2>3. q \in Users!RequestRow /\ q.tgt = u /\ q.email = users[u].email /\ q.email \in Email /\ Users!Asks(q)
    BY <1>0, <2>0, <2>2 DEF Users!To, Users!Idle, Users!RequestRow, Users!Statement, Users!AllOps, Users!Asks
  <2> HIDE DEF q
  <2> QED
    BY <2>1, <2>2, <2>3, RowsRead
<1>7. ASSUME NEW p \in Users!BySession \union Users!ByToken, NEW role \in Users!Role,
             Users!BeginCreateToken(r, p, role)
      PROVE  Users!AccountTypes' /\ Users!RowsInv'
  <2>0. p.me \in Users!Live /\ p.me \in 0..MaxId
    BY Callers
  <2> DEFINE q == [Users!To("token", "token") EXCEPT !.me = p.me, !.tgt = p.me,
                                         !.email = users[p.me].email, !.role = role]
  <2>1. req' = [req EXCEPT ![r] = q]
    BY <1>7 DEF Users!BeginCreateToken, Users!Begin
  <2>2. p.me \in Users!Live /\ p.me \in 0..MaxId
    BY <1>0, <1>7, <2>0 DEF Users!BeginCreateToken
  <2>3. q \in Users!RequestRow /\ q.tgt = p.me /\ q.email = users[p.me].email /\ q.email \in Email /\ Users!Asks(q)
    BY <1>0, <2>0, <2>2 DEF Users!To, Users!Idle, Users!RequestRow, Users!Statement, Users!AllOps, Users!Asks
  <2> HIDE DEF q
  <2> QED
    BY <2>1, <2>2, <2>3, RowsRead
<1> QED
  BY <1>1, <1>2, <1>3, <1>4, <1>5, <1>6, <1>7

\* Statements of a sign-in
LEMMA RowsSignIn ==
  ASSUME Users!AccountTypes, Users!RowsInv, NEW r \in Request,
         \/ Users!CreateFirstUser(r) \/ Users!LookupAddress(r) \/ Users!LinkOIDC(r) \/ Users!CreateOIDCUser(r)
         \/ \E id \in Users!Identity : Users!OIDCCallback(r, id)
         \/ Users!StartSession(r)
  PROVE  Users!AccountTypes' /\ Users!RowsInv'
<1>0. /\ req[r] \in Users!RequestRow /\ nextId \in 1..MaxId + 1 /\ 1 \in 0..MaxPassword /\ "admin" \in Users!Role
      /\ \A u \in Users!Ids : u \in 0..MaxId
      /\ \A u \in Users!Live : u \in Users!Ids /\ users[u] \in Users!UserRow /\ users[u].email \in Email
      /\ Users!Asks(req[r])
  BY Bounds, LiveRows DEF Users!AccountTypes, Users!Role, Users!Ids, Users!UserRow, Users!RowsInv
<1>1. CASE Users!CreateFirstUser(r)
  <2>1. CASE Users!Live = {}
    <3> DEFINE row == [email |-> req[r].email, role |-> "admin", pwd |-> 1, subj |-> Nobody]
    <3> DEFINE q == [req[r] EXCEPT !.at = "session", !.tgt = nextId, !.pwd = 1]
    <3>1. /\ req[r].op = "setup" /\ req[r].at = "create" /\ nextId <= MaxId
          /\ Users!Insert(row) /\ first' = first \union {nextId} /\ req' = [req EXCEPT ![r] = q]
          /\ UNCHANGED <<sess, tok>>
      BY <1>1, <2>1 DEF Users!CreateFirstUser
    <3>2. row \in Users!UserRow
      BY <1>0, <3>1 DEF Users!UserRow, Users!Asks
    <3>3. nextId \in Users!Ids
      BY <1>0, <3>1 DEF Users!Ids
    <3>4. q \in Users!RequestRow /\ q.tgt = nextId /\ q.op = "setup" /\ q.at = "session"
      BY <1>0, <3>1, <3>3 DEF Users!RequestRow, Users!Statement
    <3> HIDE DEF row, q
    <3>5. TableStep /\ nextId' = nextId + 1 /\ Users!Live \subseteq Users!Live'
      BY <3>1, <3>2, TableGrows
    <3>6. Fits(q)
      BY <1>0, <3>4, <3>5 DEF Fits, Users!Asks
    <3>7. first' \subseteq Users!Ids
      BY <3>1, <3>3 DEF Users!AccountTypes
    <3> QED
      BY <3>1, <3>4, <3>5, <3>6, <3>7, RowsGo
  <2>2. CASE Users!Live # {}
    <3>1. Users!Finish(r) /\ UNCHANGED <<users, nextId, first, sess, tok>>
      BY <1>1, <2>2 DEF Users!CreateFirstUser
    <3> QED
      BY <3>1, TableStays, RowsGoto DEF Users!Statement
  <2> QED
    BY <2>1, <2>2
<1>2. ASSUME NEW id \in Users!Identity, Users!OIDCCallback(r, id) PROVE Users!AccountTypes' /\ Users!RowsInv'
  <2> DEFINE role == Users!RoleFromClaims(id.matched)
  <2>u. UNCHANGED <<users, nextId, sess, tok, first>>
    BY <1>2 DEF Users!OIDCCallback
  <2>i. id.subj \in Subject /\ id.email \in Email
    BY <1>2 DEF Users!Identity
  <2>b. 0 \in 0..MaxId /\ 0 \in 0..MaxPassword
    BY Bounds
  <2>0. /\ UNCHANGED <<users, nextId, sess, tok, first>> /\ id.subj \in Subject /\ id.email \in Email
        /\ 0 \in 0..MaxId /\ 0 \in 0..MaxPassword
    BY <2>u, <2>i, <2>b
  <2>r. role \in Users!Role
    BY Bounds DEF Users!RoleFromClaims, Users!Role
  <2>1. ASSUME NEW u \in Users!UserByOIDC(id.subj),
               Users!Begin(r, [Users!To("oidc", IF users[u].role # role THEN "scope" ELSE "session") EXCEPT
                                !.tgt = u, !.role = role, !.email = users[u].email])
        PROVE  Users!AccountTypes' /\ Users!RowsInv'
    <3> DEFINE where == IF users[u].role # role THEN "scope" ELSE "session"
    <3> DEFINE q == [Users!To("oidc", where) EXCEPT !.tgt = u, !.role = role, !.email = users[u].email]
    <3>1. req' = [req EXCEPT ![r] = q]
      BY <2>1 DEF Users!Begin
    <3>2. u \in Users!Live /\ u \in 0..MaxId
      BY <1>0, <2>1 DEF Users!UserByOIDC
    <3>4. where \in {"scope", "session"}
      OBVIOUS
    <3> HIDE DEF role, where
    <3>3. q \in Users!RequestRow /\ q.tgt = u /\ q.email = users[u].email /\ q.email \in Email /\ Users!Asks(q)
      BY <1>0, <2>0, <2>r, <3>2, <3>4 DEF Users!To, Users!Idle, Users!RequestRow, Users!Statement, Users!AllOps, Users!Asks
    <3> HIDE DEF q
    <3> QED
      BY <2>0, <3>1, <3>2, <3>3, RowsRead
  <2>2. ASSUME Users!Begin(r, [Users!To("oidc", "lookup") EXCEPT !.subj = id.subj, !.email = id.email, !.role = role])
        PROVE  Users!AccountTypes' /\ Users!RowsInv'
    <3> DEFINE q == [Users!To("oidc", "lookup") EXCEPT !.subj = id.subj, !.email = id.email, !.role = role]
    <3>1. req' = [req EXCEPT ![r] = q]
      BY <2>2 DEF Users!Begin
    <3> HIDE DEF role
    <3>2. q \in Users!RequestRow /\ q.tgt = 0 /\ q.op = "oidc" /\ q.email \in Email /\ Users!Asks(q)
      BY <2>0, <2>r DEF Users!To, Users!Idle, Users!RequestRow, Users!Statement, Users!AllOps, Users!Asks
    <3>3. 0 < nextId
      BY <1>0, Bounds
    <3> HIDE DEF q
    <3> QED
      BY <2>0, <3>1, <3>2, <3>3, RowsRead
  <2> QED
    BY <1>2, <2>1, <2>2 DEF Users!OIDCCallback
<1>3. CASE Users!LookupAddress(r)
  <2>0. UNCHANGED <<users, nextId, sess, tok, first>> /\ req[r].op = "oidc" /\ req[r].at = "lookup"
    BY <1>3 DEF Users!LookupAddress
  <2>1. ASSUME NEW u \in Users!UserByEmail(req[r].email), 
               req' = [req EXCEPT ![r].at = "link", ![r].tgt = u, ![r].sync = users[u].role # req[r].role]
        PROVE  Users!AccountTypes' /\ Users!RowsInv'
    <3> DEFINE q == [req[r] EXCEPT !.at = "link", !.tgt = u, !.sync = users[u].role # req[r].role]
    <3>1. req' = [req EXCEPT ![r] = q]
      BY <2>1 DEF Users!AccountTypes
    <3>2. u \in Users!Live /\ u \in 0..MaxId
      BY <1>0 DEF Users!UserByEmail
    <3>3. q \in Users!RequestRow /\ q.tgt = u /\ q.at = "link" /\ q.op = "oidc"
      BY <1>0, <2>0, <3>2 DEF Users!RequestRow, Users!Statement
    <3>4. u < nextId
      BY <1>0, <3>2, LiveRows DEF Users!RowsInv, Users!Ids, NoUser
    <3> HIDE DEF q
    <3> QED
      BY <2>0, <3>1, <3>3, <3>4, RowsRead DEF Users!Asks
  <2>2. Users!Finish(r) \/ Users!Goto(r, "create") => Users!AccountTypes' /\ Users!RowsInv'
    BY <1>0, <2>0, TableStays, RowsGoto DEF Users!Statement, Users!Asks
  <2> QED
    BY <1>3, <2>1, <2>2 DEF Users!LookupAddress
<1>4. CASE Users!LinkOIDC(r)
  <2>0. UNCHANGED <<nextId, sess, tok, first>>
    BY <1>4 DEF Users!LinkOIDC
  <2>1. CASE req[r].tgt \in Users!Live /\ users' = [users EXCEPT ![req[r].tgt].subj = req[r].subj]
             /\ Users!Goto(r, IF req[r].sync THEN "scope" ELSE "session")
    <3> DEFINE u == req[r].tgt
               row == [users[u] EXCEPT !.subj = req[r].subj]
    <3>1. u \in Users!Live /\ row \in Users!UserRow /\ row.email = users[u].email
      BY <1>0, <2>1 DEF Users!UserRow, Users!RequestRow
    <3>2. users' = [users EXCEPT ![u] = row]
      BY <2>1, <1>0 DEF Users!AccountTypes
    <3> HIDE DEF row
    <3>3. TableStep /\ Users!Live' = Users!Live
      BY <2>0, <3>1, <3>2, TableEdited
    <3>4. (IF req[r].sync THEN "scope" ELSE "session") \in Users!Statement \ {"lookup", "create", "password"}
      BY DEF Users!Statement
    <3> QED
      BY <2>0, <2>1, <3>3, <3>4, RowsGoto
  <2>2. CASE Users!Finish(r) /\ UNCHANGED users
    BY <2>0, <2>2, TableStays, RowsGoto DEF Users!Statement
  <2> QED
    BY <1>4, <2>1, <2>2 DEF Users!LinkOIDC
<1>5. CASE Users!CreateOIDCUser(r)
  <2> DEFINE row == [email |-> req[r].email, role |-> req[r].role, pwd |-> 0, subj |-> req[r].subj]
             q == [req[r] EXCEPT !.at = "session", !.tgt = nextId]
  <2>0. UNCHANGED <<sess, tok, first>> /\ req[r].op = "oidc" /\ req[r].at = "create" /\ nextId <= MaxId
    BY <1>5 DEF Users!CreateOIDCUser
  <2>1. CASE Users!Insert(row) /\ req' = [req EXCEPT ![r].at = "session", ![r].tgt = nextId]
    <3>1. req' = [req EXCEPT ![r] = q]
      BY <2>1 DEF Users!AccountTypes
    <3>2. row \in Users!UserRow
      BY <1>0, <2>0, Bounds DEF Users!UserRow, Users!RequestRow, Users!Asks
    <3>3. nextId \in Users!Ids
      BY <1>0, <2>0 DEF Users!Ids
    <3>4. q \in Users!RequestRow /\ q.tgt = nextId /\ q.op = "oidc" /\ q.at = "session"
      BY <1>0, <2>0, <3>3 DEF Users!RequestRow, Users!Statement
    <3> HIDE DEF row, q
    <3>5. TableStep /\ nextId' = nextId + 1 /\ Users!Live \subseteq Users!Live'
      BY <2>0, <2>1, <3>2, TableGrows
    <3>6. Fits(q)
      BY <1>0, <3>4, <3>5 DEF Fits, Users!Asks
    <3> QED
      BY <2>0, <3>1, <3>4, <3>5, <3>6, RowsGo DEF Users!AccountTypes
  <2>2. CASE Users!Finish(r) /\ UNCHANGED <<users, nextId>>
    BY <2>0, <2>2, TableStays, RowsGoto DEF Users!Statement
  <2> QED
    BY <1>5, <2>1, <2>2 DEF Users!CreateOIDCUser
<1>6. CASE Users!StartSession(r)
  <2>0. UNCHANGED <<users, nextId, tok, first>> /\ Users!Finish(r) /\ TableStep /\ Users!Live' = Users!Live
    BY <1>6, TableStays DEF Users!StartSession
  <2>1. /\ sess' \in [Session -> [user : 0..MaxId, pwd : 0..MaxPassword]]
        /\ \A s \in Session : sess'[s] = Users!NoSession \/ sess'[s].user \in Users!Live'
    <3>1. CASE UNCHANGED sess
      BY <2>0, <3>1 DEF Users!AccountTypes, Users!RowsInv
    <3>2. ASSUME req[r].tgt \in Users!Live, NEW t \in Session,
                 sess' = [sess EXCEPT ![t] = [user |-> req[r].tgt, pwd |-> req[r].pwd]]
          PROVE  /\ sess' \in [Session -> [user : 0..MaxId, pwd : 0..MaxPassword]]
                 /\ \A s \in Session : sess'[s] = Users!NoSession \/ sess'[s].user \in Users!Live'
      <4>1. [user |-> req[r].tgt, pwd |-> req[r].pwd] \in [user : 0..MaxId, pwd : 0..MaxPassword]
        BY <1>0 DEF Users!RequestRow
      <4> QED
        BY <2>0, <3>2, <4>1 DEF Users!AccountTypes, Users!RowsInv
    <3> QED
      BY <1>6, <3>1, <3>2 DEF Users!StartSession
  <2>2. PICK q \in Users!RequestRow : Fits(q) /\ req' = [req EXCEPT ![r] = q]
    BY <2>0, GoesOn DEF Users!Statement
  <2> QED
    BY <2>0, <2>1, <2>2, RowsStep DEF Users!AccountTypes, Users!RowsInv
<1> QED
  BY <1>1, <1>2, <1>3, <1>4, <1>5, <1>6

\* Statements of the handlers
LEMMA RowsManage ==
  ASSUME Users!AccountTypes, Users!RowsInv, NEW r \in Request,
         \/ Users!UpdatePassword(r) \/ Users!DeleteOtherSessions(r)
         \/ Users!CreateUser(r) \/ Users!ReadScope(r) \/ Users!CountAdmins(r) \/ Users!WriteScope(r)
         \/ Users!ReadTarget(r) \/ Users!DeleteUserSessions(r) \/ Users!DeleteUser(r) \/ Users!CreateToken(r)
  PROVE  Users!AccountTypes' /\ Users!RowsInv'
<1>0. /\ req[r] \in Users!RequestRow /\ nextId \in 1..MaxId + 1 /\ 1 \in 0..MaxPassword
      /\ \A u \in Users!Ids : u \in 0..MaxId
      /\ \A u \in Users!Live : u \in Users!Ids /\ users[u] \in Users!UserRow /\ users[u].email \in Email
      /\ Users!Asks(req[r])
      /\ Users!NoSession \in [user : 0..MaxId, pwd : 0..MaxPassword]
  BY Bounds, LiveRows DEF Users!AccountTypes, Users!Ids, Users!UserRow, Users!RowsInv, Users!NoSession
\* Statements that read
<1>1. CASE Users!ReadScope(r) \/ Users!CountAdmins(r) \/ Users!ReadTarget(r)
  <2>1. /\ UNCHANGED <<users, nextId, sess, tok, first>>
        /\ \/ Users!Finish(r)
           \/ \E where \in {"session", "admins", "write", "sessions"} : Users!Goto(r, where)
    BY <1>1 DEF Users!ReadScope, Users!CountAdmins, Users!ReadTarget, Users!AfterScope
  <2>2. TableStep /\ Users!Live \subseteq Users!Live'
    BY <2>1, TableStays
  <2>3. CASE Users!Finish(r)
    BY <2>1, <2>2, <2>3, RowsGoto DEF Users!Statement
  <2>4. ASSUME NEW where \in {"session", "admins", "write", "sessions"}, Users!Goto(r, where)
        PROVE  Users!AccountTypes' /\ Users!RowsInv'
    BY <2>1, <2>2, <2>4, RowsGoto DEF Users!Statement
  <2> QED
    BY <2>1, <2>3, <2>4
\* Statements that end sessions
<1>2. CASE Users!DeleteOtherSessions(r) \/ Users!DeleteUserSessions(r)
  <2>1. /\ UNCHANGED <<users, nextId, tok, first>>
        /\ Users!Finish(r) \/ Users!Goto(r, "erase")
        /\ \E gone \in SUBSET Session : sess' = [s \in Session |-> IF s \in gone THEN Users!NoSession ELSE sess[s]]
    <3>1. CASE Users!DeleteOtherSessions(r)
      <4> DEFINE gone == {s \in Session : sess[s].user = req[r].me /\ s # req[r].via}
      <4>1. sess' = [s \in Session |-> IF s \in gone THEN Users!NoSession ELSE sess[s]]
        BY <3>1 DEF Users!DeleteOtherSessions
      <4> QED
        BY <3>1, <4>1 DEF Users!DeleteOtherSessions
    <3>2. CASE Users!DeleteUserSessions(r)
      <4> DEFINE gone == {s \in Session : sess[s].user = req[r].tgt}
      <4>1. sess' = [s \in Session |-> IF s \in gone THEN Users!NoSession ELSE sess[s]]
        BY <3>2 DEF Users!DeleteUserSessions, Users!Unseated
      <4> QED
        BY <3>2, <4>1 DEF Users!DeleteUserSessions
    <3> QED
      BY <1>2, <3>1, <3>2
  <2>2. TableStep /\ Users!Live' = Users!Live
    BY <2>1, TableStays
  <2>3. PICK q \in Users!RequestRow : Fits(q) /\ req' = [req EXCEPT ![r] = q]
    BY <2>1, <2>2, GoesOn DEF Users!Statement
  <2>4. /\ sess' \in [Session -> [user : 0..MaxId, pwd : 0..MaxPassword]]
        /\ \A s \in Session : sess'[s] = Users!NoSession \/ sess'[s].user \in Users!Live'
    BY <1>0, <2>1, <2>2 DEF Users!AccountTypes, Users!RowsInv
  <2> QED
    BY <2>1, <2>2, <2>3, <2>4, RowsStep DEF Users!AccountTypes, Users!RowsInv
<1>3. CASE Users!UpdatePassword(r)
  <2>0. UNCHANGED <<nextId, tok, first>>
    BY <1>3 DEF Users!UpdatePassword
  <2>1. CASE Users!Finish(r) /\ UNCHANGED <<users, sess>>
    BY <2>0, <2>1, TableStays, RowsGoto DEF Users!Statement
  <2>2. CASE req[r].tgt \in Users!Live /\ users' = [users EXCEPT ![req[r].tgt].pwd = req[r].pwd]
             /\ Users!Goto(r, "revoke")
             /\ sess' = [s \in Session |-> IF s = req[r].via /\ sess[s].user = req[r].me
                                            THEN [sess[s] EXCEPT !.pwd = req[r].pwd] ELSE sess[s]]
    <3> DEFINE u == req[r].tgt
               row == [users[u] EXCEPT !.pwd = req[r].pwd]
    <3>1. u \in Users!Live /\ row \in Users!UserRow /\ row.email = users[u].email
      BY <1>0, <2>2 DEF Users!UserRow, Users!RequestRow
    <3>2. users' = [users EXCEPT ![u] = row]
      BY <2>2, <1>0 DEF Users!AccountTypes
    <3> HIDE DEF row
    <3>3. TableStep /\ Users!Live' = Users!Live
      BY <2>0, <3>1, <3>2, TableEdited
    <3>4. PICK q \in Users!RequestRow : Fits(q) /\ req' = [req EXCEPT ![r] = q]
      BY <2>2, <3>3, GoesOn DEF Users!Statement
    <3>5. req[r].me # 0
      BY <1>0, <1>3 DEF Users!UpdatePassword, Users!Asks
    <3>7. sess' \in [Session -> [user : 0..MaxId, pwd : 0..MaxPassword]]
      BY <1>0, <2>2 DEF Users!AccountTypes, Users!RequestRow
    <3>8. \A s \in Session : sess'[s] = Users!NoSession \/ sess'[s].user \in Users!Live'
      BY <2>2, <3>3, <3>5 DEF Users!AccountTypes, Users!RowsInv, Users!NoSession
    <3> QED
      BY <2>0, <3>3, <3>4, <3>7, <3>8, RowsStep DEF Users!AccountTypes, Users!RowsInv
  <2> QED
    BY <1>3, <2>1, <2>2 DEF Users!UpdatePassword
<1>4. CASE Users!CreateUser(r)
  <2> DEFINE row == [email |-> req[r].email, role |-> req[r].role, pwd |-> req[r].pwd, subj |-> Nobody]
  <2>0. UNCHANGED <<sess, tok, first>> /\ req[r].at = "create" /\ nextId <= MaxId /\ Users!Finish(r)
    BY <1>4 DEF Users!CreateUser
  <2>1. CASE Users!Insert(row)
    <3>1. row \in Users!UserRow
      BY <1>0, <2>0 DEF Users!UserRow, Users!RequestRow, Users!Asks
    <3> HIDE DEF row
    <3>2. TableStep /\ Users!Live \subseteq Users!Live'
      BY <2>0, <2>1, <3>1, TableGrows
    <3> QED
      BY <2>0, <3>2, RowsGoto DEF Users!Statement
  <2>2. CASE UNCHANGED <<users, nextId>>
    BY <2>0, <2>2, TableStays, RowsGoto DEF Users!Statement
  <2> QED
    BY <1>4, <2>1, <2>2 DEF Users!CreateUser
<1>5. CASE Users!WriteScope(r)
  <2>0. UNCHANGED <<nextId, sess, tok, first>> /\ (Users!Finish(r) \/ Users!Goto(r, "session"))
    BY <1>5 DEF Users!WriteScope, Users!AfterScope
  <2>1. CASE req[r].tgt \in Users!Live /\ users' = [users EXCEPT ![req[r].tgt].role = req[r].role]
    <3> DEFINE u == req[r].tgt
               row == [users[u] EXCEPT !.role = req[r].role]
    <3>1. u \in Users!Live /\ row \in Users!UserRow /\ row.email = users[u].email
      BY <1>0, <2>1 DEF Users!UserRow, Users!RequestRow
    <3>2. users' = [users EXCEPT ![u] = row]
      BY <2>1, <1>0 DEF Users!AccountTypes
    <3> HIDE DEF row
    <3>3. TableStep /\ Users!Live' = Users!Live
      BY <2>0, <3>1, <3>2, TableEdited
    <3> QED
      BY <2>0, <3>3, RowsGoto DEF Users!Statement
  <2>2. CASE UNCHANGED users
    BY <2>0, <2>2, TableStays, RowsGoto DEF Users!Statement
  <2> QED
    BY <1>5, <2>1, <2>2 DEF Users!WriteScope
<1>6. CASE Users!DeleteUser(r)
  <2> DEFINE u == req[r].tgt
  <2>1. /\ UNCHANGED <<nextId, first>> /\ Users!Finish(r) /\ users' = [users EXCEPT ![u] = NoUser]
        /\ sess' = Users!Unseated(u)
        /\ tok' = [t \in Token |-> IF tok[t].by = u THEN Users!NoToken ELSE tok[t]]
    BY <1>6 DEF Users!DeleteUser, NoUser
  <2>2. TableStep
    BY <2>1, TableErased
  <2>3. \A v \in Users!Live : v # u => v \in Users!Live'
    BY <2>1, <1>0 DEF Users!AccountTypes, Users!Live, NoUser
  <2>4. PICK q \in Users!RequestRow : Fits(q) /\ req' = [req EXCEPT ![r] = q]
    BY <2>1, <2>2, GoesOn DEF Users!Statement
  <2>5. Users!NoToken \in [by : 0..MaxId, role : Users!Role]
    BY Bounds DEF Users!NoToken, Users!Role
  <2>6. /\ sess' \in [Session -> [user : 0..MaxId, pwd : 0..MaxPassword]]
        /\ \A s \in Session : sess'[s] = Users!NoSession \/ sess'[s].user \in Users!Live'
    BY <1>0, <2>1, <2>3 DEF Users!AccountTypes, Users!RowsInv, Users!Unseated
  <2>7. /\ tok' \in [Token -> [by : 0..MaxId, role : Users!Role]]
        /\ \A t \in Token : tok'[t] = Users!NoToken \/ tok'[t].by \in Users!Live'
    BY <2>1, <2>3, <2>5 DEF Users!AccountTypes, Users!RowsInv
  <2> QED
    BY <2>1, <2>2, <2>4, <2>6, <2>7, RowsStep DEF Users!AccountTypes
<1>7. CASE Users!CreateToken(r)
  <2>0. UNCHANGED <<users, nextId, sess, first>> /\ Users!Finish(r) /\ TableStep /\ Users!Live' = Users!Live
    BY <1>7, TableStays DEF Users!CreateToken
  <2>1. /\ tok' \in [Token -> [by : 0..MaxId, role : Users!Role]]
        /\ \A t \in Token : tok'[t] = Users!NoToken \/ tok'[t].by \in Users!Live'
    <3>1. CASE UNCHANGED tok
      BY <2>0, <3>1 DEF Users!AccountTypes, Users!RowsInv
    <3>2. ASSUME req[r].me \in Users!Live, NEW t \in Token,
                 tok' = [tok EXCEPT ![t] = [by |-> req[r].me, role |-> req[r].role]]
          PROVE  /\ tok' \in [Token -> [by : 0..MaxId, role : Users!Role]]
                 /\ \A k \in Token : tok'[k] = Users!NoToken \/ tok'[k].by \in Users!Live'
      <4>1. [by |-> req[r].me, role |-> req[r].role] \in [by : 0..MaxId, role : Users!Role]
        BY <1>0 DEF Users!RequestRow
      <4> QED
        BY <2>0, <3>2, <4>1 DEF Users!AccountTypes, Users!RowsInv
    <3> QED
      BY <1>7, <3>1, <3>2 DEF Users!CreateToken
  <2>2. PICK q \in Users!RequestRow : Fits(q) /\ req' = [req EXCEPT ![r] = q]
    BY <2>0, GoesOn DEF Users!Statement
  <2> QED
    BY <2>0, <2>1, <2>2, RowsStep DEF Users!AccountTypes, Users!RowsInv
<1> QED
  BY <1>1, <1>2, <1>3, <1>4, <1>5, <1>6, <1>7

\* Sessions and tokens also end without a request.
LEMMA RowsEnd ==
  ASSUME Users!AccountTypes, Users!RowsInv, UNCHANGED <<users, nextId, req, first>>,
         \/ UNCHANGED tok /\ \E s \in Session : sess' = [sess EXCEPT ![s] = Users!NoSession]
         \/ UNCHANGED sess /\ \E t \in Token : tok' = [tok EXCEPT ![t] = Users!NoToken]
         \/ UNCHANGED <<sess, tok>>
  PROVE  Users!AccountTypes' /\ Users!RowsInv'
<1>1. /\ Users!NoSession \in [user : 0..MaxId, pwd : 0..MaxPassword]
      /\ Users!NoToken \in [by : 0..MaxId, role : Users!Role]
  BY Bounds DEF Users!NoSession, Users!NoToken, Users!Role
<1>2. Users!Live' = Users!Live
  BY DEF Users!Live
<1>3. Users!AccountTypes'
  BY <1>1 DEF Users!AccountTypes
<1>4. /\ \A s \in Session : sess'[s] = Users!NoSession \/ sess'[s].user \in Users!Live'
      /\ \A t \in Token : tok'[t] = Users!NoToken \/ tok'[t].by \in Users!Live'
  BY <1>2 DEF Users!AccountTypes, Users!RowsInv
<1>5. Users!TargetsStay'
  BY <1>2 DEF Users!RowsInv, Users!TargetsStay
<1> QED
  BY <1>3, <1>4, <1>5 DEF Users!RowsInv

\* The table is empty.
LEMMA RowsInit == Users!AccountsInit => Users!AccountTypes /\ Users!RowsInv
<1> SUFFICES ASSUME Users!AccountsInit PROVE Users!AccountTypes /\ Users!RowsInv
  OBVIOUS
<1>1. /\ Users!NoSession \in [user : 0..MaxId, pwd : 0..MaxPassword]
      /\ Users!NoToken \in [by : 0..MaxId, role : Users!Role]
      /\ 0 \in 0..MaxId /\ 0 \in 0..MaxPassword /\ "viewer" \in Users!Role /\ 1 \in 1..MaxId + 1 /\ 0 < 1
  BY Bounds DEF Users!NoSession, Users!NoToken, Users!Role
<1>2. Users!Idle \in Users!RequestRow /\ Users!Idle.tgt = 0 /\ Users!Idle.at = "idle" /\ Users!Idle.op = "none"
  BY <1>1 DEF Users!Idle, Users!RequestRow, Users!Statement
<1>3. Users!AccountTypes
  BY <1>1, <1>2 DEF Users!AccountsInit, Users!AccountTypes
<1>4. Users!TargetsStay
  BY <1>2 DEF Users!AccountsInit, Users!TargetsStay
<1> QED
  BY <1>1, <1>2, <1>3, <1>4 DEF Users!AccountsInit, Users!RowsInv, Users!Asks

\* Types and rows are kept by every step.
LEMMA RowsNext == Users!AccountTypes /\ Users!RowsInv /\ [Users!AccountsNext]_Users!vars => Users!AccountTypes' /\ Users!RowsInv'
<1> SUFFICES ASSUME Users!AccountTypes, Users!RowsInv, [Users!AccountsNext]_Users!vars
             PROVE  Users!AccountTypes' /\ Users!RowsInv'
  OBVIOUS
<1>1. ASSUME NEW r \in Request, Users!SignIn(r) PROVE Users!AccountTypes' /\ Users!RowsInv'
  <2>1. CASE \E e \in Email : Users!BeginSetup(r, e)
    BY <2>1, RowsBegin DEF Users!BeginSetup
  <2>2. CASE \E u \in Users!Ids : Users!Login(r, u)
    BY <2>2, RowsBegin DEF Users!Login
  <2> QED
    BY <1>1, <2>1, <2>2, RowsSignIn DEF Users!SignIn
<1>2. ASSUME NEW r \in Request, Users!Manage(r) PROVE Users!AccountTypes' /\ Users!RowsInv'
  <2>1. CASE \E p \in Users!BySession, new \in 1..MaxPassword : Users!BeginChangePassword(r, p, new)
    BY <2>1, RowsBegin DEF Users!BeginChangePassword
  <2>2. CASE \E p \in Users!BySession \union Users!ByToken :
               \/ \E e \in Email, role \in Users!Role, pwd \in {0, 1} : Users!BeginCreateUser(r, p, e, role, pwd)
               \/ \E u \in Users!Ids, role \in Users!Role : Users!BeginUpdateUser(r, p, u, role)
               \/ \E u \in Users!Ids : Users!BeginDeleteUser(r, p, u)
               \/ \E role \in Users!Role : Users!BeginCreateToken(r, p, role)
    <3>1. UNCHANGED <<users, nextId, sess, tok, first>>
      BY <2>2 DEF Users!BeginCreateUser, Users!BeginUpdateUser, Users!BeginDeleteUser, Users!BeginCreateToken
    <3> QED
      BY <2>2, <3>1, RowsBegin
  <2> QED
    BY <1>2, <2>1, <2>2, RowsManage DEF Users!Manage
<1>3. ASSUME NEW r \in Request, Users!Abort(r) PROVE Users!AccountTypes' /\ Users!RowsInv'
  BY <1>3, TableStays, RowsGoto DEF Users!Abort, Users!Statement
<1>4. ASSUME NEW s \in Session, Users!Logout(s) \/ Users!SessionExpires(s) PROVE Users!AccountTypes' /\ Users!RowsInv'
  BY <1>4, RowsEnd DEF Users!Logout, Users!SessionExpires
<1>5. ASSUME NEW t \in Token, Users!DeleteToken(t) PROVE Users!AccountTypes' /\ Users!RowsInv'
  BY <1>5, RowsEnd DEF Users!DeleteToken
<1>6. CASE UNCHANGED Users!vars
  BY <1>6, RowsEnd DEF Users!vars
<1> QED
  BY <1>1, <1>2, <1>3, <1>4, <1>5, <1>6 DEF Users!AccountsNext

\* Whoever works on the accounts at the same time, a request that goes on to
\* change an account it has looked up meets that account or none.
THEOREM TargetsKept == Users!AccountsSpec => []TargetsStay
<1>1. Users!RowsInv => TargetsStay
  BY DEF Users!RowsInv, TargetsStay
<1> QED
  BY <1>1, RowsInit, RowsNext, PTL DEF Users!AccountsSpec

-----------------------------------------------------------------------------
(* Accounts, one request after the other.                                  *)

\* There is one request, which is where the invariants put it.
Alone(r) == Users!AccountTypes /\ Users!RowsInv /\ Users!SerialInv /\ Request = {r}

\* What the request brings along, put next to the table
LEMMA SerialFrom ==
  ASSUME NEW r \in Request, Alone(r)
  PROVE  /\ req[r] \in Users!RequestRow /\ Users!ReadInv(req[r])
         /\ ~AutoProvision => Users!SeatInv(req[r])
         /\ ~Aborts => Users!ChangeInv(req[r])
         /\ DOMAIN users = Users!Ids /\ nextId \in Nat /\ MaxId \in Nat
         /\ Users!Live \subseteq Users!Ids /\ Users!Live \subseteq 0..MaxId
         /\ \A u \in Users!Ids : u \in Users!Live <=> users[u] # NoUser
         /\ \A u \in Users!Live : users[u] \in Users!UserRow /\ u < nextId /\ u # 0 /\ nextId > 1
         /\ \A s \in Session : sess[s] \in [user : 0..MaxId, pwd : 0..MaxPassword]
         /\ \A s \in Session : sess[s].user # 0 => sess[s].user \in Users!Live
<1>1. /\ req[r] \in Users!RequestRow /\ DOMAIN users = Users!Ids /\ nextId \in Nat /\ MaxId \in Nat
      /\ \A s \in Session : sess[s] \in [user : 0..MaxId, pwd : 0..MaxPassword]
  BY Bounds DEF Alone, Users!AccountTypes
<1>2. /\ Users!ReadInv(req[r]) /\ (~AutoProvision => Users!SeatInv(req[r])) /\ (~Aborts => Users!ChangeInv(req[r]))
  BY DEF Alone, Users!SerialInv, Users!SeatsInv
<1>3. /\ Users!Live \subseteq Users!Ids /\ \A u \in Users!Ids : u \in Users!Live <=> users[u] # NoUser
      /\ \A u \in Users!Live : users[u] \in Users!UserRow
  BY LiveRows DEF Alone
<1>4. \A u \in Users!Ids : u \in 0..MaxId /\ u # 0 /\ u >= 1 /\ u \in Nat
  BY Bounds DEF Users!Ids
<1>5. \A u \in Users!Live : u < nextId
  BY <1>1, <1>3, <1>4 DEF Alone, Users!RowsInv, NoUser
<1>6. \A s \in Session : sess[s].user # 0 => sess[s].user \in Users!Live
  BY DEF Alone, Users!RowsInv, Users!NoSession
<1>7. \A u \in Users!Live : nextId > 1
  BY <1>1, <1>3, <1>4, <1>5
<1> QED
  BY <1>1, <1>2, <1>3, <1>4, <1>5, <1>6, <1>7

\* What holds of the one request holds of all of them.
LEMMA SerialTo ==
  ASSUME NEW r \in Request, Alone(r), Users!ReadInv(req[r])',
         ~AutoProvision => /\ first' \subseteq {1} /\ (first' # {} => nextId' > 1)
                           /\ nextId' > 1 => Users!Admins' # {}
                           /\ Users!SeatInv(req[r])',
         ~Aborts => Users!ChangeInv(req[r])'
  PROVE  Users!SerialInv'
BY DEF Alone, Users!SerialInv, Users!SeatsInv

\* With requests one after the other: who set up the panel, and that there is an administrator.
LEMMA SerialSeats ==
  ASSUME NEW r \in Request, Alone(r), ~AutoProvision
  PROVE  first \subseteq {1} /\ (first # {} => nextId > 1) /\ (nextId > 1 => Users!Admins # {})
BY DEF Alone, Users!SerialInv, Users!SeatsInv

\* A finished request asks for nothing more.
LEMMA Finished ==
  ASSUME NEW r \in Request, Alone(r), Users!Finish(r)
  PROVE  req'[r] = Users!Idle /\ Users!ReadInv(req[r])' /\ Users!SeatInv(req[r])'
<1>1. req'[r] = Users!Idle
  BY DEF Alone, Users!AccountTypes, Users!Finish
<1> QED
  BY <1>1 DEF Users!Idle, Users!ReadInv, Users!SeatInv

\* A request that goes on changes where it is and nothing it has read.
LEMMA GoesTo ==
  ASSUME NEW r \in Request, Alone(r), NEW where, Users!Goto(r, where)
  PROVE  req'[r] = [req[r] EXCEPT !.at = where] /\ req'[r].at = where
         /\ req'[r].tgt = req[r].tgt /\ req'[r].op = req[r].op /\ req'[r].pwd = req[r].pwd
         /\ req'[r].me = req[r].me /\ req'[r].via = req[r].via /\ req'[r].role = req[r].role
<1>1. req[r] \in Users!RequestRow /\ DOMAIN req = Request
  BY DEF Alone, Users!AccountTypes
<1> QED
  BY <1>1 DEF Users!Goto, Users!RequestRow

\* A statement that leaves accounts and sessions alone
LEMMA SerialQuiet ==
  ASSUME NEW r \in Request, Alone(r), UNCHANGED <<users, nextId, sess, first>>,
         Users!ReadInv(req[r])', ~AutoProvision => Users!SeatInv(req[r])', ~Aborts => req[r].at # "revoke"
  PROVE  Users!SerialInv'
<1>1. Users!Live' = Users!Live /\ Users!Admins' = Users!Admins
  BY DEF Users!Live, Users!Admins
<1>2. ~Aborts => Users!ChangeInv(req[r])'
  BY <1>1, SerialFrom DEF Users!ChangeInv
<1>3. ~AutoProvision => first' \subseteq {1} /\ (first' # {} => nextId' > 1) /\ (nextId' > 1 => Users!Admins' # {})
  BY <1>1, SerialSeats
<1> QED
  BY <1>2, <1>3, SerialTo

\* Sessions end, for whatever reason.
Ends(gone) == sess' = [s \in Session |-> IF s \in gone THEN Users!NoSession ELSE sess[s]]

\* Sessions that end leave the other promises to a request alone.
LEMMA SerialEnds ==
  ASSUME NEW r \in Request, Alone(r), UNCHANGED <<users, nextId, first>>, NEW gone, Ends(gone),
         Users!ReadInv(req[r])', ~AutoProvision => Users!SeatInv(req[r])',
         \/ UNCHANGED req
         \/ req[r].at # "revoke"
         \/ \A s \in Session : sess[s].user = req[r].tgt /\ s # req[r].via => s \in gone
  PROVE  Users!SerialInv'
<1>1. Users!Live' = Users!Live /\ Users!Admins' = Users!Admins
  BY DEF Users!Live, Users!Admins
<1>2. \A s \in Session : (s \in gone => sess'[s].user = 0) /\ (s \notin gone => sess'[s] = sess[s])
  BY DEF Ends, Users!NoSession
<1>3. ~Aborts => Users!ChangeInv(req[r])'
  BY <1>1, <1>2, SerialFrom DEF Users!ChangeInv
<1>4. ~AutoProvision => first' \subseteq {1} /\ (first' # {} => nextId' > 1) /\ (nextId' > 1 => Users!Admins' # {})
  BY <1>1, SerialSeats
<1> QED
  BY <1>3, <1>4, SerialTo

\* An account is made: the first one, or with an administrator there.
LEMMA SerialInserts ==
  ASSUME NEW r \in Request, Alone(r), NEW row \in Users!UserRow, Users!Insert(row), nextId <= MaxId, UNCHANGED sess,
         Users!ReadInv(req[r])', ~AutoProvision => Users!SeatInv(req[r])', req[r].at = "create",
         ~AutoProvision => \/ nextId > 1 /\ UNCHANGED first
                           \/ Users!Live = {} /\ row.role = "admin" /\ first' = first \union {nextId}
  PROVE  Users!SerialInv'
<1>1. /\ users'[nextId] = row /\ nextId' = nextId + 1 /\ Users!Live' = Users!Live \union {nextId}
      /\ \A u \in Users!Ids \ {nextId} : users'[u] = users[u]
      /\ users[nextId] = NoUser /\ nextId \in Users!Ids
  BY TableGrows DEF Alone
<1>2. \A u \in Users!Live : u # nextId /\ u \in Users!Ids /\ users'[u] = users[u]
  BY <1>1, SerialFrom
<1>3. Users!Admins \subseteq Users!Admins' /\ (row.role = "admin" => nextId \in Users!Admins')
  BY <1>1, <1>2 DEF Users!Admins
<1>4. ~Aborts => Users!ChangeInv(req[r])'
  <2>1. \A s \in Session : sess[s].user # 0 => users'[sess[s].user] = users[sess[s].user]
    BY <1>2, SerialFrom
  <2> QED
    BY <2>1, SerialFrom DEF Users!ChangeInv
<1>5. ASSUME ~AutoProvision
      PROVE  first' \subseteq {1} /\ nextId' > 1 /\ Users!Admins' # {}
  <2>1. nextId \in Nat /\ nextId >= 1
    BY Bounds DEF Alone, Users!AccountTypes
  <2>2. CASE nextId > 1 /\ UNCHANGED first
    BY <1>1, <1>3, <1>5, <2>1, <2>2, SerialSeats
  <2>3. CASE Users!Live = {} /\ row.role = "admin" /\ first' = first \union {nextId}
    <3>1. nextId = 1
      BY <1>5, <2>1, <2>3, SerialSeats DEF Users!Admins
    <3> QED
      BY <1>1, <1>3, <1>5, <2>3, <3>1, SerialSeats
  <2> QED
    BY <1>5, <2>2, <2>3
<1> QED
  BY <1>4, <1>5, SerialTo

\* One row is written; who was an administrator stays one, or another one remains.
LEMMA SerialEdits ==
  ASSUME NEW r \in Request, Alone(r), NEW u \in Users!Live, NEW row \in Users!UserRow, row.email = users[u].email,
         users' = [users EXCEPT ![u] = row], UNCHANGED <<nextId, first>>,
         Users!ReadInv(req[r])', ~AutoProvision => Users!SeatInv(req[r])',
         ~AutoProvision => row.role \in {users[u].role, "admin"} \/ Users!Admins \ {u} # {},
         ~Aborts => Users!ChangeInv(req[r])'
  PROVE  Users!SerialInv'
<1>1. Users!Live' = Users!Live /\ users'[u] = row /\ \A v \in Users!Ids \ {u} : users'[v] = users[v]
  BY TableEdited DEF Alone
<1>2. \A v \in Users!Admins : v # u \/ row.role \in {users[u].role, "admin"} => v \in Users!Admins'
  <2>1. \A v \in Users!Live : v \in Users!Ids
    BY SerialFrom
  <2> QED
    BY <1>1, <2>1 DEF Users!Admins
<1>3. ASSUME ~AutoProvision, Users!Admins # {} PROVE Users!Admins' # {}
  BY <1>2, <1>3
<1> QED
  BY <1>3, SerialTo, SerialSeats

\* A request that comes in was idle.
LEMMA Begun ==
  ASSUME NEW r \in Request, Alone(r), NEW q, Users!Begin(r, q)
  PROVE  req'[r] = q /\ req[r].at = "idle"
BY DEF Alone, Users!AccountTypes, Users!Begin, Users!Idle

\* Requests begin on the rows as they are read.
LEMMA SerialBegin ==
  ASSUME NEW r \in Request, Alone(r),
         \/ \E e \in Email : Users!BeginSetup(r, e)
         \/ \E u \in Users!Ids : Users!Login(r, u)
         \/ \E id \in Users!Identity : Users!OIDCCallback(r, id)
         \/ \E p \in Users!BySession, new \in 1..MaxPassword : Users!BeginChangePassword(r, p, new)
         \/ \E p \in Users!BySession \union Users!ByToken :
              \/ \E e \in Email, role \in Users!Role, pwd \in {0, 1} : Users!BeginCreateUser(r, p, e, role, pwd)
              \/ \E u \in Users!Ids, role \in Users!Role : Users!BeginUpdateUser(r, p, u, role)
              \/ \E u \in Users!Ids : Users!BeginDeleteUser(r, p, u)
              \/ \E role \in Users!Role : Users!BeginCreateToken(r, p, role)
  PROVE  Users!SerialInv'
<1>0. DOMAIN req = Request
  BY DEF Alone, Users!AccountTypes
<1>1. /\ UNCHANGED <<users, nextId, sess, first>> /\ req[r].at = "idle"
      /\ \/ req'[r].at \in {"create", "scope", "remove", "token", "lookup"} /\ req'[r].op # "oidc"
            /\ (req'[r].op = "create" => nextId > 1)
         \/ req'[r].op = "oidc" /\ req'[r].at \in {"lookup", "scope", "session"} /\ req'[r].pwd = 0
         \/ req'[r].op = "login" /\ req'[r].at = "session" /\ req'[r].tgt \in Users!Live
            /\ req'[r].pwd = users[req'[r].tgt].pwd
         \/ req'[r].op = "password" /\ req'[r].at = "password" /\ req'[r].me = req'[r].tgt
            /\ req'[r].tgt \in Users!Live
  <2>1. ASSUME NEW e \in Email, Users!BeginSetup(r, e)
        PROVE  /\ UNCHANGED <<users, nextId, sess, first>> /\ req[r].at = "idle"
               /\ req'[r].at = "create" /\ req'[r].op = "setup"
    <3> DEFINE q == [Users!To("setup", "create") EXCEPT !.email = e]
    <3>8. req'[r] = q /\ req[r].at = "idle" /\ UNCHANGED <<users, nextId, sess, first>>
      BY <2>1, Begun DEF Users!BeginSetup
    <3>9. q.at = "create" /\ q.op = "setup"
      BY DEF Users!To, Users!Idle
    <3> HIDE DEF q
    <3> QED
      BY <3>8, <3>9
  <2>2. ASSUME NEW u \in Users!Ids, Users!Login(r, u)
        PROVE  /\ UNCHANGED <<users, nextId, sess, first>> /\ req[r].at = "idle"
               /\ req'[r].op = "login" /\ req'[r].at = "session" /\ req'[r].tgt \in Users!Live
               /\ req'[r].pwd = users[req'[r].tgt].pwd
    <3> DEFINE q == [Users!To("login", "session") EXCEPT !.tgt = u, !.email = users[u].email, !.pwd = users[u].pwd]
    <3>8. req'[r] = q /\ req[r].at = "idle" /\ UNCHANGED <<users, nextId, sess, first>> /\ u \in Users!Live
      BY <2>2, Begun DEF Users!Login
    <3>9. q.op = "login" /\ q.at = "session" /\ q.tgt = u /\ q.pwd = users[u].pwd
      BY DEF Users!To, Users!Idle
    <3> HIDE DEF q
    <3> QED
      BY <3>8, <3>9
  <2>3. ASSUME NEW id \in Users!Identity, Users!OIDCCallback(r, id)
        PROVE  /\ UNCHANGED <<users, nextId, sess, first>> /\ req[r].at = "idle"
               /\ req'[r].op = "oidc" /\ req'[r].at \in {"lookup", "scope", "session"} /\ req'[r].pwd = 0
    <3> DEFINE role == Users!RoleFromClaims(id.matched)
    <3>1. ASSUME NEW u \in Users!UserByOIDC(id.subj),
                 Users!Begin(r, [Users!To("oidc", IF users[u].role # role THEN "scope" ELSE "session") EXCEPT
                                   !.tgt = u, !.role = role, !.email = users[u].email])
          PROVE  /\ req[r].at = "idle" /\ req'[r].op = "oidc" /\ req'[r].at \in {"scope", "session"} /\ req'[r].pwd = 0
      <4> DEFINE where == IF users[u].role # role THEN "scope" ELSE "session"
                 q == [Users!To("oidc", where) EXCEPT !.tgt = u, !.role = role, !.email = users[u].email]
      <4>1. req'[r] = q /\ req[r].at = "idle"
        BY <3>1, Begun
      <4>2. where \in {"scope", "session"}
        OBVIOUS
      <4> HIDE DEF where
      <4>3. q.op = "oidc" /\ q.at = where /\ q.pwd = 0
        BY DEF Users!To, Users!Idle
      <4> QED
        BY <4>1, <4>2, <4>3
    <3>2. ASSUME Users!Begin(r, [Users!To("oidc", "lookup") EXCEPT !.subj = id.subj, !.email = id.email, !.role = role])
          PROVE  /\ req[r].at = "idle" /\ req'[r].op = "oidc" /\ req'[r].at = "lookup" /\ req'[r].pwd = 0
      <4> DEFINE q == [Users!To("oidc", "lookup") EXCEPT !.subj = id.subj, !.email = id.email, !.role = role]
      <4>1. req'[r] = q /\ req[r].at = "idle"
        BY <3>2, Begun
      <4>2. q.op = "oidc" /\ q.at = "lookup" /\ q.pwd = 0
        BY DEF Users!To, Users!Idle
      <4> QED
        BY <4>1, <4>2
    <3> HIDE DEF role
    <3> QED
      BY <2>3, <3>1, <3>2 DEF Users!OIDCCallback, role
  <2>4. ASSUME NEW p \in Users!BySession, NEW new \in 1..MaxPassword, Users!BeginChangePassword(r, p, new)
        PROVE  /\ UNCHANGED <<users, nextId, sess, first>> /\ req[r].at = "idle"
               /\ req'[r].op = "password" /\ req'[r].at = "password" /\ req'[r].me = req'[r].tgt
               /\ req'[r].tgt \in Users!Live
    <3>1. p.me \in Users!Live
      BY Callers DEF Alone
    <3> DEFINE q == [Users!To("password", "password") EXCEPT !.me = p.me, !.via = p.via, !.tgt = p.me,
                                                   !.email = users[p.me].email, !.pwd = new]
    <3>8. req'[r] = q /\ req[r].at = "idle" /\ UNCHANGED <<users, nextId, sess, first>>
      BY <2>4, Begun DEF Users!BeginChangePassword
    <3>9. q.op = "password" /\ q.at = "password" /\ q.me = p.me /\ q.tgt = p.me
      BY DEF Users!To, Users!Idle
    <3> HIDE DEF q
    <3> QED
      BY <3>8, <3>9, <3>1
  <2>5. ASSUME NEW p \in Users!BySession \union Users!ByToken,
               \/ \E e \in Email, role \in Users!Role, pwd \in {0, 1} : Users!BeginCreateUser(r, p, e, role, pwd)
               \/ \E u \in Users!Ids, role \in Users!Role : Users!BeginUpdateUser(r, p, u, role)
               \/ \E u \in Users!Ids : Users!BeginDeleteUser(r, p, u)
               \/ \E role \in Users!Role : Users!BeginCreateToken(r, p, role)
        PROVE  /\ UNCHANGED <<users, nextId, sess, first>> /\ req[r].at = "idle"
               /\ req'[r].at \in {"create", "scope", "remove", "token"} /\ req'[r].op # "oidc"
               /\ nextId > 1
    <3>1. nextId > 1
      BY Callers, SerialFrom DEF Alone
    <3>2. ASSUME NEW e \in Email, NEW role \in Users!Role, NEW pwd \in {0, 1}, Users!BeginCreateUser(r, p, e, role, pwd) PROVE
               /\ req[r].at = "idle" /\ req'[r].at = "create" /\ req'[r].op = "create"
               /\ UNCHANGED <<users, nextId, sess, first>>
      <4> DEFINE q == [Users!To("create", "create") EXCEPT !.me = p.me, !.email = e, !.role = role, !.pwd = pwd]
      <4>1. req'[r] = q /\ req[r].at = "idle" /\ UNCHANGED <<users, nextId, sess, first>>
        BY <3>2, Begun DEF Users!BeginCreateUser
      <4>2. q.at = "create" /\ q.op = "create"
        BY DEF Users!To, Users!Idle
      <4> QED
        BY <4>1, <4>2
    <3>3. ASSUME NEW u \in Users!Ids, NEW role \in Users!Role, Users!BeginUpdateUser(r, p, u, role) PROVE
               /\ req[r].at = "idle" /\ req'[r].at = "scope" /\ req'[r].op = "update"
               /\ UNCHANGED <<users, nextId, sess, first>>
      <4> DEFINE q == [Users!To("update", "scope") EXCEPT !.me = p.me, !.tgt = u, !.role = role, !.email = users[u].email]
      <4>1. req'[r] = q /\ req[r].at = "idle" /\ UNCHANGED <<users, nextId, sess, first>>
        BY <3>3, Begun DEF Users!BeginUpdateUser
      <4>2. q.at = "scope" /\ q.op = "update"
        BY DEF Users!To, Users!Idle
      <4> QED
        BY <4>1, <4>2
    <3>4. ASSUME NEW u \in Users!Ids, Users!BeginDeleteUser(r, p, u) PROVE
               /\ req[r].at = "idle" /\ req'[r].at = "remove" /\ req'[r].op = "delete"
               /\ UNCHANGED <<users, nextId, sess, first>>
      <4> DEFINE q == [Users!To("delete", "remove") EXCEPT !.me = p.me, !.tgt = u, !.email = users[u].email]
      <4>1. req'[r] = q /\ req[r].at = "idle" /\ UNCHANGED <<users, nextId, sess, first>>
        BY <3>4, Begun DEF Users!BeginDeleteUser
      <4>2. q.at = "remove" /\ q.op = "delete"
        BY DEF Users!To, Users!Idle
      <4> QED
        BY <4>1, <4>2
    <3>5. ASSUME NEW role \in Users!Role, Users!BeginCreateToken(r, p, role) PROVE
               /\ req[r].at = "idle" /\ req'[r].at = "token" /\ req'[r].op = "token"
               /\ UNCHANGED <<users, nextId, sess, first>>
      <4> DEFINE q == [Users!To("token", "token") EXCEPT !.me = p.me, !.tgt = p.me,
                                                !.email = users[p.me].email, !.role = role]
      <4>1. req'[r] = q /\ req[r].at = "idle" /\ UNCHANGED <<users, nextId, sess, first>>
        BY <3>5, Begun DEF Users!BeginCreateToken
      <4>2. q.at = "token" /\ q.op = "token"
        BY DEF Users!To, Users!Idle
      <4> QED
        BY <4>1, <4>2
    <3> QED
      BY <2>5, <3>1, <3>2, <3>3, <3>4, <3>5
  <2> QED
    BY <2>1, <2>2, <2>3, <2>4, <2>5
<1>2. Users!Live' = Users!Live
  BY <1>1 DEF Users!Live
<1>3. Users!ReadInv(req[r])' /\ Users!SeatInv(req[r])'
  BY <1>1, <1>2 DEF Users!ReadInv, Users!SeatInv
<1> QED
  BY <1>1, <1>3, SerialQuiet

\* Administrators can be counted.
LEMMA AdminsAreFinite ==
  ASSUME NEW r \in Request, Alone(r)
  PROVE  /\ IsFiniteSet(Users!Admins) /\ Users!CountAdminUsers = Cardinality(Users!Admins)
         /\ Cardinality(Users!Admins) \in Nat
<1>1. Users!Admins \subseteq 1..MaxId
  BY SerialFrom DEF Users!Admins, Users!Ids
<1>2. IsFiniteSet(1..MaxId)
  BY Bounds, FS_Interval
<1>3. IsFiniteSet(Users!Admins)
  BY <1>1, <1>2, FS_Subset
<1>4. Cardinality(Users!Admins) \in Nat
  BY <1>3, FS_CardinalityType
<1>5. Users!CountAdminUsers = Cardinality(Users!Admins)
  BY DEF Users!CountAdminUsers, Users!Admins, Users!Cardinality, Cardinality
<1> QED
  BY <1>3, <1>4, <1>5

\* Of two administrators one is not the account in question.
Another(u) == Users!Admins \ {u} # {}

\* When more than one is counted, there is another than any given one.
LEMMA AnotherAdmin ==
  ASSUME NEW r \in Request, Alone(r), ~(Users!CountAdminUsers <= 1), NEW u
  PROVE  Another(u)
<1>1. SUFFICES ASSUME Users!Admins \subseteq {u} PROVE FALSE
  BY DEF Another
<1>2. IsFiniteSet({u}) /\ Cardinality({u}) = 1
  BY FS_Singleton
<1>3. Cardinality(Users!Admins) <= 1
  BY <1>1, <1>2, FS_Subset
<1> QED
  BY <1>3, AdminsAreFinite

\* Statements that read
LEMMA SerialReads ==
  ASSUME NEW r \in Request, Alone(r),
         \/ Users!LookupAddress(r) \/ Users!ReadScope(r) \/ Users!CountAdmins(r) \/ Users!ReadTarget(r)
         \/ Users!CreateToken(r) \/ Users!Abort(r)
  PROVE  Users!SerialInv'
<1>0. /\ UNCHANGED <<users, nextId, sess, first>> /\ DOMAIN req = Request
      /\ Users!Live' = Users!Live /\ Users!Admins' = Users!Admins
      /\ req[r] \in Users!RequestRow /\ Users!ReadInv(req[r]) /\ (~AutoProvision => Users!SeatInv(req[r]))
      /\ req[r].at = "revoke" => Aborts
  BY SerialFrom DEF Alone, Users!AccountTypes, Users!LookupAddress, Users!ReadScope, Users!CountAdmins, Users!ReadTarget,
                    Users!CreateToken, Users!Abort, Users!Live, Users!Admins
<1>1. CASE Users!Finish(r)
  BY <1>0, <1>1, Finished, SerialQuiet
<1>2. CASE Users!LookupAddress(r) /\ ~Users!Finish(r)
  <2>1. /\ req[r].op = "oidc" /\ req'[r].op = "oidc" /\ req'[r].pwd = req[r].pwd
        /\ \/ req'[r].at = "link" /\ req'[r].tgt \in Users!Live
           \/ req'[r].at = "create" /\ AutoProvision
    <3>1. ASSUME NEW u \in Users!UserByEmail(req[r].email),
                 req' = [req EXCEPT ![r].at = "link", ![r].tgt = u, ![r].sync = users[u].role # req[r].role]
          PROVE  req'[r].op = req[r].op /\ req'[r].pwd = req[r].pwd /\ req'[r].at = "link" /\ req'[r].tgt \in Users!Live
      BY <1>0, <3>1 DEF Users!UserByEmail, Users!RequestRow
    <3>2. ASSUME Users!Goto(r, "create")
          PROVE  req'[r].op = req[r].op /\ req'[r].pwd = req[r].pwd /\ req'[r].at = "create"
      BY <3>2, GoesTo
    <3>3. req[r].op = "oidc"
      BY <1>2 DEF Users!LookupAddress
    <3> QED
      BY <1>2, <3>1, <3>2, <3>3 DEF Users!LookupAddress, Users!MayProvision
  <2>2. Users!ReadInv(req[r])' /\ (~AutoProvision => Users!SeatInv(req[r])')
    BY <1>0, <2>1 DEF Users!ReadInv, Users!SeatInv
  <2> QED
    BY <1>0, <2>2, SerialQuiet
<1>3. CASE req[r].op = "oidc" /\ Users!Goto(r, "session") /\ req[r].at # "revoke"
  <2>1. Users!ReadInv(req[r])' /\ (~AutoProvision => Users!SeatInv(req[r])')
    <3>1. req'[r].at = "session" /\ req'[r].op = "oidc" /\ req'[r].pwd = req[r].pwd
      BY <1>3, GoesTo
    <3> QED
      BY <1>0, <1>3, <3>1 DEF Users!ReadInv, Users!SeatInv
  <2> QED
    BY <1>0, <1>3, <2>1, SerialQuiet
<1>a. ASSUME Users!Goto(r, "admins"), req[r].tgt \in Users!Live, req[r].at \in {"scope", "admins", "remove"}
      PROVE  Users!SerialInv'
  <2>1. req'[r].at = "admins" /\ req'[r].tgt = req[r].tgt /\ req'[r].op = req[r].op /\ req'[r].pwd = req[r].pwd
        /\ req'[r].role = req[r].role
    BY <1>a, GoesTo
  <2>2. Users!ReadInv(req[r])'
    BY <1>0, <1>a, <2>1 DEF Users!ReadInv
  <2>3. ~AutoProvision => Users!SeatInv(req[r])'
    BY <1>0, <1>a, <2>1 DEF Users!SeatInv, Another
  <2> QED
    BY <1>0, <1>a, <2>2, <2>3, SerialQuiet
<1>s. ASSUME Users!Goto(r, "sessions"), req[r].tgt \in Users!Live, req[r].at \in {"scope", "admins", "remove"},
             ~AutoProvision => Another(req[r].tgt)
      PROVE  Users!SerialInv'
  <2>1. req'[r].at = "sessions" /\ req'[r].tgt = req[r].tgt /\ req'[r].op = req[r].op /\ req'[r].pwd = req[r].pwd
        /\ req'[r].role = req[r].role
    BY <1>s, GoesTo
  <2>2. Users!ReadInv(req[r])'
    BY <1>0, <1>s, <2>1 DEF Users!ReadInv
  <2>3. ~AutoProvision => Users!SeatInv(req[r])'
    BY <1>0, <1>s, <2>1 DEF Users!SeatInv, Another
  <2> QED
    BY <1>0, <1>s, <2>2, <2>3, SerialQuiet
<1>w. ASSUME Users!Goto(r, "write"), req[r].tgt \in Users!Live, req[r].at \in {"scope", "admins", "remove"},
             ~AutoProvision => Another(req[r].tgt) \/ req[r].role = "admin"
      PROVE  Users!SerialInv'
  <2>1. req'[r].at = "write" /\ req'[r].tgt = req[r].tgt /\ req'[r].op = req[r].op /\ req'[r].pwd = req[r].pwd
        /\ req'[r].role = req[r].role
    BY <1>w, GoesTo
  <2>2. Users!ReadInv(req[r])'
    BY <1>0, <1>w, <2>1 DEF Users!ReadInv
  <2>3. ~AutoProvision => Users!SeatInv(req[r])'
    BY <1>0, <1>w, <2>1 DEF Users!SeatInv, Another
  <2> QED
    BY <1>0, <1>w, <2>2, <2>3, SerialQuiet
<1>5. ASSUME req[r].tgt \in Users!Live, users[req[r].tgt].role # "admin", ~AutoProvision
      PROVE  Another(req[r].tgt)
  BY <1>5, SerialFrom, SerialSeats DEF Users!Admins, Another
<1>6. CASE Users!ReadScope(r)
  <2>1. CASE req[r].tgt \notin Users!Live
    BY <1>1, <1>3, <1>6, <2>1 DEF Users!ReadScope, Users!AfterScope
  <2>2. CASE req[r].tgt \in Users!Live /\ users[req[r].tgt].role = "admin" /\ req[r].role # "admin"
    BY <1>a, <1>6, <2>2 DEF Users!ReadScope
  <2>3. CASE req[r].tgt \in Users!Live /\ ~(users[req[r].tgt].role = "admin" /\ req[r].role # "admin")
    <3>1. Users!Goto(r, "write") /\ req[r].at = "scope"
      BY <1>6, <2>3 DEF Users!ReadScope
    <3>2. ~AutoProvision => Another(req[r].tgt) \/ req[r].role = "admin"
      BY <1>5, <2>3
    <3> QED
      BY <1>w, <2>3, <3>1, <3>2
  <2> QED
    BY <2>1, <2>2, <2>3
<1>7. CASE Users!CountAdmins(r)
  <2>1. CASE Users!CountAdminUsers <= 1
    BY <1>1, <1>3, <1>7, <2>1 DEF Users!CountAdmins, Users!AfterScope
  <2>2. CASE ~(Users!CountAdminUsers <= 1)
    <3>1. Another(req[r].tgt)
      BY <2>2, AnotherAdmin
    <3>2. req[r].tgt \in Users!Live /\ req[r].at = "admins"
      BY <1>0, <1>7 DEF Users!ReadInv, Users!CountAdmins
    <3>3. Users!Goto(r, "sessions") \/ Users!Goto(r, "write")
      BY <1>7, <2>2 DEF Users!CountAdmins
    <3> QED
      <4>1. CASE Users!Goto(r, "sessions")
        BY <1>s, <3>1, <3>2, <4>1
      <4>2. CASE Users!Goto(r, "write")
        BY <1>w, <3>1, <3>2, <4>2
      <4> QED
        BY <3>3, <4>1, <4>2
  <2> QED
    BY <2>1, <2>2
<1>8. CASE Users!ReadTarget(r)
  <2>1. CASE req[r].tgt \notin Users!Live
    BY <1>1, <1>8, <2>1 DEF Users!ReadTarget
  <2>2. CASE req[r].tgt \in Users!Live /\ users[req[r].tgt].role = "admin"
    BY <1>a, <1>8, <2>2 DEF Users!ReadTarget
  <2>3. CASE req[r].tgt \in Users!Live /\ users[req[r].tgt].role # "admin"
    <3>1. Users!Goto(r, "sessions") /\ req[r].at = "remove"
      BY <1>8, <2>3 DEF Users!ReadTarget
    <3>2. ~AutoProvision => Another(req[r].tgt)
      BY <1>5, <2>3
    <3> QED
      BY <1>s, <2>3, <3>1, <3>2
  <2> QED
    BY <2>1, <2>2, <2>3
<1>9. CASE Users!CreateToken(r) \/ Users!Abort(r)
  BY <1>1, <1>9 DEF Users!CreateToken, Users!Abort
<1> QED
  BY <1>1, <1>2, <1>6, <1>7, <1>8, <1>9

\* Statements that make an account
LEMMA SerialMakes ==
  ASSUME NEW r \in Request, Alone(r),
         Users!CreateFirstUser(r) \/ Users!CreateOIDCUser(r) \/ Users!CreateUser(r)
  PROVE  Users!SerialInv'
<1>0. /\ UNCHANGED sess /\ req[r].at = "create" /\ nextId <= MaxId /\ DOMAIN req = Request
      /\ req[r] \in Users!RequestRow /\ req[r].email \in Email /\ 1 \in 0..MaxPassword /\ 0 \in 0..MaxPassword
      /\ "admin" \in Users!Role
  BY Bounds DEF Alone, Users!AccountTypes, Users!RowsInv, Users!Asks, Users!CreateFirstUser, Users!CreateOIDCUser,
                Users!CreateUser, Users!Role
<1>1. CASE Users!Finish(r) /\ UNCHANGED <<users, nextId, first>>
  BY <1>0, <1>1, Finished, SerialQuiet
<1>2. CASE Users!CreateFirstUser(r) /\ Users!Live = {}
  <2> DEFINE row == [email |-> req[r].email, role |-> "admin", pwd |-> 1, subj |-> Nobody]
  <2>1. /\ req[r].op = "setup" /\ Users!Insert(row) /\ first' = first \union {nextId}
        /\ req' = [req EXCEPT ![r].at = "session", ![r].tgt = nextId, ![r].pwd = 1]
    BY <1>2 DEF Users!CreateFirstUser
  <2>2. row \in Users!UserRow /\ row.role = "admin" /\ row.pwd = 1
    BY <1>0 DEF Users!UserRow
  <2>3. req'[r].at = "session" /\ req'[r].op = "setup" /\ req'[r].tgt = nextId /\ req'[r].pwd = 1
    BY <1>0, <2>1 DEF Users!RequestRow
  <2> HIDE DEF row
  <2>4. nextId \in Users!Live' /\ users'[nextId] = row
    BY <1>0, <2>1, <2>2, TableGrows DEF Alone
  <2>5. Users!ReadInv(req[r])' /\ Users!SeatInv(req[r])'
    BY <2>2, <2>3, <2>4 DEF Users!ReadInv, Users!SeatInv
  <2> QED
    BY <1>0, <1>2, <2>1, <2>2, <2>5, SerialInserts
<1>3. CASE Users!CreateOIDCUser(r) /\ ~(Users!Finish(r) /\ UNCHANGED <<users, nextId, first>>)
  <2> DEFINE row == [email |-> req[r].email, role |-> req[r].role, pwd |-> 0, subj |-> req[r].subj]
  <2>1. /\ req[r].op = "oidc" /\ Users!Insert(row)
        /\ req' = [req EXCEPT ![r].at = "session", ![r].tgt = nextId]
    BY <1>3 DEF Users!CreateOIDCUser
  <2>2. row \in Users!UserRow
    BY <1>0 DEF Users!UserRow, Users!RequestRow
  <2>3. req'[r].at = "session" /\ req'[r].op = "oidc" /\ req'[r].pwd = req[r].pwd
    BY <1>0, <2>1 DEF Users!RequestRow
  <2> HIDE DEF row
  <2>4. req[r].pwd = 0 /\ AutoProvision
    BY <1>0, <2>1, SerialFrom DEF Users!ReadInv, Users!SeatInv
  <2>5. Users!ReadInv(req[r])'
    BY <2>3, <2>4 DEF Users!ReadInv
  <2> QED
    BY <1>0, <2>1, <2>2, <2>4, <2>5, SerialInserts
<1>4. CASE Users!CreateUser(r) /\ ~UNCHANGED <<users, nextId>>
  <2> DEFINE row == [email |-> req[r].email, role |-> req[r].role, pwd |-> req[r].pwd, subj |-> Nobody]
  <2>1. req[r].op = "create" /\ Users!Insert(row) /\ Users!Finish(r) /\ UNCHANGED first
    BY <1>4 DEF Users!CreateUser
  <2>2. row \in Users!UserRow
    BY <1>0 DEF Users!UserRow, Users!RequestRow
  <2> HIDE DEF row
  <2>3. ~AutoProvision => nextId > 1
    BY <2>1, SerialFrom DEF Users!SeatInv
  <2> QED
    BY <1>0, <2>1, <2>2, <2>3, Finished, SerialInserts
<1>5. Users!CreateUser(r) => Users!Finish(r) /\ UNCHANGED first
  BY DEF Users!CreateUser
<1>6. Users!CreateFirstUser(r) => Users!Live = {} \/ (Users!Finish(r) /\ UNCHANGED <<users, nextId, first>>)
  BY DEF Users!CreateFirstUser
<1> QED
  BY <1>1, <1>2, <1>3, <1>4, <1>5, <1>6

\* Statements that write a row
LEMMA SerialWrites ==
  ASSUME NEW r \in Request, Alone(r),
         Users!LinkOIDC(r) \/ Users!UpdatePassword(r) \/ Users!WriteScope(r)
  PROVE  Users!SerialInv'
<1> DEFINE u == req[r].tgt
<1>0. /\ UNCHANGED <<nextId, first>> /\ DOMAIN req = Request /\ req[r] \in Users!RequestRow
      /\ DOMAIN users = Users!Ids /\ Users!Live \subseteq Users!Ids
      /\ u \in Users!Live => users[u] \in Users!UserRow
      /\ Users!ReadInv(req[r]) /\ (~AutoProvision => Users!SeatInv(req[r])) /\ (~Aborts => Users!ChangeInv(req[r]))
  BY SerialFrom DEF Alone, Users!AccountTypes, Users!LinkOIDC, Users!UpdatePassword, Users!WriteScope
<1>1. CASE Users!Finish(r) /\ UNCHANGED <<users, sess>> /\ req[r].at # "revoke"
  BY <1>0, <1>1, Finished, SerialQuiet
<1>2. CASE Users!LinkOIDC(r) /\ u \in Users!Live /\ users' = [users EXCEPT ![u].subj = req[r].subj]
           /\ Users!Goto(r, IF req[r].sync THEN "scope" ELSE "session")
  <2> DEFINE row == [users[u] EXCEPT !.subj = req[r].subj]
  <2>1. /\ row \in Users!UserRow /\ row.email = users[u].email /\ row.role = users[u].role /\ row.pwd = users[u].pwd
        /\ users' = [users EXCEPT ![u] = row] /\ UNCHANGED sess /\ req[r].op = "oidc" /\ req[r].at = "link"
    BY <1>0, <1>2 DEF Users!UserRow, Users!RequestRow, Users!LinkOIDC, Users!ReadInv
  <2>2. req'[r].at \in {"scope", "session"} /\ req'[r].op = "oidc" /\ req'[r].pwd = 0
    <3> DEFINE where == IF req[r].sync THEN "scope" ELSE "session"
    <3>1. where \in {"scope", "session"}
      OBVIOUS
    <3>2. Users!Goto(r, where)
      BY <1>2
    <3> HIDE DEF where
    <3> QED
      BY <1>0, <2>1, <3>1, <3>2, GoesTo DEF Users!ReadInv
  <2> HIDE DEF row
  <2>3. Users!ReadInv(req[r])' /\ Users!SeatInv(req[r])'
    BY <2>2 DEF Users!ReadInv, Users!SeatInv
  <2>4. /\ Users!Live' = Users!Live /\ users'[u] = row /\ \A v \in Users!Ids \ {u} : users'[v] = users[v]
    BY <1>0, <1>2, <2>1, TableEdited DEF Alone
  <2>5. ~Aborts => Users!ChangeInv(req[r])'
    <3>1. \A s \in Session : sess[s].user # 0 => users'[sess[s].user].pwd = users[sess[s].user].pwd
      BY <2>1, <2>4, SerialFrom
    <3> QED
      BY <1>0, <2>1, <3>1 DEF Users!ChangeInv
  <2> QED
    BY <1>0, <1>2, <2>1, <2>3, <2>5, SerialEdits
<1>3. CASE Users!WriteScope(r) /\ u \in Users!Live /\ users' = [users EXCEPT ![u].role = req[r].role]
  <2> DEFINE row == [users[u] EXCEPT !.role = req[r].role]
  <2>1. /\ row \in Users!UserRow /\ row.email = users[u].email /\ row.role = req[r].role /\ row.pwd = users[u].pwd
        /\ users' = [users EXCEPT ![u] = row] /\ UNCHANGED sess /\ req[r].at = "write"
        /\ Users!Finish(r) \/ (req[r].op = "oidc" /\ Users!Goto(r, "session"))
    BY <1>0, <1>3 DEF Users!UserRow, Users!RequestRow, Users!WriteScope, Users!AfterScope
  <2> HIDE DEF row
  <2>2. Users!ReadInv(req[r])' /\ Users!SeatInv(req[r])'
    <3>1. CASE Users!Finish(r)
      BY <3>1, Finished
    <3>2. CASE req[r].op = "oidc" /\ Users!Goto(r, "session")
      <4>1. req'[r].op = "oidc" /\ req'[r].at = "session" /\ req'[r].pwd = 0
        BY <1>0, <3>2, GoesTo DEF Users!ReadInv
      <4> QED
        BY <4>1 DEF Users!ReadInv, Users!SeatInv
    <3> QED
      BY <2>1, <3>1, <3>2
  <2>3. /\ Users!Live' = Users!Live /\ users'[u] = row /\ \A v \in Users!Ids \ {u} : users'[v] = users[v]
    <3>1. u \in Users!Live /\ row \in Users!UserRow /\ row.email = users[u].email
          /\ users' = [users EXCEPT ![u] = row] /\ UNCHANGED nextId
      BY <1>0, <1>3, <2>1
    <3> QED
      BY <3>1, TableEdited DEF Alone
  <2>4. ~Aborts => Users!ChangeInv(req[r])'
    <3>1. \A s \in Session : sess[s].user # 0 => users'[sess[s].user].pwd = users[sess[s].user].pwd
      BY <2>1, <2>3, SerialFrom
    <3> QED
      BY <1>0, <2>1, <3>1 DEF Users!ChangeInv
  <2>5. ~AutoProvision => row.role \in {users[u].role, "admin"} \/ Users!Admins \ {u} # {}
    BY <1>0, <2>1 DEF Users!SeatInv
  <2> QED
    BY <1>0, <1>3, <2>1, <2>2, <2>4, <2>5, SerialEdits
<1>4. CASE Users!WriteScope(r) /\ u \notin Users!Live
  <2>1. req[r].at = "write"
    BY <1>4 DEF Users!WriteScope
  <2> QED
    BY <1>0, <1>4, <2>1 DEF Users!ReadInv
<1>5. CASE Users!UpdatePassword(r) /\ u \in Users!Live
  <2> DEFINE row == [users[u] EXCEPT !.pwd = req[r].pwd]
  <2>1. /\ row \in Users!UserRow /\ row.email = users[u].email /\ row.role = users[u].role /\ row.pwd = req[r].pwd
        /\ users' = [users EXCEPT ![u] = row] /\ Users!Goto(r, "revoke") /\ req[r].me = u
    BY <1>0, <1>5 DEF Users!UserRow, Users!RequestRow, Users!UpdatePassword, Users!ReadInv
  <2>2. req[r].at = "password" /\ sess' = [s \in Session |-> IF s = req[r].via /\ sess[s].user = req[r].me
                                           THEN [sess[s] EXCEPT !.pwd = req[r].pwd] ELSE sess[s]]
    BY <1>5 DEF Users!UpdatePassword
  <2>3. /\ req'[r].at = "revoke" /\ req'[r].tgt = u /\ req'[r].op = req[r].op /\ req'[r].pwd = req[r].pwd
        /\ req'[r].me = req[r].me /\ req'[r].via = req[r].via /\ req'[r].role = req[r].role
    BY <2>1, GoesTo
  <2> HIDE DEF row
  <2>4. /\ Users!Live' = Users!Live /\ users'[u] = row /\ \A v \in Users!Ids \ {u} : users'[v] = users[v]
    BY <1>0, <1>5, <2>1, TableEdited DEF Alone
  <2>5. Users!ReadInv(req[r])'
    BY <1>0, <1>5, <2>1, <2>3, <2>4 DEF Users!ReadInv
  <2>6. ~AutoProvision => Users!SeatInv(req[r])'
    BY <1>0, <2>3 DEF Users!SeatInv
  <2>7. ~Aborts => Users!ChangeInv(req[r])'
    <3>1. \A s \in Session : s = req[r].via /\ sess[s].user = u =>
                               sess'[s].user = u /\ sess'[s].pwd = req[r].pwd
      BY <2>1, <2>2, SerialFrom
    <3>2. \A s \in Session : ~(s = req[r].via /\ sess[s].user = u) => sess'[s] = sess[s]
      BY <2>1, <2>2
    <3>3. \A s \in Session : sess[s].user # 0 /\ sess[s].user # u => users'[sess[s].user] = users[sess[s].user]
      BY <2>4, SerialFrom
    <3> QED
      BY <1>0, <2>1, <2>2, <2>3, <2>4, <3>1, <3>2, <3>3 DEF Users!ChangeInv
  <2> QED
    BY <1>0, <1>5, <2>1, <2>5, <2>6, <2>7, SerialEdits
<1>6. Users!LinkOIDC(r) => \/ Users!Finish(r) /\ UNCHANGED <<users, sess>> /\ req[r].at # "revoke"
                           \/ /\ u \in Users!Live /\ users' = [users EXCEPT ![u].subj = req[r].subj]
                              /\ Users!Goto(r, IF req[r].sync THEN "scope" ELSE "session")
  BY DEF Users!LinkOIDC
<1>7. Users!UpdatePassword(r) => u \in Users!Live
  BY <1>0 DEF Users!ReadInv, Users!UpdatePassword
<1>8. Users!WriteScope(r) => u \notin Users!Live \/ users' = [users EXCEPT ![u].role = req[r].role]
  BY DEF Users!WriteScope
<1> QED
  BY <1>1, <1>2, <1>3, <1>4, <1>5, <1>6, <1>7, <1>8

\* Statements on the sessions
LEMMA SerialSessions ==
  ASSUME NEW r \in Request, Alone(r),
         Users!StartSession(r) \/ Users!DeleteOtherSessions(r) \/ Users!DeleteUserSessions(r)
  PROVE  Users!SerialInv'
<1>0. /\ UNCHANGED <<users, nextId, first>> /\ DOMAIN req = Request
      /\ Users!Live' = Users!Live /\ Users!Admins' = Users!Admins
      /\ Users!ReadInv(req[r]) /\ (~AutoProvision => Users!SeatInv(req[r]))
      /\ sess \in [Session -> [user : 0..MaxId, pwd : 0..MaxPassword]]
  BY SerialFrom DEF Alone, Users!AccountTypes, Users!StartSession, Users!DeleteOtherSessions,
                    Users!DeleteUserSessions, Users!Live, Users!Admins
<1>1. CASE Users!StartSession(r)
  <2>1. Users!Finish(r) /\ req[r].at = "session"
    BY <1>1 DEF Users!StartSession
  <2>2. CASE UNCHANGED sess
    BY <1>0, <2>1, <2>2, Finished, SerialQuiet
  <2>3. ASSUME NEW t \in Session, req[r].tgt \in Users!Live,
               sess' = [sess EXCEPT ![t] = [user |-> req[r].tgt, pwd |-> req[r].pwd]]
        PROVE  Users!SerialInv'
    <3>1. /\ sess'[t].user = req[r].tgt /\ sess'[t].pwd = req[r].pwd
          /\ \A s \in Session \ {t} : sess'[s] = sess[s]
      BY <1>0, <2>3
    <3>2. req[r].pwd # 0 => users[req[r].tgt].pwd = req[r].pwd
      BY <1>0, <2>1 DEF Users!ReadInv
    <3>3. ~Aborts => Users!ChangeInv(req[r])'
      BY <1>0, <2>1, <3>1, <3>2, SerialFrom DEF Users!ChangeInv
    <3> QED
      BY <1>0, <2>1, <3>3, Finished, SerialTo, SerialSeats
  <2> QED
    BY <1>1, <2>2, <2>3 DEF Users!StartSession
<1>2. CASE Users!DeleteOtherSessions(r)
  <2> DEFINE gone == {s \in Session : sess[s].user = req[r].me /\ s # req[r].via}
  <2>1. Users!Finish(r) /\ Ends(gone) /\ req[r].at = "revoke"
    BY <1>2 DEF Users!DeleteOtherSessions, Ends
  <2>2. \A s \in Session : sess[s].user = req[r].tgt /\ s # req[r].via => s \in gone
    BY <1>0, <2>1 DEF Users!ReadInv
  <2> HIDE DEF gone
  <2> QED
    BY <1>0, <2>1, <2>2, Finished, SerialEnds
<1>3. CASE Users!DeleteUserSessions(r)
  <2> DEFINE gone == {s \in Session : sess[s].user = req[r].tgt}
  <2>1. Users!Goto(r, "erase") /\ Ends(gone) /\ req[r].at = "sessions"
    BY <1>3 DEF Users!DeleteUserSessions, Users!Unseated, Ends
  <2>2. req'[r].at = "erase" /\ req'[r].tgt = req[r].tgt /\ req'[r].op = req[r].op /\ req'[r].pwd = req[r].pwd
    BY <2>1, GoesTo
  <2>3. Users!ReadInv(req[r])'
    BY <1>0, <2>1, <2>2 DEF Users!ReadInv
  <2>4. ~AutoProvision => Users!SeatInv(req[r])'
    BY <1>0, <2>1, <2>2 DEF Users!SeatInv
  <2> HIDE DEF gone
  <2> QED
    BY <1>0, <2>1, <2>3, <2>4, SerialEnds
<1> QED
  BY <1>1, <1>2, <1>3

\* The row goes, and an administrator remains.
LEMMA SerialErases ==
  ASSUME NEW r \in Request, Alone(r), Users!DeleteUser(r)
  PROVE  Users!SerialInv'
<1> DEFINE u == req[r].tgt
<1>1. /\ UNCHANGED <<nextId, first>> /\ Users!Finish(r) /\ req[r].at = "erase"
      /\ users' = [users EXCEPT ![u] = NoUser] /\ sess' = Users!Unseated(u)
  BY DEF Users!DeleteUser, NoUser
<1>2. /\ \A v \in Users!Live : v # u => users'[v] = users[v] /\ v \in Users!Live'
      /\ ~AutoProvision => Users!Admins \ {u} # {}
  <2>1. /\ DOMAIN users = Users!Ids /\ Users!Live \subseteq Users!Ids
        /\ \A v \in Users!Live : users[v] # NoUser
    BY SerialFrom
  <2>2. \A v \in Users!Live : v # u => users'[v] = users[v] /\ v \in DOMAIN users'
    BY <1>1, <2>1
  <2> QED
    BY <1>1, <2>1, <2>2, SerialFrom DEF Users!Live, NoUser, Users!SeatInv
<1>3. ~AutoProvision => Users!Admins' # {}
  <2>1. \A v \in Users!Admins \ {u} : v \in Users!Admins'
    BY <1>2 DEF Users!Admins
  <2> QED
    BY <1>2, <2>1
<1>4. ~Aborts => Users!ChangeInv(req[r])'
  <2>1. \A s \in Session : sess'[s].user # 0 => sess'[s] = sess[s] /\ sess[s].user # u
    BY <1>1 DEF Users!Unseated, Users!NoSession
  <2>2. \A s \in Session : sess'[s].user # 0 => users'[sess[s].user] = users[sess[s].user]
    BY <1>2, <2>1, SerialFrom
  <2> QED
    BY <1>1, <2>1, <2>2, SerialFrom DEF Users!ChangeInv
<1> QED
  BY <1>1, <1>3, <1>4, Finished, SerialTo, SerialSeats

\* Sessions and tokens end without a request.
LEMMA SerialQuits ==
  ASSUME Users!AccountTypes, Users!RowsInv, Users!SerialInv, UNCHANGED <<users, nextId, req, first>>,
         UNCHANGED sess \/ \E s \in Session : sess' = [sess EXCEPT ![s] = Users!NoSession]
  PROVE  Users!SerialInv'
<1>1. Users!Live' = Users!Live /\ Users!Admins' = Users!Admins
  BY DEF Users!Live, Users!Admins
<1>2. \A s \in Session : sess'[s] = sess[s] \/ sess'[s].user = 0
  BY DEF Users!AccountTypes, Users!NoSession
<1>3. \A r \in Request : Users!ReadInv(req[r])'
  BY <1>1 DEF Users!SerialInv, Users!ReadInv
<1>4. ~AutoProvision => Users!SeatsInv'
  BY <1>1 DEF Users!SerialInv, Users!SeatsInv, Users!SeatInv
<1>5. ~Aborts => \A r \in Request : Users!ChangeInv(req[r])'
  BY <1>2 DEF Users!SerialInv, Users!ChangeInv
<1> QED
  BY <1>3, <1>4, <1>5 DEF Users!SerialInv

\* No requests, nothing read.
LEMMA SerialInit == Users!AccountsInit => Users!SerialInv
<1> SUFFICES ASSUME Users!AccountsInit PROVE Users!SerialInv
  OBVIOUS
<1>1. \A r \in Request : Users!ReadInv(req[r]) /\ Users!SeatInv(req[r])
  BY DEF Users!AccountsInit, Users!Idle, Users!ReadInv, Users!SeatInv
<1>2. \A s \in Session : sess[s].user = 0
  BY DEF Users!AccountsInit, Users!NoSession
<1> QED
  BY <1>1, <1>2 DEF Users!AccountsInit, Users!SerialInv, Users!SeatsInv, Users!ChangeInv

\* What holds for requests one after the other is kept by every step.
LEMMA SerialNext ==
  ASSUME Users!OneAtATime
  PROVE  Users!AccountTypes /\ Users!RowsInv /\ Users!SerialInv /\ [Users!AccountsNext]_Users!vars => Users!SerialInv'
<1> SUFFICES ASSUME Users!AccountTypes, Users!RowsInv, Users!SerialInv, [Users!AccountsNext]_Users!vars
             PROVE  Users!SerialInv'
  OBVIOUS
<1>1. \A r \in Request : Alone(r)
  BY DEF Users!OneAtATime, Alone, Users!AccountTypes
<1>2. ASSUME NEW r \in Request, Users!SignIn(r) PROVE Users!SerialInv'
  BY <1>1, <1>2, SerialBegin, SerialMakes, SerialWrites, SerialReads, SerialSessions DEF Users!SignIn
<1>3. ASSUME NEW r \in Request, Users!Manage(r) PROVE Users!SerialInv'
  BY <1>1, <1>3, SerialBegin, SerialMakes, SerialWrites, SerialReads, SerialSessions, SerialErases DEF Users!Manage
<1>4. ASSUME NEW r \in Request, Users!Abort(r) PROVE Users!SerialInv'
  BY <1>1, <1>4, SerialReads
<1>5. ASSUME NEW s \in Session, Users!Logout(s) \/ Users!SessionExpires(s) PROVE Users!SerialInv'
  BY <1>5, SerialQuits DEF Users!Logout, Users!SessionExpires
<1>6. ASSUME NEW t \in Token, Users!DeleteToken(t) PROVE Users!SerialInv'
  BY <1>6, SerialQuits DEF Users!DeleteToken
<1>7. CASE UNCHANGED Users!vars
  BY <1>7, SerialQuits DEF Users!vars
<1> QED
  BY <1>2, <1>3, <1>4, <1>5, <1>6, <1>7 DEF Users!AccountsNext

\* Both promises of an account table that serves one request after the other
LEMMA SerialMeans ==
  ASSUME Users!AccountTypes, Users!RowsInv, Users!OneAtATime => Users!SerialInv
  PROVE  AdministratorRemains /\ ChangeEndsSessions
<1>1. ASSUME Users!OneAtATime, ~AutoProvision PROVE Users!AdministratorRemains /\ Users!SetupOnce
  <2>1. first \subseteq {1} /\ (nextId > 1 => Users!Admins # {})
    BY <1>1 DEF Users!SerialInv, Users!SeatsInv
  <2>2. Users!SetupOnce
    <3>1. IsFiniteSet({1}) /\ Cardinality({1}) = 1
      BY FS_Singleton
    <3>2. Cardinality(first) <= 1
      BY <2>1, <3>1, FS_Subset
    <3> QED
      BY <3>2 DEF Users!SetupOnce, Users!Cardinality, Cardinality
  <2>3. Users!AdministratorRemains
    <3>1. IsFiniteSet(Users!Admins) /\ Cardinality(Users!Admins) \in Nat
      <4>1. Users!Admins \subseteq 1..MaxId
        BY LiveRows DEF Users!Admins, Users!Ids
      <4>2. IsFiniteSet(1..MaxId)
        BY Bounds, FS_Interval
      <4> QED
        BY <4>1, <4>2, FS_Subset, FS_CardinalityType
    <3>2. Users!CountAdminUsers = Cardinality(Users!Admins)
      BY DEF Users!CountAdminUsers, Users!Admins, Users!Cardinality, Cardinality
    <3>3. Users!Admins # {} => Cardinality(Users!Admins) # 0
      BY <3>1, FS_EmptySet
    <3> QED
      BY <2>1, <3>1, <3>2, <3>3 DEF Users!AdministratorRemains
  <2> QED
    BY <2>2, <2>3
<1>2. ASSUME Users!OneAtATime, ~Aborts PROVE Users!ChangeEndsSessions
  <2>1. DOMAIN sess = Session /\ DOMAIN req = Request /\ \A r \in Request : Users!ChangeInv(req[r])
    BY <1>2 DEF Users!SerialInv, Users!AccountTypes
  <2> QED
    BY <2>1, Bounds DEF Users!ChangeInv, Users!ChangeEndsSessions
<1> QED
  BY <1>1, <1>2 DEF AdministratorRemains, ChangeEndsSessions

\* The invariant of the accounts is kept by every step.
LEMMA AccountsGoOn == Users!AccountInv /\ [Users!AccountsNext]_Users!vars => Users!AccountInv'
<1> SUFFICES ASSUME Users!AccountInv, [Users!AccountsNext]_Users!vars PROVE Users!AccountInv'
  OBVIOUS
<1>1. Users!AccountTypes' /\ Users!RowsInv'
  BY RowsNext DEF Users!AccountInv
<1>2. Users!OneAtATime' => Users!OneAtATime
  BY <1>1 DEF Users!OneAtATime, Users!AccountTypes, Users!AccountInv
<1> QED
  BY <1>1, <1>2, SerialNext DEF Users!AccountInv

\* Rows are what requests take them for: nobody overtakes a request in the middle
\* of its statements unless requests overlap (users.go, account.go).
THEOREM AccountInvariant == Users!AccountsSpec => []Users!AccountInv
<1>1. Users!AccountsInit => Users!AccountInv
  BY RowsInit, SerialInit DEF Users!AccountInv
<1> QED
  BY <1>1, AccountsGoOn, PTL DEF Users!AccountsSpec

\* With requests one after the other, and accounts made by setup or by an
\* administrator, an administrator remains and setup makes one only, for any number
\* of accounts, tokens and addresses (DeleteUser, UpdateUserScope, CreateFirstUser).
THEOREM AdministratorStays == Users!AccountsSpec => []AdministratorRemains
<1>1. Users!AccountInv => AdministratorRemains
  BY SerialMeans DEF Users!AccountInv
<1> QED
  BY <1>1, AccountInvariant, PTL

\* With requests one after the other, and no client that hangs up, a password change
\* ends the sessions that rest on the former password, for any number of accounts
\* and sessions (handleChangePassword, DeleteOtherSessions).
THEOREM ChangesEndSessions == Users!AccountsSpec => []ChangeEndsSessions
<1>1. Users!AccountInv => ChangeEndsSessions
  BY SerialMeans DEF Users!AccountInv
<1> QED
  BY <1>1, AccountInvariant, PTL

-----------------------------------------------------------------------------
(* The second factor.                                                      *)

\* The sizes of the panel are sizes of SecondFactor.
LEMMA FactorBounds == MaxSecret \in Nat /\ MaxBatch \in Nat /\ MaxStep \in Nat \ {0} /\ Factor!Skew = 1
BY PanelAssumption DEF Factor!SecondFactorBounds, Factor!Skew

\* Codes of the two kinds differ in their fields.
LEMMA CodeKinds ==
  /\ \A c \in Factor!Totp : c.kind = "totp" /\ c.of \in 1..MaxSecret /\ c.n \in 0..MaxStep + Factor!Skew
  /\ \A c \in Factor!Recovery : c.kind = "recovery" /\ c.of \in 1..MaxBatch
BY DEF Factor!Totp, Factor!Recovery

\* What a request between its decision and its statement carries
LEMMA Carried ==
  ASSUME Factor!SecondFactorTypeOK, NEW r \in Client
  PROVE  /\ proof[r].at \in {"login", "disable", "renew"} => proof[r].code \in Factor!Totp \union Factor!Recovery
         /\ proof[r].at = "enable" => proof[r].code \in Factor!Totp
         /\ proof[r].at = "setup" => proof[r].secret \in 1..MaxSecret
         /\ proof[r] \in Factor!Accepting => proof[r].at \in {"login", "disable", "renew"}
BY DEF Factor!SecondFactorTypeOK, Factor!Statement, Factor!Accepting, Factor!Enabling, Factor!Idle

\* One request goes on and the others stay where they are.
LEMMA OneReplies ==
  ASSUME Factor!SecondFactorTypeOK, NEW r \in Client, NEW q \in Factor!Statement \union {Factor!Idle},
         proof' = [proof EXCEPT ![r] = q]
  PROVE  /\ proof'[r] = q /\ \A p \in Client \ {r} : proof'[p] = proof[p]
         /\ proof' \in [Client -> Factor!Statement \union {Factor!Idle}]
BY DEF Factor!SecondFactorTypeOK

\* The statements requests may be at.
LEMMA Places ==
  /\ Factor!Idle \in Factor!Statement \union {Factor!Idle} /\ Factor!Idle.at = "idle"
  /\ \A where \in {"disabling", "renewing", "resetting"} : [at |-> where] \in Factor!Statement
  /\ \A where \in {"login", "disable", "renew"}, c \in Factor!Totp \union Factor!Recovery :
       [at |-> where, code |-> c] \in Factor!Statement
  /\ \A c \in Factor!Totp : [at |-> "enable", code |-> c] \in Factor!Statement
  /\ \A s \in 1..MaxSecret : [at |-> "setup", secret |-> s] \in Factor!Statement
BY DEF Factor!Idle, Factor!Statement, Factor!Accepting, Factor!Enabling

FactorAlone == Factor!StaysOn \/ Factor!OneAtATime

\* No secret, no codes.
LEMMA InitFactor == Factor!SecondFactorInit => Factor!FactorInv
<1> SUFFICES ASSUME Factor!SecondFactorInit PROVE Factor!FactorInv
  OBVIOUS
<1>1. Factor!SecondFactorTypeOK
  <2>1. /\ 0 \in 0..MaxSecret /\ 0 \in 0..MaxBatch /\ 0 \in 0..MaxStep + Factor!Skew /\ 1 \in 1..MaxStep
        /\ Factor!Idle \in Factor!Statement \union {Factor!Idle}
    BY FactorBounds, Places
  <2> QED
    BY <2>1 DEF Factor!SecondFactorInit, Factor!SecondFactorTypeOK
<1>2. \A r \in Client : proof[r].at = "idle"
  BY Places DEF Factor!SecondFactorInit
<1>3. Factor!BatchInv
  BY DEF Factor!SecondFactorInit, Factor!BatchInv
<1>4. Factor!EnrolmentInv
  BY <1>2 DEF Factor!SecondFactorInit, Factor!EnrolmentInv
<1>5. Factor!SecretInv
  BY <1>2 DEF Factor!SecondFactorInit, Factor!SecretInv, Factor!SecretIsProven
<1> QED
  BY <1>1, <1>3, <1>4, <1>5 DEF Factor!FactorInv

\* A decision leaves the row alone.
LEMMA Decides ==
  ASSUME Factor!FactorInv, NEW r \in Client, NEW q \in Factor!Statement \union {Factor!Idle},
         proof' = [proof EXCEPT ![r] = q], UNCHANGED <<on, secret, last, codes, step, batch, used, twice>>,
         made' \in made..MaxSecret,
         Factor!StaysOn => /\ q.at \notin {"disable", "disabling", "resetting"}
                           /\ q.at \in {"login", "renew", "renewing"} => on,
         Factor!OneAtATime =>
           /\ q.at \in {"login", "disable", "renew"} /\ q.code.kind = "totp" => on /\ q.code.of = secret
           /\ q.at = "enable" => ~on /\ q.code.of = secret
           /\ q.at = "setup" => ~on /\ made < q.secret /\ q.secret <= made'
  PROVE  Factor!FactorInv'
<1>1. Factor!SecondFactorTypeOK /\ made \in Nat /\ MaxSecret \in Nat
  BY FactorBounds DEF Factor!FactorInv, Factor!SecondFactorTypeOK
<1>2. /\ proof'[r] = q /\ \A p \in Client \ {r} : proof'[p] = proof[p]
      /\ proof' \in [Client -> Factor!Statement \union {Factor!Idle}]
  BY <1>1, OneReplies
<1>3. Factor!SecondFactorTypeOK' /\ made <= made'
  BY <1>1, <1>2 DEF Factor!SecondFactorTypeOK
<1>4. Factor!BatchInv'
  BY DEF Factor!FactorInv, Factor!BatchInv
<1>5. Factor!StaysOn => Factor!EnrolmentInv'
  BY <1>2 DEF Factor!FactorInv, Factor!EnrolmentInv
<1>6. ASSUME Factor!OneAtATime PROVE Factor!SecretInv'
  <2>1. \A c \in used : c.kind = "totp" => c.of \in Nat
    BY <1>1, CodeKinds, FactorBounds DEF Factor!SecondFactorTypeOK
  <2>2. Client = {r} /\ Factor!SecretInv
    BY <1>6 DEF Factor!OneAtATime, Factor!FactorInv
  <2>3. /\ secret <= made' /\ (on => secret # 0) /\ Factor!SecretIsProven'
        /\ \A c \in used : c.kind = "totp" => c.of <= made' /\ (c.of = secret => on /\ c.n <= last)
    BY <1>1, <1>3, <2>1, <2>2 DEF Factor!SecretInv, Factor!SecretIsProven, Factor!SecondFactorTypeOK
  <2>4. ASSUME q.at = "setup"
        PROVE  \A c \in used : c.kind = "totp" => c.of # q.secret
    <3>1. q.secret \in 1..MaxSecret
      BY <2>4 DEF Factor!Statement, Factor!Accepting, Factor!Enabling, Factor!Idle
    <3> QED
      BY <1>1, <1>6, <2>1, <2>2, <2>4, <3>1 DEF Factor!SecretInv
  <2> QED
    BY <1>2, <1>6, <2>2, <2>3, <2>4 DEF Factor!SecretInv
<1> QED
  BY <1>3, <1>4, <1>5, <1>6 DEF Factor!FactorInv

\* A code of the authenticator is accepted or comes too late.
LEMMA ConsumesStep ==
  ASSUME Factor!FactorInv, FactorAlone, NEW r \in Client, Factor!ConsumeTOTPStep(r)
  PROVE  Factor!FactorInv'
<1> DEFINE code == proof[r].code
<1>1. Factor!SecondFactorTypeOK /\ Factor!BatchInv
  BY DEF Factor!FactorInv
<1>2. /\ proof[r].at \in {"login", "disable", "renew"} /\ code \in Factor!Totp /\ code.kind = "totp"
      /\ code.n \in 0..MaxStep + Factor!Skew /\ code.of \in 1..MaxSecret
      /\ UNCHANGED <<on, secret, codes, step, made, batch>>
  <2>1. proof[r].at \in {"login", "disable", "renew"} /\ code \in Factor!Totp \union Factor!Recovery
        /\ code.kind = "totp" /\ UNCHANGED <<on, secret, codes, step, made, batch>>
    BY <1>1, Carried DEF Factor!ConsumeTOTPStep
  <2> QED
    BY <2>1, CodeKinds
<1>3. CASE proof' = [proof EXCEPT ![r] = Factor!Idle] /\ UNCHANGED <<last, used, twice>>
  <2>1. made' \in made..MaxSecret
    BY <1>1, <1>2, FactorBounds DEF Factor!SecondFactorTypeOK
  <2> QED
    BY <1>2, <1>3, <2>1, Decides, Places
<1>4. CASE /\ on /\ last < code.n /\ last' = code.n /\ Factor!Accept(code)
           /\ Factor!Consumed(r)
  <2> DEFINE q == IF proof[r].at = "login" THEN Factor!Idle
                  ELSE [at |-> IF proof[r].at = "disable" THEN "disabling" ELSE "renewing"]
  <2>1. proof' = [proof EXCEPT ![r] = q]
    BY <1>4 DEF Factor!Consumed, Factor!Reply
  <2>2. /\ q \in Factor!Statement \union {Factor!Idle}
        /\ q.at \in {"idle", "disabling", "renewing"}
        /\ q.at = "disabling" => proof[r].at = "disable"
    <3>1. CASE proof[r].at = "login"
      BY <3>1, Places
    <3>2. CASE proof[r].at = "disable"
      BY <3>2, Places
    <3>3. CASE proof[r].at = "renew"
      BY <3>3, Places
    <3> QED
      BY <1>2, <3>1, <3>2, <3>3
  <2> HIDE DEF q
  <2>3. /\ proof'[r] = q /\ \A p \in Client \ {r} : proof'[p] = proof[p]
        /\ proof' \in [Client -> Factor!Statement \union {Factor!Idle}]
    BY <1>1, <2>1, <2>2, OneReplies
  <2> HIDE DEF code
  <2>4. /\ last \in Nat /\ code.n \in Nat /\ used' = used \union {code} /\ twice' = (twice \/ code \in used)
        /\ \A c \in used : c.kind = "totp" => c.n \in Nat
    BY <1>1, <1>2, <1>4, FactorBounds, CodeKinds DEF Factor!SecondFactorTypeOK, Factor!Accept
  <2>5. code \notin used
    <3>1. CASE Factor!StaysOn
      BY <1>2, <1>4, <2>4, <3>1 DEF Factor!FactorInv, Factor!EnrolmentInv
    <3>2. CASE Factor!OneAtATime
      <4>1. code.of = secret /\ Factor!SecretInv
        BY <1>2, <3>2 DEF Factor!FactorInv, Factor!SecretInv, code
      <4> QED
        BY <1>2, <1>4, <2>4, <4>1 DEF Factor!SecretInv
    <3> QED
      BY <3>1, <3>2 DEF FactorAlone
  <2>6. Factor!SecondFactorTypeOK'
    BY <1>1, <1>2, <1>4, <2>3, <2>4 DEF Factor!SecondFactorTypeOK
  <2>7. Factor!BatchInv'
    <3>1. code \notin codes
      BY <1>1, <1>2, CodeKinds DEF Factor!SecondFactorTypeOK
    <3> QED
      BY <1>1, <1>2, <2>4, <2>5, <3>1 DEF Factor!BatchInv
  <2>8. ASSUME Factor!StaysOn PROVE Factor!EnrolmentInv'
    <3>1. Factor!EnrolmentInv /\ q.at # "disabling"
      BY <2>2, <2>8 DEF Factor!FactorInv, Factor!EnrolmentInv
    <3>2. \A c \in used' : c.kind = "totp" => on' /\ c.n <= last'
      BY <1>2, <1>4, <2>4, <3>1 DEF Factor!EnrolmentInv
    <3> QED
      BY <1>2, <1>4, <2>2, <2>3, <3>1, <3>2 DEF Factor!EnrolmentInv
  <2>9. ASSUME Factor!OneAtATime PROVE Factor!SecretInv'
    <3>1. Client = {r} /\ Factor!SecretInv /\ code.of = secret /\ secret \in Nat /\ made \in Nat
      BY <1>1, <1>2, <2>9, FactorBounds DEF Factor!OneAtATime, Factor!FactorInv, Factor!SecretInv, code, Factor!SecondFactorTypeOK
    <3>2. \A c \in used' : c.kind = "totp" => c.of <= made' /\ (c.of = secret' => on' /\ c.n <= last')
      BY <1>2, <1>4, <2>4, <3>1 DEF Factor!SecretInv
    <3>3. Factor!SecretIsProven'
      BY <1>2, <2>4, <3>1 DEF Factor!SecretIsProven
    <3> QED
      BY <1>2, <2>2, <2>3, <3>1, <3>2, <3>3 DEF Factor!SecretInv
  <2> QED
    BY <2>6, <2>7, <2>8, <2>9 DEF Factor!FactorInv
<1> QED
  BY <1>3, <1>4 DEF Factor!ConsumeTOTPStep, Factor!Reply

\* A recovery code is accepted or is none of those left.
LEMMA ConsumesCode ==
  ASSUME Factor!FactorInv, NEW r \in Client, Factor!ConsumeRecoveryCode(r)
  PROVE  Factor!FactorInv'
<1> DEFINE code == proof[r].code
<1>1. Factor!SecondFactorTypeOK /\ Factor!BatchInv
  BY DEF Factor!FactorInv
<1>2. /\ proof[r].at \in {"login", "disable", "renew"} /\ code \in Factor!Recovery /\ code.kind = "recovery"
      /\ UNCHANGED <<on, secret, last, step, made, batch>>
  <2>1. proof[r].at \in {"login", "disable", "renew"} /\ code \in Factor!Totp \union Factor!Recovery
        /\ code.kind = "recovery" /\ UNCHANGED <<on, secret, last, step, made, batch>>
    BY <1>1, Carried DEF Factor!ConsumeRecoveryCode
  <2> QED
    BY <2>1, CodeKinds
<1>3. CASE proof' = [proof EXCEPT ![r] = Factor!Idle] /\ UNCHANGED <<codes, used, twice>>
  <2>1. made' \in made..MaxSecret
    BY <1>1, <1>2, FactorBounds DEF Factor!SecondFactorTypeOK
  <2> QED
    BY <1>2, <1>3, <2>1, Decides, Places
<1>4. CASE /\ code \in codes /\ codes' = codes \ {code} /\ Factor!Accept(code)
           /\ Factor!Consumed(r)
  <2> DEFINE q == IF proof[r].at = "login" THEN Factor!Idle
                  ELSE [at |-> IF proof[r].at = "disable" THEN "disabling" ELSE "renewing"]
  <2>1. proof' = [proof EXCEPT ![r] = q]
    BY <1>4 DEF Factor!Consumed, Factor!Reply
  <2>2. /\ q \in Factor!Statement \union {Factor!Idle}
        /\ q.at \in {"idle", "disabling", "renewing"}
        /\ q.at = "disabling" => proof[r].at = "disable"
    <3>1. CASE proof[r].at = "login"
      BY <3>1, Places
    <3>2. CASE proof[r].at = "disable"
      BY <3>2, Places
    <3>3. CASE proof[r].at = "renew"
      BY <3>3, Places
    <3> QED
      BY <1>2, <3>1, <3>2, <3>3
  <2> HIDE DEF q
  <2>3. /\ proof'[r] = q /\ \A p \in Client \ {r} : proof'[p] = proof[p]
        /\ proof' \in [Client -> Factor!Statement \union {Factor!Idle}]
    BY <1>1, <2>1, <2>2, OneReplies
  <2> HIDE DEF code
  <2>4. used' = used \union {code} /\ twice' = (twice \/ code \in used) /\ code \notin used
    BY <1>1, <1>4 DEF Factor!BatchInv, Factor!Accept
  <2>5. Factor!SecondFactorTypeOK'
    BY <1>1, <1>2, <1>4, <2>3, <2>4 DEF Factor!SecondFactorTypeOK
  <2>6. Factor!BatchInv'
    BY <1>1, <1>2, <1>4, <2>4 DEF Factor!BatchInv
  <2>7. ASSUME Factor!StaysOn PROVE Factor!EnrolmentInv'
    <3>1. Factor!EnrolmentInv /\ q.at # "disabling" /\ on
      BY <1>4, <2>2, <2>7 DEF Factor!FactorInv, Factor!EnrolmentInv
    <3> QED
      BY <1>2, <1>4, <2>2, <2>3, <2>4, <3>1 DEF Factor!EnrolmentInv
  <2>8. ASSUME Factor!OneAtATime PROVE Factor!SecretInv'
    <3>1. Client = {r} /\ Factor!SecretInv
      BY <2>8 DEF Factor!OneAtATime, Factor!FactorInv
    <3>2. Factor!SecretIsProven'
      BY <1>2, <2>4, <3>1 DEF Factor!SecretInv, Factor!SecretIsProven
    <3> QED
      BY <1>2, <2>2, <2>3, <2>4, <3>1, <3>2 DEF Factor!SecretInv
  <2> QED
    BY <2>5, <2>6, <2>7, <2>8 DEF Factor!FactorInv
<1> QED
  BY <1>3, <1>4 DEF Factor!ConsumeRecoveryCode, Factor!Reply

\* A secret waits for its first code.
LEMMA SetsPending ==
  ASSUME Factor!FactorInv, NEW r \in Client, Factor!SetPendingTOTP(r)
  PROVE  Factor!FactorInv'
<1>1. /\ Factor!SecondFactorTypeOK /\ proof[r].at = "setup" /\ proof[r].secret \in 1..MaxSecret
      /\ proof' = [proof EXCEPT ![r] = Factor!Idle]
      /\ UNCHANGED <<on, codes, step, made, batch, used, twice>>
  BY Carried DEF Factor!FactorInv, Factor!SetPendingTOTP, Factor!Reply
<1>2. /\ proof'[r].at = "idle" /\ \A p \in Client \ {r} : proof'[p] = proof[p]
      /\ proof' \in [Client -> Factor!Statement \union {Factor!Idle}]
  BY <1>1, OneReplies, Places
<1>3. CASE on /\ UNCHANGED <<secret, last>>
  <2>1. made' \in made..MaxSecret
    BY <1>1, FactorBounds DEF Factor!SecondFactorTypeOK
  <2> QED
    BY <1>1, <1>3, <2>1, Decides, Places
<1>4. CASE ~on /\ secret' = proof[r].secret /\ last' = 0
  <2>1. Factor!SecondFactorTypeOK'
    <3>1. 0 \in 0..MaxStep + Factor!Skew /\ secret' \in 0..MaxSecret
      BY <1>1, <1>4, FactorBounds
    <3> QED
      BY <1>1, <1>2, <1>4, <3>1 DEF Factor!SecondFactorTypeOK
  <2>2. Factor!BatchInv'
    BY <1>1 DEF Factor!FactorInv, Factor!BatchInv
  <2>3. Factor!StaysOn => Factor!EnrolmentInv'
    BY <1>1, <1>2, <1>4 DEF Factor!FactorInv, Factor!EnrolmentInv
  <2>4. ASSUME Factor!OneAtATime PROVE Factor!SecretInv'
    <3>1. Client = {r} /\ Factor!SecretInv
      BY <2>4 DEF Factor!OneAtATime, Factor!FactorInv
    <3> QED
      BY <1>1, <1>2, <1>4, <3>1 DEF Factor!SecretInv, Factor!SecretIsProven
  <2> QED
    BY <2>1, <2>2, <2>3, <2>4 DEF Factor!FactorInv
<1> QED
  BY <1>3, <1>4 DEF Factor!SetPendingTOTP

\* The codes of a new batch have not been used.
LEMMA BatchIsNew ==
  ASSUME Factor!SecondFactorTypeOK, Factor!BatchInv, batch < MaxBatch
  PROVE  /\ Factor!NewBatch \subseteq Factor!Recovery /\ batch + 1 \in 0..MaxBatch
         /\ \A c \in Factor!NewBatch : c.kind = "recovery" /\ c.of = batch + 1
         /\ Factor!NewBatch \intersect used = {}
         /\ \A c \in used : c.kind = "recovery" => c.of <= batch + 1
<1>1. batch \in Nat /\ MaxBatch \in Nat /\ batch + 1 \in 1..MaxBatch
  BY FactorBounds DEF Factor!SecondFactorTypeOK
<1>2. /\ Factor!NewBatch \subseteq Factor!Recovery
      /\ \A c \in Factor!NewBatch : c.kind = "recovery" /\ c.of = batch + 1
  BY <1>1 DEF Factor!NewBatch, Factor!Recovery
<1>3. \A c \in used : c.kind = "recovery" => c.of \in Nat /\ c.of <= batch
  BY CodeKinds, FactorBounds DEF Factor!SecondFactorTypeOK, Factor!BatchInv
<1> QED
  BY <1>1, <1>2, <1>3

\* The first code turns the factor on, or the statement finds it on or without a secret.
LEMMA Enables ==
  ASSUME Factor!FactorInv, FactorAlone, NEW r \in Client, Factor!EnableTOTP(r)
  PROVE  Factor!FactorInv'
<1> DEFINE code == proof[r].code
<1>1. /\ Factor!SecondFactorTypeOK /\ Factor!BatchInv /\ proof[r].at = "enable"
      /\ proof' = [proof EXCEPT ![r] = Factor!Idle]
      /\ UNCHANGED <<secret, step, made>>
  BY DEF Factor!FactorInv, Factor!EnableTOTP, Factor!Reply
<1>2. code \in Factor!Totp /\ code.kind = "totp" /\ code.n \in 0..MaxStep + Factor!Skew /\ code.of \in 1..MaxSecret
  BY <1>1, Carried, CodeKinds
<1>3. /\ proof'[r].at = "idle" /\ \A p \in Client \ {r} : proof'[p] = proof[p]
      /\ proof' \in [Client -> Factor!Statement \union {Factor!Idle}]
  BY <1>1, OneReplies, Places
<1>4. CASE UNCHANGED <<on, last, codes, batch, used, twice>>
  <2>1. made' \in made..MaxSecret
    BY <1>1, FactorBounds DEF Factor!SecondFactorTypeOK
  <2> QED
    BY <1>1, <1>4, <2>1, Decides, Places
<1>5. CASE /\ ~on /\ secret # 0 /\ batch < MaxBatch
           /\ on' = TRUE /\ last' = code.n /\ Factor!Accept(code)
           /\ codes' = Factor!NewBatch /\ batch' = batch + 1
  <2> HIDE DEF code
  <2>1. used' = used \union {code} /\ twice' = (twice \/ code \in used)
    BY <1>5 DEF Factor!Accept
  <2>2. code \notin used
    <3>1. CASE Factor!StaysOn
      BY <1>5, <3>1 DEF Factor!FactorInv, Factor!EnrolmentInv
    <3>2. CASE Factor!OneAtATime
      BY <1>1, <1>2, <1>5, <3>2 DEF Factor!FactorInv, Factor!SecretInv, code
    <3> QED
      BY <3>1, <3>2 DEF FactorAlone
  <2>3. Factor!SecondFactorTypeOK'
    BY <1>1, <1>2, <1>3, <1>5, <2>1, BatchIsNew DEF Factor!SecondFactorTypeOK
  <2>4. Factor!BatchInv'
    <3>1. \A c \in codes' : c.kind = "recovery" /\ c.of <= batch'
      BY <1>1, <1>5, BatchIsNew, FactorBounds DEF Factor!SecondFactorTypeOK
    <3> QED
      BY <1>1, <1>2, <1>5, <2>1, <2>2, <3>1, BatchIsNew DEF Factor!BatchInv
  <2>5. ASSUME Factor!StaysOn PROVE Factor!EnrolmentInv'
    <3>1. Factor!EnrolmentInv /\ used = {} /\ code.n \in Nat
      BY <1>2, <1>5, <2>5, FactorBounds DEF Factor!FactorInv, Factor!EnrolmentInv
    <3> QED
      BY <1>3, <1>5, <2>1, <3>1 DEF Factor!EnrolmentInv
  <2>6. ASSUME Factor!OneAtATime PROVE Factor!SecretInv'
    <3>1. Client = {r} /\ Factor!SecretInv /\ code.of = secret
      BY <1>1, <2>6 DEF Factor!OneAtATime, Factor!FactorInv, Factor!SecretInv, code
    <3>2. \A c \in used' : c.kind = "totp" => c.of <= made' /\ (c.of = secret' => on' /\ c.n <= last')
      BY <1>1, <1>2, <1>5, <2>1, <3>1, FactorBounds DEF Factor!SecretInv
    <3>3. Factor!SecretIsProven'
      BY <1>1, <1>2, <2>1, <3>1 DEF Factor!SecretIsProven
    <3> QED
      BY <1>1, <1>3, <1>5, <3>1, <3>2, <3>3 DEF Factor!SecretInv
  <2> QED
    BY <2>3, <2>4, <2>5, <2>6 DEF Factor!FactorInv
<1> QED
  BY <1>4, <1>5 DEF Factor!EnableTOTP

\* The factor is turned off, or its recovery codes are made anew.
LEMMA Renews ==
  ASSUME Factor!FactorInv, NEW r \in Client, Factor!DisableTOTP(r) \/ Factor!ReplaceRecoveryCodes(r)
  PROVE  Factor!FactorInv'
<1>1. /\ Factor!SecondFactorTypeOK /\ Factor!BatchInv
      /\ proof' = [proof EXCEPT ![r] = Factor!Idle]
      /\ UNCHANGED <<step, made, used, twice>>
  BY DEF Factor!FactorInv, Factor!DisableTOTP, Factor!ReplaceRecoveryCodes, Factor!Reply
<1>2. /\ proof'[r].at = "idle" /\ \A p \in Client \ {r} : proof'[p] = proof[p]
      /\ proof' \in [Client -> Factor!Statement \union {Factor!Idle}]
  BY <1>1, OneReplies, Places
<1>3. Factor!OneAtATime => Client = {r} /\ Factor!SecretInv
  BY DEF Factor!OneAtATime, Factor!FactorInv
<1>4. CASE Factor!DisableTOTP(r)
  <2>1. /\ on' = FALSE /\ secret' = 0 /\ last' = 0 /\ codes' = {} /\ UNCHANGED batch
        /\ proof[r].at \in {"disabling", "resetting"}
    BY <1>4 DEF Factor!DisableTOTP
  <2>2. Factor!SecondFactorTypeOK'
    <3>1. 0 \in 0..MaxStep + Factor!Skew /\ 0 \in 0..MaxSecret
      BY FactorBounds
    <3> QED
      BY <1>1, <1>2, <2>1, <3>1 DEF Factor!SecondFactorTypeOK
  <2>3. Factor!BatchInv'
    BY <1>1, <2>1 DEF Factor!BatchInv
  <2>4. ~Factor!StaysOn
    BY <2>1 DEF Factor!FactorInv, Factor!EnrolmentInv
  <2>5. ASSUME Factor!OneAtATime PROVE Factor!SecretInv'
    <3>1. \A c \in used : c.kind = "totp" => c.of # 0
      BY <1>1, CodeKinds DEF Factor!SecondFactorTypeOK
    <3>2. 0 <= made
      BY <1>1, FactorBounds DEF Factor!SecondFactorTypeOK
    <3> QED
      BY <1>1, <1>2, <1>3, <2>1, <2>5, <3>1, <3>2 DEF Factor!SecretInv, Factor!SecretIsProven
  <2> QED
    BY <2>2, <2>3, <2>4, <2>5 DEF Factor!FactorInv, Factor!StaysOn
<1>5. CASE Factor!ReplaceRecoveryCodes(r)
  <2>1. /\ codes' = Factor!NewBatch /\ batch' = batch + 1 /\ batch < MaxBatch /\ UNCHANGED <<on, secret, last>>
        /\ proof[r].at = "renewing"
    BY <1>5 DEF Factor!ReplaceRecoveryCodes
  <2>2. Factor!SecondFactorTypeOK'
    BY <1>1, <1>2, <2>1, BatchIsNew DEF Factor!SecondFactorTypeOK
  <2>3. Factor!BatchInv'
    <3>1. \A c \in codes' : c.kind = "recovery" /\ c.of <= batch'
      BY <1>1, <2>1, BatchIsNew, FactorBounds DEF Factor!SecondFactorTypeOK
    <3> QED
      BY <1>1, <2>1, <3>1, BatchIsNew DEF Factor!BatchInv
  <2>4. ASSUME Factor!StaysOn PROVE Factor!EnrolmentInv'
    <3>1. Factor!EnrolmentInv /\ on
      BY <2>1, <2>4 DEF Factor!FactorInv, Factor!EnrolmentInv
    <3> QED
      BY <1>1, <1>2, <2>1, <3>1 DEF Factor!EnrolmentInv
  <2>5. Factor!OneAtATime => Factor!SecretInv'
    BY <1>1, <1>2, <1>3, <2>1 DEF Factor!SecretInv, Factor!SecretIsProven
  <2> QED
    BY <2>2, <2>3, <2>4, <2>5 DEF Factor!FactorInv, Factor!StaysOn
<1> QED
  BY <1>4, <1>5

\* A request decides on the row as it reads it, or is given up.
LEMMA Begins ==
  ASSUME Factor!FactorInv, NEW r \in Client,
         \/ \E op \in {"login", "disable", "renew"}, c \in Factor!Totp \union Factor!Recovery : Factor!Present(r, op, c)
         \/ \E c \in Factor!Totp : Factor!BeginEnable(r, c)
         \/ Factor!BeginSetup(r) \/ Factor!BeginReset(r) \/ Factor!Abort(r)
  PROVE  Factor!FactorInv'
<1>1. Factor!SecondFactorTypeOK /\ made \in made..MaxSecret /\ (made < MaxSecret => made + 1 \in 1..MaxSecret)
      /\ (made < MaxSecret => made + 1 \in made..MaxSecret) /\ made < made + 1
  BY FactorBounds DEF Factor!FactorInv, Factor!SecondFactorTypeOK
<1>2. ASSUME NEW op \in {"login", "disable", "renew"}, NEW c \in Factor!Totp \union Factor!Recovery,
             Factor!Present(r, op, c)
      PROVE  Factor!FactorInv'
  <2> DEFINE q == [at |-> op, code |-> c]
  <2>1. /\ on /\ (c.kind = "totp" => c.of = secret) /\ op \in Handlers /\ proof' = [proof EXCEPT ![r] = q]
        /\ UNCHANGED <<on, secret, last, codes, step, batch, made, used, twice>>
    BY <1>2 DEF Factor!Present, Factor!Decide, Factor!Verify
  <2>2. q \in Factor!Statement /\ q.at = op /\ q.code = c
    BY Places
  <2>3. Factor!StaysOn => op # "disable"
    BY <2>1 DEF Factor!StaysOn
  <2> HIDE DEF q
  <2> QED
    BY <1>1, <1>2, <2>1, <2>2, <2>3, Decides
<1>3. ASSUME NEW c \in Factor!Totp, Factor!BeginEnable(r, c) PROVE Factor!FactorInv'
  <2> DEFINE q == [at |-> "enable", code |-> c]
  <2>1. /\ ~on /\ c.of = secret /\ proof' = [proof EXCEPT ![r] = q]
        /\ UNCHANGED <<on, secret, last, codes, step, batch, made, used, twice>>
    BY <1>3 DEF Factor!BeginEnable, Factor!Decide, Factor!Verify
  <2>2. q \in Factor!Statement /\ q.at = "enable" /\ q.code = c
    BY Places
  <2> HIDE DEF q
  <2> QED
    BY <1>1, <2>1, <2>2, Decides
<1>4. CASE Factor!BeginSetup(r)
  <2> DEFINE q == [at |-> "setup", secret |-> made + 1]
  <2>1. /\ ~on /\ made < MaxSecret /\ made' = made + 1 /\ proof' = [proof EXCEPT ![r] = q]
        /\ UNCHANGED <<on, secret, last, codes, step, batch, used, twice>>
    BY <1>4 DEF Factor!BeginSetup, Factor!Decide
  <2>2. q \in Factor!Statement /\ q.at = "setup" /\ q.secret = made + 1
    BY <1>1, <2>1, Places
  <2> HIDE DEF q
  <2>3. made' \in made..MaxSecret /\ made < q.secret /\ q.secret <= made'
    BY <1>1, <2>1, <2>2
  <2> QED
    BY <2>1, <2>2, <2>3, Decides
<1>5. CASE Factor!BeginReset(r)
  <2> DEFINE q == [at |-> "resetting"]
  <2>1. /\ "reset" \in Handlers /\ proof' = [proof EXCEPT ![r] = q]
        /\ UNCHANGED <<on, secret, last, codes, step, batch, made, used, twice>>
    BY <1>5 DEF Factor!BeginReset, Factor!Decide
  <2>2. q \in Factor!Statement /\ q.at = "resetting" /\ ~Factor!StaysOn
    BY <2>1, Places DEF Factor!StaysOn
  <2> HIDE DEF q
  <2> QED
    BY <1>1, <2>1, <2>2, Decides
<1>6. CASE Factor!Abort(r)
  BY <1>1, <1>6, Decides, Places DEF Factor!Abort, Factor!Reply
<1> QED
  BY <1>2, <1>3, <1>4, <1>5, <1>6

\* The clock goes on, or nothing happens.
LEMMA ClockGoes ==
  ASSUME Factor!FactorInv, Factor!Tick \/ UNCHANGED Factor!vars
  PROVE  Factor!FactorInv'
<1>1. UNCHANGED <<on, secret, last, codes, made, batch, proof, used, twice>> /\ step' \in 1..MaxStep
  BY FactorBounds DEF Factor!FactorInv, Factor!SecondFactorTypeOK, Factor!Tick, Factor!vars
<1>2. Factor!SecondFactorTypeOK'
  BY <1>1 DEF Factor!FactorInv, Factor!SecondFactorTypeOK
<1>3. Factor!BatchInv' /\ (Factor!StaysOn => Factor!EnrolmentInv')
  BY <1>1 DEF Factor!FactorInv, Factor!BatchInv, Factor!EnrolmentInv
<1>4. Factor!OneAtATime => Factor!SecretInv'
  BY <1>1 DEF Factor!FactorInv, Factor!SecretInv, Factor!SecretIsProven
<1> QED
  BY <1>2, <1>3, <1>4 DEF Factor!FactorInv

\* The invariant of the second factor is kept by every step.
LEMMA NextFactor ==
  ASSUME FactorAlone
  PROVE  Factor!FactorInv /\ [Factor!SecondFactorNext]_Factor!vars => Factor!FactorInv'
<1> SUFFICES ASSUME Factor!FactorInv, [Factor!SecondFactorNext]_Factor!vars PROVE Factor!FactorInv'
  OBVIOUS
<1>1. CASE Factor!Tick \/ UNCHANGED Factor!vars
  BY <1>1, ClockGoes
<1>2. ASSUME NEW r \in Client,
             \/ \E op \in {"login", "disable", "renew"}, c \in Factor!Totp \union Factor!Recovery : Factor!Present(r, op, c)
             \/ \E c \in Factor!Totp : Factor!BeginEnable(r, c)
             \/ Factor!BeginSetup(r) \/ Factor!BeginReset(r)
             \/ Factor!ConsumeTOTPStep(r) \/ Factor!ConsumeRecoveryCode(r)
             \/ Factor!SetPendingTOTP(r) \/ Factor!EnableTOTP(r)
             \/ Factor!DisableTOTP(r) \/ Factor!ReplaceRecoveryCodes(r) \/ Factor!Abort(r)
      PROVE  Factor!FactorInv'
  BY <1>2, Begins, ConsumesStep, ConsumesCode, SetsPending, Enables, Renews
<1> QED
  BY <1>1, <1>2 DEF Factor!SecondFactorNext

\* No code of an authenticator and no recovery code is accepted twice: by requests
\* that come one after the other, over any number of enrolments, or by any number
\* at the same time as long as nobody turns the factor off (account.go, ConsumeTOTPStep, EnableTOTP).
THEOREM CodesUsedOnce == FactorAlone => (Factor!SecondFactorSpec => []CodesAreUsedOnce)
<1> SUFFICES ASSUME FactorAlone PROVE Factor!SecondFactorSpec => []CodesAreUsedOnce
  OBVIOUS
<1>1. [Factor!SecondFactorNext]_Factor!vars /\ Factor!FactorInv => Factor!FactorInv'
  BY NextFactor
<1>2. Factor!FactorInv => CodesAreUsedOnce
  BY DEF Factor!FactorInv, Factor!BatchInv, CodesAreUsedOnce, Factor!CodesAreUsedOnce
<1> QED
  BY <1>1, <1>2, InitFactor, PTL DEF Factor!SecondFactorSpec

\* Types, also where requests overlap in any way
LEMMA FactorStaysTyped ==
  ASSUME Factor!SecondFactorTypeOK, [Factor!SecondFactorNext]_Factor!vars
  PROVE  Factor!SecondFactorTypeOK'
<1> USE FactorBounds
<1>1. CASE Factor!Tick \/ UNCHANGED Factor!vars
  BY <1>1 DEF Factor!Tick, Factor!vars, Factor!SecondFactorTypeOK
<1>2. ASSUME NEW r \in Client, NEW q \in Factor!Statement \union {Factor!Idle},
             proof' = [proof EXCEPT ![r] = q],
             on' \in BOOLEAN, twice' \in BOOLEAN, secret' \in 0..MaxSecret, made' \in 0..MaxSecret,
             batch' \in 0..MaxBatch, last' \in 0..MaxStep + Factor!Skew, step' = step,
             codes' \subseteq Factor!Recovery, used' \subseteq Factor!Totp \union Factor!Recovery
      PROVE  Factor!SecondFactorTypeOK'
  BY <1>2, OneReplies DEF Factor!SecondFactorTypeOK
<1>3. ASSUME NEW r \in Client,
             \/ \E op \in {"login", "disable", "renew"}, c \in Factor!Totp \union Factor!Recovery :
                  Factor!Present(r, op, c)
             \/ \E c \in Factor!Totp : Factor!BeginEnable(r, c)
             \/ Factor!BeginSetup(r) \/ Factor!BeginReset(r)
      PROVE  Factor!SecondFactorTypeOK'
  <2>1. PICK q \in Factor!Statement \union {Factor!Idle} : \E op : Factor!Decide(r, op, q)
    <3>1. CASE \E op \in {"login", "disable", "renew"}, c \in Factor!Totp \union Factor!Recovery :
                  Factor!Present(r, op, c)
      BY <3>1, Places DEF Factor!Present
    <3>2. CASE \E c \in Factor!Totp : Factor!BeginEnable(r, c)
      BY <3>2, Places DEF Factor!BeginEnable
    <3>3. CASE Factor!BeginSetup(r)
      <4>1. made + 1 \in 1..MaxSecret
        BY <3>3 DEF Factor!BeginSetup, Factor!SecondFactorTypeOK
      <4> QED
        BY <3>3, <4>1, Places DEF Factor!BeginSetup
    <3>4. CASE Factor!BeginReset(r)
      BY <3>4, Places DEF Factor!BeginReset
    <3> QED
      BY <1>3, <3>1, <3>2, <3>3, <3>4
  <2>2. UNCHANGED made \/ (made < MaxSecret /\ made' = made + 1)
    <3>1. CASE \E w \in {"login", "disable", "renew"}, c \in Factor!Totp \union Factor!Recovery :
                  Factor!Present(r, w, c)
      BY <3>1 DEF Factor!Present
    <3>2. CASE \E c \in Factor!Totp : Factor!BeginEnable(r, c)
      BY <3>2 DEF Factor!BeginEnable
    <3>3. CASE Factor!BeginSetup(r) \/ Factor!BeginReset(r)
      BY <3>3 DEF Factor!BeginSetup, Factor!BeginReset
    <3> QED
      BY <1>3, <3>1, <3>2, <3>3
  <2>3. made' \in 0..MaxSecret
    BY <2>2 DEF Factor!SecondFactorTypeOK
  <2> QED
    BY <1>2, <2>1, <2>3 DEF Factor!Decide, Factor!SecondFactorTypeOK
<1>4. ASSUME NEW r \in Client,
             \/ Factor!ConsumeTOTPStep(r) \/ Factor!ConsumeRecoveryCode(r)
      PROVE  Factor!SecondFactorTypeOK'
  <2>1. proof[r].at \in {"login", "disable", "renew"} /\ proof[r].code \in Factor!Totp \union Factor!Recovery
    BY <1>4, Carried DEF Factor!ConsumeTOTPStep, Factor!ConsumeRecoveryCode
  <2>2. PICK q \in Factor!Statement \union {Factor!Idle} : proof' = [proof EXCEPT ![r] = q]
    BY <1>4, Places DEF Factor!ConsumeTOTPStep, Factor!ConsumeRecoveryCode, Factor!Consumed, Factor!Reply
  <2>3. proof[r].code.kind = "totp" => proof[r].code.n \in 0..MaxStep + Factor!Skew
    BY <2>1, CodeKinds
  <2>4. /\ twice' \in BOOLEAN /\ last' \in 0..MaxStep + Factor!Skew
        /\ codes' \subseteq Factor!Recovery /\ used' \subseteq Factor!Totp \union Factor!Recovery
    BY <1>4, <2>1, <2>3 DEF Factor!ConsumeTOTPStep, Factor!ConsumeRecoveryCode, Factor!Accept,
                            Factor!SecondFactorTypeOK
  <2> QED
    BY <1>2, <1>4, <2>2, <2>4 DEF Factor!ConsumeTOTPStep, Factor!ConsumeRecoveryCode, Factor!SecondFactorTypeOK
<1>5. ASSUME NEW r \in Client,
             \/ Factor!SetPendingTOTP(r) \/ Factor!DisableTOTP(r) \/ Factor!Abort(r)
      PROVE  Factor!SecondFactorTypeOK'
  <2>1. proof[r].at = "setup" => proof[r].secret \in 1..MaxSecret
    BY Carried
  <2>2. /\ proof' = [proof EXCEPT ![r] = Factor!Idle]
        /\ on' \in BOOLEAN /\ secret' \in 0..MaxSecret /\ last' \in 0..MaxStep + Factor!Skew
        /\ codes' \subseteq Factor!Recovery
    <3>1. /\ 0 \in 0..MaxSecret /\ 0 \in 0..MaxStep + Factor!Skew
          /\ \A n \in 1..MaxSecret : n \in 0..MaxSecret
      OBVIOUS
    <3>2. CASE Factor!SetPendingTOTP(r)
      BY <2>1, <3>1, <3>2 DEF Factor!SetPendingTOTP, Factor!Reply, Factor!SecondFactorTypeOK
    <3>3. CASE Factor!DisableTOTP(r) \/ Factor!Abort(r)
      BY <3>1, <3>3 DEF Factor!DisableTOTP, Factor!Abort, Factor!Reply, Factor!SecondFactorTypeOK
    <3> QED
      BY <1>5, <3>2, <3>3
  <2> QED
    BY <1>2, <1>5, <2>2, Places DEF Factor!SetPendingTOTP, Factor!DisableTOTP, Factor!Abort,
                                    Factor!SecondFactorTypeOK
<1>6. ASSUME NEW r \in Client, Factor!EnableTOTP(r) \/ Factor!ReplaceRecoveryCodes(r)
      PROVE  Factor!SecondFactorTypeOK'
  <2>1. proof[r].at = "enable" => /\ proof[r].code \in Factor!Totp
                                 /\ proof[r].code.n \in 0..MaxStep + Factor!Skew
    BY Carried, CodeKinds
  <2>2. batch < MaxBatch => batch + 1 \in 0..MaxBatch /\ Factor!NewBatch \subseteq Factor!Recovery
    BY DEF Factor!SecondFactorTypeOK, Factor!NewBatch, Factor!Recovery
  <2>3. /\ proof' = [proof EXCEPT ![r] = Factor!Idle]
        /\ on' \in BOOLEAN /\ twice' \in BOOLEAN /\ batch' \in 0..MaxBatch
        /\ last' \in 0..MaxStep + Factor!Skew /\ codes' \subseteq Factor!Recovery
        /\ used' \subseteq Factor!Totp \union Factor!Recovery
    BY <1>6, <2>1, <2>2 DEF Factor!EnableTOTP, Factor!ReplaceRecoveryCodes, Factor!Reply, Factor!Accept,
                            Factor!SecondFactorTypeOK
  <2> QED
    BY <1>2, <1>6, <2>3, Places DEF Factor!EnableTOTP, Factor!ReplaceRecoveryCodes, Factor!SecondFactorTypeOK
<1> QED
  BY <1>1, <1>3, <1>4, <1>5, <1>6 DEF Factor!SecondFactorNext

\* None replaces the secret of a factor that stays on or takes back its steps.
LEMMA SecretStep ==
  ASSUME Factor!SecondFactorTypeOK, [Factor!SecondFactorNext]_Factor!vars
  PROVE  Factor!KeepsSecret
<1> SUFFICES ASSUME on, on' PROVE secret' = secret /\ last' >= last
  BY DEF Factor!KeepsSecret
<1>1. last \in Int
  BY FactorBounds DEF Factor!SecondFactorTypeOK
<1>2. CASE UNCHANGED <<secret, last>>
  BY <1>1, <1>2
<1>3. ASSUME NEW r \in Client, Factor!ConsumeTOTPStep(r)
      PROVE  secret' = secret /\ last' >= last
  <2>1. proof[r].code.kind = "totp" /\ proof[r].code \in Factor!Totp \union Factor!Recovery
    BY <1>3, Carried DEF Factor!ConsumeTOTPStep
  <2>2. proof[r].code.n \in Int
    BY <2>1, CodeKinds, FactorBounds
  <2> QED
    BY <1>1, <1>3, <2>2 DEF Factor!ConsumeTOTPStep
<1>4. ASSUME NEW r \in Client,
             \/ Factor!SetPendingTOTP(r) \/ Factor!EnableTOTP(r) \/ Factor!DisableTOTP(r)
      PROVE  secret' = secret /\ last' >= last
  BY <1>1, <1>4 DEF Factor!SetPendingTOTP, Factor!EnableTOTP, Factor!DisableTOTP
<1>5. ASSUME NEW r \in Client,
             \/ \E op \in {"login", "disable", "renew"}, c \in Factor!Totp \union Factor!Recovery :
                  Factor!Present(r, op, c)
             \/ \E c \in Factor!Totp : Factor!BeginEnable(r, c)
             \/ Factor!BeginSetup(r) \/ Factor!BeginReset(r)
             \/ Factor!ConsumeRecoveryCode(r) \/ Factor!ReplaceRecoveryCodes(r) \/ Factor!Abort(r)
      PROVE  UNCHANGED <<secret, last>>
  BY <1>5 DEF Factor!Present, Factor!BeginEnable, Factor!BeginSetup, Factor!BeginReset, Factor!Decide,
              Factor!ConsumeRecoveryCode, Factor!ReplaceRecoveryCodes, Factor!Abort
<1>6. CASE Factor!Tick \/ UNCHANGED Factor!vars
  BY <1>2, <1>6 DEF Factor!Tick, Factor!vars
<1> QED
  BY <1>2, <1>3, <1>4, <1>5, <1>6 DEF Factor!SecondFactorNext

\* However requests overlap, none replaces the secret of a factor that stays on or
\* takes back the steps it has accepted (SetPendingTOTP, EnableTOTP).
THEOREM SecretKept == Factor!SecondFactorSpec => [][Factor!KeepsSecret]_Factor!vars
<1>1. Factor!SecondFactorInit => Factor!SecondFactorTypeOK
  BY InitFactor DEF Factor!FactorInv
<1> QED
  BY <1>1, SecretStep, FactorStaysTyped, PTL DEF Factor!SecondFactorSpec

-----------------------------------------------------------------------------
(* The limit on sign-ins.                                                  *)

\* Every set of natural numbers has a least one.
LEMMA Least ==
  ASSUME NEW T \in SUBSET Nat, T # {}
  PROVE  \E x \in T : \A y \in T : x <= y
<1> DEFINE R == {ss \in Nat \X Nat : ss[1] < ss[2]}
<1>1. IsWellFoundedOn(R, Nat)
  BY NatLessThanWellFounded DEF OpToRel
<1>2. \A x, y \in Nat : x < y => <<x, y>> \in R
  OBVIOUS
<1> HIDE DEF R
<1>3. \E x \in T : \A y \in T : ~(<<y, x>> \in R)
  BY <1>1, WFMin
<1>4. ASSUME NEW x \in T, \A y \in T : ~(<<y, x>> \in R)
      PROVE  \A y \in T : x <= y
  <2> TAKE y \in T
  <2>1. ~(y < x)
    BY <1>2, <1>4
  <2> QED
    BY <2>1
<1> QED
  BY <1>3, <1>4

\* Induction: a set with 0 and every successor has every natural number.
LEMMA Induction ==
  ASSUME NEW S, 0 \in S, \A n \in Nat : n \in S => n + 1 \in S
  PROVE  Nat \subseteq S
<1> SUFFICES ASSUME Nat \ S # {} PROVE FALSE
  OBVIOUS
<1>1. PICK x \in Nat \ S : \A y \in Nat \ S : x <= y
  BY Least, Nat \ S \in SUBSET Nat
<1>2. x # 0 /\ x - 1 \in Nat
  BY <1>1
<1>3. x - 1 \in S
  BY <1>1, <1>2
<1> QED
  BY <1>1, <1>2, <1>3

\* What stands in an entry after its first a times, up to the n-th
After(s, a, n) == [i \in 1..n - a |-> s[a + i]]

\* One longer than up to the one before.
LEMMA AfterGrows ==
  ASSUME NEW s \in Seq(Nat), NEW a \in 0..Len(s), NEW n \in a + 1..Len(s)
  PROVE  After(s, a, n) = Append(After(s, a, n - 1), s[n])
<1>1. \A m \in 0..Len(s) : m >= a => After(s, a, m) \in Seq(Nat) /\ Len(After(s, a, m)) = m - a
  <2> SUFFICES ASSUME NEW m \in 0..Len(s), m >= a
               PROVE  After(s, a, m) \in Seq(Nat) /\ Len(After(s, a, m)) = m - a
    OBVIOUS
  <2>1. m - a \in Nat /\ \A i \in 1..m - a : s[a + i] \in Nat
    BY ElementOfSeq
  <2> QED
    BY <2>1 DEF After
<1>2. s[n] \in Nat /\ n - 1 \in 0..Len(s) /\ n - 1 >= a /\ (n - 1) - a + 1 = n - a
  OBVIOUS
<1> DEFINE u == After(s, a, n - 1)
           v == Append(u, s[n])
<1>3. u \in Seq(Nat) /\ Len(u) = (n - 1) - a
  BY <1>1, <1>2
<1>4. /\ v \in Seq(Nat) /\ Len(v) = n - a
      /\ v[n - a] = s[n] /\ \A i \in 1..(n - 1) - a : v[i] = u[i]
  <2> HIDE DEF u
  <2>1. /\ v \in Seq(Nat) /\ Len(v) = Len(u) + 1
        /\ v[Len(u) + 1] = s[n] /\ \A i \in 1..Len(u) : v[i] = u[i]
    BY <1>2, <1>3, AppendProperties
  <2> HIDE DEF v
  <2>2. Len(u) + 1 = n - a
    BY <1>2, <1>3
  <2>3. Len(v) = n - a /\ v[n - a] = s[n]
    BY <2>1, <2>2
  <2>4. \A i \in 1..(n - 1) - a : v[i] = u[i]
    BY <1>3, <2>1
  <2> QED
    BY <2>1, <2>3, <2>4
<1>5. After(s, a, n) \in Seq(Nat) /\ Len(After(s, a, n)) = n - a
  BY <1>1
<1>6. \A i \in 1..n - a : After(s, a, n)[i] = s[a + i]
  BY DEF After
<1>7. \A i \in 1..(n - 1) - a : u[i] = s[a + i]
  BY DEF After
<1>8. \A i \in 1..n - a : After(s, a, n)[i] = v[i]
  <2> HIDE DEF u, v
  <2> TAKE i \in 1..n - a
  <2>1. i = n - a \/ i \in 1..(n - 1) - a
    OBVIOUS
  <2>2. a + (n - a) = n
    OBVIOUS
  <2> QED
    BY <1>4, <1>6, <1>7, <2>1, <2>2
<1>9. After(s, a, n) = v
  <2> HIDE DEF v
  <2> QED
    BY <1>4, <1>5, <1>8, SeqEqual
<1> QED
  BY <1>9

\* What the loop keeps of an entry, of which the first a times are too old and the
\* others are not, is its end.
LEMMA KeepsTheEnd ==
  ASSUME NEW s \in Seq(Nat), NEW t \in Nat, NEW a \in 0..Len(s), Window \in Nat,
         \A i \in 1..a : s[i] + Window <= t,
         \A i \in a + 1..Len(s) : s[i] + Window > t
  PROVE  Limit!Recent(s, t) = After(s, a, Len(s))
<1> DEFINE Loop(k) == [n \in 0..Len(s) |->
                         IF n = 0 THEN <<>>
                         ELSE IF s[n] + Window > t THEN Append(k[n - 1], s[n]) ELSE k[n - 1]]
           f == [n \in 0..Len(s) |-> After(s, a, n)]
           g == CHOOSE k : k = Loop(k)
<1>0. Len(s) \in Nat
  OBVIOUS
<1>1. Limit!Recent(s, t) = g[Len(s)]
  BY DEF Limit!Recent
<1>2. f = Loop(f)
  <2>1. \A n \in 0..Len(s) : n <= a => f[n] = <<>>
    BY DEF After
  <2>2. \A n \in a + 1..Len(s) : f[n] = Append(f[n - 1], s[n])
    BY AfterGrows
  <2>3. \A n \in 0..Len(s) : f[n] = Loop(f)[n]
    <3> HIDE DEF f
    <3> TAKE n \in 0..Len(s)
    <3>1. CASE n = 0
      BY <2>1, <3>1
    <3>2. CASE n # 0 /\ n <= a
      <4>1. f[n] = <<>> /\ f[n - 1] = <<>> /\ ~(s[n] + Window > t)
        BY <2>1, <3>2, ElementOfSeq
      <4> QED
        BY <3>2, <4>1
    <3>3. CASE n > a
      <4>1. n \in a + 1..Len(s) /\ n # 0
        BY <3>3
      <4> QED
        BY <2>2, <4>1
    <3> QED
      BY <3>1, <3>2, <3>3
  <2> QED
    BY <2>3
<1>3. g = Loop(g)
  <2> HIDE DEF f, Loop
  <2> QED
    BY <1>2, Zenon
<1>4. \A n \in Nat : n <= Len(s) => g[n] = f[n]
  <2> DEFINE S == {n \in Nat : n <= Len(s) => g[n] = f[n]}
  <2> HIDE DEF f, g
  <2>1. \A n \in 0..Len(s) : g[n] = Loop(g)[n] /\ f[n] = Loop(f)[n]
    BY <1>2, <1>3
  <2>2. 0 \in S
    BY <2>1
  <2>3. \A n \in Nat : n \in S => n + 1 \in S
    <3> SUFFICES ASSUME NEW n \in Nat, n \in S PROVE n + 1 \in S
      OBVIOUS
    <3>1. CASE n + 1 <= Len(s)
      <4>1. n + 1 \in 0..Len(s) /\ n + 1 # 0 /\ (n + 1) - 1 = n /\ n <= Len(s)
        BY <1>0, <3>1
      <4>2. g[n] = f[n]
        BY <4>1
      <4>3. g[n + 1] = f[n + 1]
        BY <2>1, <4>1, <4>2
      <4> QED
        BY <4>3
    <3> QED
      BY <3>1
  <2> HIDE DEF S
  <2>4. Nat \subseteq S
    BY <2>2, <2>3, Induction
  <2> QED
    BY <2>4 DEF S
<1>5. f[Len(s)] = After(s, a, Len(s)) /\ Len(s) \in Nat
  OBVIOUS
<1> QED
  <2> HIDE DEF f, g
  <2> QED
    BY <1>1, <1>4, <1>5

\* Times in their order
Ordered(s) == \A i, j \in DOMAIN s : i <= j => s[i] <= s[j]

\* Of times in their order, the first ones are those that are too old.
LEMMA Parted ==
  ASSUME NEW s \in Seq(Nat), NEW t \in Nat, Window \in Nat, Ordered(s)
  PROVE  \E a \in 0..Len(s) : /\ \A i \in 1..a : s[i] + Window <= t
                              /\ \A i \in a + 1..Len(s) : s[i] + Window > t
                              /\ Limit!Recent(s, t) = After(s, a, Len(s))
<1>0. Len(s) \in Nat /\ \A i \in 1..Len(s) : s[i] \in Nat
  BY ElementOfSeq
<1> SUFFICES \E a \in 0..Len(s) : /\ \A i \in 1..a : s[i] + Window <= t
                                  /\ \A i \in a + 1..Len(s) : s[i] + Window > t
  BY KeepsTheEnd
<1> DEFINE T == {i \in 1..Len(s) : s[i] + Window > t}
<1>1. CASE T = {}
  <2>1. \A i \in 1..Len(s) : s[i] + Window <= t
    <3> TAKE i \in 1..Len(s)
    <3>1. ~(s[i] + Window > t)
      BY <1>1
    <3>2. s[i] \in Nat
      BY <1>0
    <3> QED
      BY <3>1, <3>2
  <2>2. Len(s) \in 0..Len(s) /\ \A i \in Len(s) + 1..Len(s) : FALSE
    BY <1>0
  <2> QED
    BY <2>1, <2>2
<1>2. CASE T # {}
  <2>1. T \in SUBSET Nat
    OBVIOUS
  <2>2. PICK x \in T : \A y \in T : x <= y
    <3> HIDE DEF T
    <3> QED
      BY <1>2, <2>1, Least
  <2>3. x \in 1..Len(s) /\ x - 1 \in 0..Len(s) /\ (x - 1) + 1 = x
    BY <1>0
  <2>4. \A i \in 1..x - 1 : s[i] + Window <= t
    <3> TAKE i \in 1..x - 1
    <3>1. i \in 1..Len(s) /\ ~(x <= i)
      BY <1>0, <2>3
    <3>2. ~(i \in T)
      BY <2>2, <3>1
    <3> QED
      BY <1>0, <3>1, <3>2
  <2>5. \A i \in x..Len(s) : s[i] + Window > t
    <3> TAKE i \in x..Len(s)
    <3>1. i \in 1..Len(s) /\ x <= i /\ DOMAIN s = 1..Len(s)
      BY <1>0, <2>3
    <3>2. s[x] <= s[i] /\ s[x] + Window > t /\ s[x] \in Nat /\ s[i] \in Nat
      BY <1>0, <2>3, <3>1 DEF Ordered
    <3> QED
      BY <3>2
  <2> QED
    BY <2>3, <2>4, <2>5
<1> QED
  BY <1>1, <1>2

\* The end of an entry
LEMMA AfterFacts ==
  ASSUME NEW s \in Seq(Nat), NEW a \in 0..Len(s)
  PROVE  /\ After(s, a, Len(s)) \in Seq(Nat) /\ Len(After(s, a, Len(s))) = Len(s) - a
         /\ \A i \in 1..Len(s) - a : /\ After(s, a, Len(s))[i] = s[a + i]
                                     /\ a + i \in 1..Len(s)
<1>1. Len(s) - a \in Nat /\ \A i \in 1..Len(s) - a : s[a + i] \in Nat /\ a + i \in 1..Len(s)
  BY ElementOfSeq
<1> QED
  BY <1>1 DEF After

\* What is kept is in order, from the window, and no younger than before.
LEMMA KeptFacts ==
  ASSUME NEW s \in Seq(Nat), NEW t \in Nat, Window \in Nat, Ordered(s)
  PROVE  /\ Limit!Recent(s, t) \in Seq(Nat) /\ Ordered(Limit!Recent(s, t))
         /\ \A i \in 1..Len(Limit!Recent(s, t)) :
               /\ Limit!Recent(s, t)[i] + Window > t
               /\ \E j \in 1..Len(s) : Limit!Recent(s, t)[i] = s[j]
<1>1. PICK a \in 0..Len(s) : /\ \A i \in a + 1..Len(s) : s[i] + Window > t
                             /\ Limit!Recent(s, t) = After(s, a, Len(s))
  BY Parted
<1> DEFINE r == Limit!Recent(s, t)
<1>2. /\ r \in Seq(Nat) /\ Len(r) = Len(s) - a
      /\ \A i \in 1..Len(s) - a : r[i] = s[a + i] /\ a + i \in 1..Len(s)
  BY <1>1, AfterFacts
<1> HIDE DEF r
<1>3. DOMAIN r = 1..Len(s) - a /\ DOMAIN s = 1..Len(s) /\ Len(s) \in Nat
  BY <1>2
<1>4. Ordered(r)
  <2> SUFFICES ASSUME NEW i \in 1..Len(s) - a, NEW j \in 1..Len(s) - a, i <= j
               PROVE  r[i] <= r[j]
    BY <1>3 DEF Ordered
  <2>1. a + i \in DOMAIN s /\ a + j \in DOMAIN s /\ a + i <= a + j
    BY <1>2, <1>3
  <2> QED
    BY <1>2, <2>1 DEF Ordered
<1>5. \A i \in 1..Len(r) : r[i] + Window > t /\ \E j \in 1..Len(s) : r[i] = s[j]
  <2> TAKE i \in 1..Len(r)
  <2>1. i \in 1..Len(s) - a /\ a + i \in a + 1..Len(s) /\ a + i \in 1..Len(s)
    BY <1>2, <1>3
  <2> QED
    BY <1>1, <1>2, <2>1
<1> QED
  BY <1>2, <1>4, <1>5 DEF r

\* What all came after the beginning of the window stays, and so does one more.
LEMMA KeptWhole ==
  ASSUME NEW s \in Seq(Nat), NEW t \in Nat, Window \in Nat, Window > 0,
         \A i \in 1..Len(s) : s[i] + Window > t
  PROVE  /\ Limit!Recent(s, t) = s
         /\ Limit!Recent(Append(s, t), t) = Append(s, t)
<1>1. \A u \in Seq(Nat) : (\A i \in 1..Len(u) : u[i] + Window > t) => Limit!Recent(u, t) = u
  <2> SUFFICES ASSUME NEW u \in Seq(Nat), \A i \in 1..Len(u) : u[i] + Window > t
               PROVE  Limit!Recent(u, t) = u
    OBVIOUS
  <2>0. Len(u) \in Nat /\ 0 \in 0..Len(u) /\ 0 + 1 = 1
    OBVIOUS
  <2>1. Limit!Recent(u, t) = After(u, 0, Len(u))
    <3>1. /\ \A i \in 1..0 : u[i] + Window <= t
          /\ \A i \in 0 + 1..Len(u) : u[i] + Window > t
      BY <2>0
    <3> QED
      BY <2>0, <3>1, KeepsTheEnd
  <2>2. /\ After(u, 0, Len(u)) \in Seq(Nat) /\ Len(After(u, 0, Len(u))) = Len(u)
        /\ \A i \in 1..Len(u) : After(u, 0, Len(u))[i] = u[i]
    BY <2>0, AfterFacts
  <2>3. After(u, 0, Len(u)) = u
    BY <2>2, SeqEqual
  <2> QED
    BY <2>1, <2>3
<1>2. Append(s, t) \in Seq(Nat) /\ \A i \in 1..Len(Append(s, t)) : Append(s, t)[i] + Window > t
  <2>1. /\ Append(s, t) \in Seq(Nat) /\ Len(Append(s, t)) = Len(s) + 1
        /\ Append(s, t)[Len(s) + 1] = t /\ \A i \in 1..Len(s) : Append(s, t)[i] = s[i]
    BY AppendProperties
  <2>2. \A i \in 1..Len(s) + 1 : i \in 1..Len(s) \/ i = Len(s) + 1
    OBVIOUS
  <2>3. t + Window > t
    OBVIOUS
  <2> QED
    BY <2>1, <2>2, <2>3
<1> QED
  BY <1>1, <1>2

\* Nothing is left of what is all too old.
LEMMA KeptNothing ==
  ASSUME NEW s \in Seq(Nat), NEW t \in Nat, Window \in Nat,
         \A i \in 1..Len(s) : s[i] + Window <= t
  PROVE  Limit!Recent(s, t) = <<>>
<1>1. Len(s) \in Nat /\ Len(s) \in 0..Len(s) /\ \A i \in Len(s) + 1..Len(s) : FALSE
  OBVIOUS
<1>2. Limit!Recent(s, t) = After(s, Len(s), Len(s))
  BY <1>1, KeepsTheEnd
<1>3. Len(s) - Len(s) = 0
  BY <1>1
<1> QED
  BY <1>2, <1>3 DEF After

\* It makes no difference whether what is too old by now was dropped before.
LEMMA KeptLater ==
  ASSUME NEW s \in Seq(Nat), NEW t \in Nat, NEW u \in Nat, t <= u, Window \in Nat, Ordered(s)
  PROVE  /\ Limit!Recent(s, u) = Limit!Recent(Limit!Recent(s, t), u)
         /\ Len(Limit!Recent(s, u)) <= Len(Limit!Recent(s, t))
<1>0. Len(s) \in Nat /\ \A i \in 1..Len(s) : s[i] \in Nat
  BY ElementOfSeq
<1>1. PICK a \in 0..Len(s) : /\ \A i \in 1..a : s[i] + Window <= t
                             /\ \A i \in a + 1..Len(s) : s[i] + Window > t
                             /\ Limit!Recent(s, t) = After(s, a, Len(s))
  BY Parted
<1>2. PICK b \in 0..Len(s) : /\ \A i \in 1..b : s[i] + Window <= u
                             /\ \A i \in b + 1..Len(s) : s[i] + Window > u
                             /\ Limit!Recent(s, u) = After(s, b, Len(s))
  BY Parted
<1>3. a <= b
  <2> SUFFICES ASSUME b < a PROVE FALSE
    OBVIOUS
  <2>1. a \in 1..a /\ a \in b + 1..Len(s) /\ a \in 1..Len(s)
    BY <1>0
  <2>2. s[a] + Window <= t /\ s[a] + Window > u /\ s[a] \in Nat
    BY <1>0, <1>1, <1>2, <2>1
  <2> QED
    BY <2>2
<1> DEFINE r == After(s, a, Len(s))
<1>4. /\ r \in Seq(Nat) /\ Len(r) = Len(s) - a
      /\ \A i \in 1..Len(s) - a : r[i] = s[a + i]
  BY AfterFacts
<1>5. b - a \in 0..Len(r)
  BY <1>0, <1>3, <1>4
<1> HIDE DEF r
<1>6. \A i \in 1..b - a : r[i] + Window <= u
  <2> TAKE i \in 1..b - a
  <2>1. i \in 1..Len(s) - a /\ a + i \in 1..b
    BY <1>0, <1>3
  <2> QED
    BY <1>2, <1>4, <2>1
<1>7. \A i \in (b - a) + 1..Len(r) : r[i] + Window > u
  <2> TAKE i \in (b - a) + 1..Len(r)
  <2>1. i \in 1..Len(s) - a /\ a + i \in b + 1..Len(s)
    BY <1>0, <1>3, <1>4
  <2> QED
    BY <1>2, <1>4, <2>1
<1>8. Limit!Recent(r, u) = After(r, b - a, Len(r))
  BY <1>4, <1>5, <1>6, <1>7, KeepsTheEnd
<1>9. /\ After(r, b - a, Len(r)) \in Seq(Nat) /\ Len(After(r, b - a, Len(r))) = Len(s) - b
      /\ \A i \in 1..Len(s) - b : After(r, b - a, Len(r))[i] = r[(b - a) + i]
  <2>1. Len(r) - (b - a) = Len(s) - b
    BY <1>0, <1>4
  <2> QED
    BY <1>4, <1>5, <2>1, AfterFacts
<1>10. /\ After(s, b, Len(s)) \in Seq(Nat) /\ Len(After(s, b, Len(s))) = Len(s) - b
       /\ \A i \in 1..Len(s) - b : After(s, b, Len(s))[i] = s[b + i]
  BY AfterFacts
<1>11. \A i \in 1..Len(s) - b : r[(b - a) + i] = s[b + i]
  <2> TAKE i \in 1..Len(s) - b
  <2>1. (b - a) + i \in 1..Len(s) - a /\ a + ((b - a) + i) = b + i
    BY <1>0, <1>3
  <2> QED
    BY <1>4, <2>1
<1>12. After(r, b - a, Len(r)) = After(s, b, Len(s))
  BY <1>9, <1>10, <1>11, SeqEqual
<1>13. Len(s) - b <= Len(s) - a
  BY <1>0, <1>3
<1> QED
  BY <1>1, <1>2, <1>4, <1>8, <1>10, <1>12, <1>13 DEF r

\* What the constants are assumed to be
LEMMA LimitBounds == Budget \in Nat /\ Window \in Nat /\ MaxKeys \in Nat /\ MaxOpen \in Nat /\ MaxTime \in Nat
                     /\ Budget > 0 /\ Window > 0
BY PanelAssumption DEF Limit!LimiterBounds

\* The inductive invariant, one address at a time.
LEMMA LimitByKey ==
  Limit!LimiterInv <=>
    /\ Limit!LimiterTypeOK
    /\ \A k \in Key :
         /\ Ordered(attempts[k]) /\ \A i \in DOMAIN attempts[k] : attempts[k][i] <= now
         /\ Ordered(tried[k]) /\ \A i \in DOMAIN tried[k] : tried[k][i] <= now
         /\ Limit!Recent(attempts[k], now) = Limit!Recent(tried[k], now)
         /\ Len(Limit!Recent(tried[k], now)) <= Budget
BY DEF Limit!LimiterInv, Limit!NothingForgotten, Limit!BudgetHolds, Limit!InOrder, Limit!Within, Ordered

\* And after a step
LEMMA LimitByKeyNext ==
  Limit!LimiterInv' <=>
    /\ Limit!LimiterTypeOK'
    /\ \A k \in Key :
         /\ Ordered(attempts'[k]) /\ \A i \in DOMAIN attempts'[k] : attempts'[k][i] <= now'
         /\ Ordered(tried'[k]) /\ \A i \in DOMAIN tried'[k] : tried'[k][i] <= now'
         /\ Limit!Recent(attempts'[k], now') = Limit!Recent(tried'[k], now')
         /\ Len(Limit!Recent(tried'[k], now')) <= Budget
BY DEF Limit!LimiterInv, Limit!NothingForgotten, Limit!BudgetHolds, Limit!InOrder, Limit!Within, Ordered

\* A time that is not before the others can come last.
LEMMA OrderedAppend ==
  ASSUME NEW s \in Seq(Nat), NEW t \in Nat, Ordered(s), \A i \in 1..Len(s) : s[i] <= t
  PROVE  /\ Append(s, t) \in Seq(Nat) /\ Ordered(Append(s, t))
         /\ \A i \in DOMAIN Append(s, t) : Append(s, t)[i] <= t
         /\ Len(Append(s, t)) = Len(s) + 1 /\ Append(s, t)[Len(s) + 1] = t
<1> DEFINE v == Append(s, t)
<1>1. /\ v \in Seq(Nat) /\ Len(v) = Len(s) + 1 /\ v[Len(s) + 1] = t
      /\ \A i \in 1..Len(s) : v[i] = s[i] /\ s[i] \in Nat
  BY AppendProperties, ElementOfSeq
<1> HIDE DEF v
<1>2. DOMAIN v = 1..Len(s) + 1 /\ DOMAIN s = 1..Len(s) /\ Len(s) \in Nat
  BY <1>1
<1>3. \A i \in DOMAIN v : v[i] <= t
  BY <1>1, <1>2
<1>4. Ordered(v)
  <2> SUFFICES ASSUME NEW i \in 1..Len(s) + 1, NEW j \in 1..Len(s) + 1, i <= j PROVE v[i] <= v[j]
    BY <1>2 DEF Ordered
  <2>1. CASE j = Len(s) + 1
    BY <1>1, <1>2, <1>3, <2>1
  <2>2. CASE j # Len(s) + 1
    <3>1. i \in 1..Len(s) /\ j \in 1..Len(s)
      BY <1>2, <2>2
    <3> QED
      BY <1>1, <1>2, <3>1 DEF Ordered
  <2> QED
    BY <2>1, <2>2
<1> QED
  BY <1>1, <1>3, <1>4 DEF v

\* Nothing is counted of an address nobody has tried.
LEMMA NoTimes ==
  /\ <<>> \in Seq(Nat) /\ Ordered(<<>>) /\ \A i \in DOMAIN <<>> : FALSE
  /\ Len(<<>>) = 0 /\ \A t \in Nat : Limit!Recent(<<>>, t) = <<>>
<1>1. <<>> \in Seq(Nat) /\ Len(<<>>) = 0 /\ \A i \in DOMAIN <<>> : FALSE
  OBVIOUS
<1>2. \A i \in 1..Len(<<>>) : FALSE
  BY <1>1
<1>3. \A t \in Nat : Limit!Recent(<<>>, t) = <<>>
  BY <1>1, <1>2, LimitBounds, KeptNothing
<1> QED
  BY <1>1, <1>3 DEF Ordered

\* The sweep changes an entry only to forget what is all too old.
LEMMA SweepFacts ==
  ASSUME NEW b \in [Key -> Seq(Nat)], now \in Nat, NEW k \in Key, Ordered(b[k])
  PROVE  /\ Limit!Sweep(b) \in [Key -> Seq(Nat)]
         /\ \/ Limit!Sweep(b)[k] = b[k]
            \/ /\ Limit!Sweep(b)[k] = <<>> /\ b[k] # <<>> /\ b[k][Len(b[k])] + Window < now
               /\ Limit!Recent(b[k], now) = <<>>
<1>1. Limit!Sweep(b) \in [Key -> Seq(Nat)]
  BY NoTimes DEF Limit!Sweep
<1>2. \/ Limit!Sweep(b)[k] = b[k]
      \/ Limit!Sweep(b)[k] = <<>> /\ b[k] # <<>> /\ b[k][Len(b[k])] + Window < now
  BY DEF Limit!Sweep, Limit!Entries, Limit!Stale
<1>3. ASSUME b[k] # <<>>, b[k][Len(b[k])] + Window < now
      PROVE  Limit!Recent(b[k], now) = <<>>
  <2> DEFINE s == b[k]
  <2>1. s \in Seq(Nat) /\ Len(s) \in Nat
    OBVIOUS
  <2> HIDE DEF s
  <2>2. DOMAIN s = 1..Len(s) /\ \A i \in 1..Len(s) : s[i] \in Nat
    BY <2>1, ElementOfSeq
  <2>3. \A i \in 1..Len(s) : s[i] + Window <= now
    <3> TAKE i \in 1..Len(s)
    <3>1. Len(s) \in 1..Len(s) /\ i <= Len(s)
      BY <2>1
    <3>2. s[i] <= s[Len(s)]
      BY <2>2, <3>1 DEF Ordered, s
    <3>3. s[Len(s)] + Window < now
      BY <1>3 DEF s
    <3>4. s[i] \in Nat /\ s[Len(s)] \in Nat
      BY <2>2, <3>1
    <3> QED
      BY <3>2, <3>3, <3>4, LimitBounds
  <2>4. Limit!Recent(s, now) = <<>>
    BY <2>1, <2>3, LimitBounds, KeptNothing
  <2> QED
    BY <2>4 DEF s
<1> QED
  BY <1>1, <1>2, <1>3

\* At the start nobody has tried.
LEMMA InitLimit == Limit!LimiterInit => Limit!LimiterInv
<1> SUFFICES ASSUME Limit!LimiterInit PROVE Limit!LimiterInv
  OBVIOUS
<1>1. Limit!LimiterTypeOK
  BY NoTimes, LimitBounds DEF Limit!LimiterInit, Limit!LimiterTypeOK
<1>2. \A k \in Key : attempts[k] = <<>> /\ tried[k] = <<>>
  BY DEF Limit!LimiterInit
<1>3. now \in Nat
  BY <1>1 DEF Limit!LimiterTypeOK
<1> QED
  BY <1>1, <1>2, <1>3, NoTimes, LimitBounds, LimitByKey

\* An attempt, let in or not
LEMMA AllowLimit ==
  ASSUME NEW k \in Key, Limit!LimiterInv, Limit!Allow(k)
  PROVE  Limit!LimiterInv'
<1> DEFINE kept == Limit!Recent(attempts[k], now)
<1>1. /\ now \in Nat /\ open \in [Key -> Nat]
      /\ attempts \in [Key -> Seq(Nat)] /\ tried \in [Key -> Seq(Nat)]
  BY DEF Limit!LimiterInv, Limit!LimiterTypeOK
<1>2. \A j \in Key :
        /\ Ordered(attempts[j]) /\ \A i \in DOMAIN attempts[j] : attempts[j][i] <= now
        /\ Ordered(tried[j]) /\ \A i \in DOMAIN tried[j] : tried[j][i] <= now
        /\ Limit!Recent(attempts[j], now) = Limit!Recent(tried[j], now)
        /\ Len(Limit!Recent(tried[j], now)) <= Budget
  BY LimitByKey
<1>3. /\ kept \in Seq(Nat) /\ Ordered(kept) /\ kept = Limit!Recent(tried[k], now)
      /\ \A i \in 1..Len(kept) : kept[i] + Window > now /\ kept[i] <= now
  <2>1. attempts[k] \in Seq(Nat) /\ DOMAIN attempts[k] = 1..Len(attempts[k])
    BY <1>1
  <2>2. /\ kept \in Seq(Nat) /\ Ordered(kept)
        /\ \A i \in 1..Len(kept) : /\ kept[i] + Window > now
                                   /\ \E j \in 1..Len(attempts[k]) : kept[i] = attempts[k][j]
    BY <1>1, <1>2, <2>1, LimitBounds, KeptFacts
  <2>3. kept = Limit!Recent(tried[k], now)
    BY <1>2
  <2> HIDE DEF kept
  <2> QED
    BY <1>2, <2>1, <2>2, <2>3
<1>4. Limit!Recent(kept, now) = kept /\ Limit!Recent(Append(kept, now), now) = Append(kept, now)
  <2> HIDE DEF kept
  <2> QED
    BY <1>1, <1>3, LimitBounds, KeptWhole
<1>5. /\ Append(kept, now) \in Seq(Nat) /\ Ordered(Append(kept, now))
      /\ \A i \in DOMAIN Append(kept, now) : Append(kept, now)[i] <= now
      /\ Len(Append(kept, now)) = Len(kept) + 1 /\ Append(kept, now)[Len(kept) + 1] = now
  <2> HIDE DEF kept
  <2> QED
    BY <1>1, <1>3, OrderedAppend
<1>6. now' = now /\ Limit!Within(attempts[k]) = kept /\ Limit!Within(tried[k]) = kept
  BY <1>3 DEF Limit!Allow, Limit!Within
<1> HIDE DEF kept
<1>7. CASE Len(kept) >= Budget
  <2>1. attempts' = [attempts EXCEPT ![k] = kept] /\ open' = open /\ tried' = tried
    BY <1>6, <1>7 DEF Limit!Allow
  <2>2. Limit!LimiterTypeOK'
    BY <1>1, <1>3, <1>6, <2>1 DEF Limit!LimiterTypeOK
  <2>3. attempts'[k] = kept /\ \A j \in Key : j # k => attempts'[j] = attempts[j]
    BY <1>1, <2>1
  <2>4. DOMAIN kept = 1..Len(kept)
    BY <1>3
  <2>5. /\ Ordered(attempts'[k]) /\ \A i \in DOMAIN attempts'[k] : attempts'[k][i] <= now'
        /\ Limit!Recent(attempts'[k], now') = Limit!Recent(tried'[k], now')
    BY <1>3, <1>4, <1>6, <2>1, <2>3, <2>4
  <2> QED
    BY <1>2, <1>6, <2>1, <2>2, <2>3, <2>5, LimitByKeyNext
<1>8. CASE ~(Len(kept) >= Budget)
  <2> DEFINE b == [attempts EXCEPT ![k] = Append(kept, now)]
  <2>1. /\ attempts' = Limit!Sweep(b)
        /\ open' = [open EXCEPT ![k] = @ + 1]
        /\ tried' = [tried EXCEPT ![k] = Append(kept, now)]
    BY <1>6, <1>8 DEF Limit!Allow
  <2>2. /\ b \in [Key -> Seq(Nat)] /\ b[k] = Append(kept, now)
        /\ \A j \in Key : j # k => b[j] = attempts[j]
    BY <1>1, <1>5
  <2>3. tried'[k] = Append(kept, now) /\ \A j \in Key : j # k => tried'[j] = tried[j]
    BY <1>1, <2>1
  <2>4. Limit!LimiterTypeOK'
    <3>1. Limit!Sweep(b) \in [Key -> Seq(Nat)]
      <4> HIDE DEF b
      <4> QED
        BY <1>1, <1>5, <2>2, SweepFacts
    <3>2. open' \in [Key -> Nat] /\ tried' \in [Key -> Seq(Nat)]
      BY <1>1, <1>5, <2>1
    <3> QED
      BY <1>1, <1>6, <2>1, <3>1, <3>2 DEF Limit!LimiterTypeOK
  <2> HIDE DEF b
  <2>5. attempts'[k] = Append(kept, now)
    <3>1. b[k][Len(b[k])] = now
      BY <1>5, <2>2
    <3>2. ~(now + Window < now)
      BY <1>1, LimitBounds
    <3> QED
      BY <1>1, <1>5, <2>1, <2>2, <3>1, <3>2, SweepFacts
  <2>6. Len(Append(kept, now)) <= Budget
    <3>1. Len(kept) \in Nat
      BY <1>3
    <3> QED
      BY <1>5, <1>8, <3>1, LimitBounds
  <2>7. ASSUME NEW j \in Key
        PROVE  /\ Ordered(attempts'[j]) /\ \A i \in DOMAIN attempts'[j] : attempts'[j][i] <= now'
               /\ Ordered(tried'[j]) /\ \A i \in DOMAIN tried'[j] : tried'[j][i] <= now'
               /\ Limit!Recent(attempts'[j], now') = Limit!Recent(tried'[j], now')
               /\ Len(Limit!Recent(tried'[j], now')) <= Budget
    <3>1. CASE j = k
      BY <1>4, <1>5, <1>6, <2>3, <2>5, <2>6, <3>1
    <3>2. CASE j # k
      <4>1. b[j] = attempts[j] /\ Ordered(b[j]) /\ tried'[j] = tried[j]
        BY <1>2, <2>2, <2>3, <3>2
      <4>2. \/ attempts'[j] = attempts[j]
            \/ attempts'[j] = <<>> /\ Limit!Recent(attempts[j], now) = <<>>
        <5>1. \/ Limit!Sweep(b)[j] = b[j]
              \/ Limit!Sweep(b)[j] = <<>> /\ Limit!Recent(b[j], now) = <<>>
          BY <1>1, <2>2, <4>1, SweepFacts
        <5> QED
          BY <2>1, <4>1, <5>1
      <4>3. CASE attempts'[j] = attempts[j]
        BY <1>2, <1>6, <4>1, <4>3
      <4>4. CASE attempts'[j] = <<>> /\ Limit!Recent(attempts[j], now) = <<>>
        BY <1>1, <1>2, <1>6, <4>1, <4>4, NoTimes
      <4> QED
        BY <4>2, <4>3, <4>4
    <3> QED
      BY <3>1, <3>2
  <2> QED
    BY <2>4, <2>7, LimitByKeyNext
<1> QED
  BY <1>7, <1>8

\* A sign-in that fails or succeeds
LEMMA AnswerLimit ==
  ASSUME NEW k \in Key, Limit!LimiterInv, Limit!Fail(k) \/ Limit!Reset(k)
  PROVE  Limit!LimiterInv'
<1>1. /\ now \in Nat /\ open \in [Key -> Nat]
      /\ attempts \in [Key -> Seq(Nat)] /\ tried \in [Key -> Seq(Nat)]
  BY DEF Limit!LimiterInv, Limit!LimiterTypeOK
<1>2. open[k] > 0 /\ open' = [open EXCEPT ![k] = @ - 1] /\ now' = now
  BY DEF Limit!Fail, Limit!Reset
<1>3. open' \in [Key -> Nat]
  <2>1. open[k] - 1 \in Nat
    BY <1>1, <1>2
  <2> QED
    BY <1>1, <1>2, <2>1
<1>4. CASE Limit!Fail(k)
  <2>1. attempts' = attempts /\ tried' = tried
    BY <1>4 DEF Limit!Fail
  <2>2. Limit!LimiterTypeOK'
    BY <1>1, <1>2, <1>3, <2>1 DEF Limit!LimiterTypeOK
  <2> QED
    BY <1>2, <2>1, <2>2, LimitByKey, LimitByKeyNext
<1>5. CASE Limit!Reset(k)
  <2>1. attempts' = [attempts EXCEPT ![k] = <<>>] /\ tried' = [tried EXCEPT ![k] = <<>>]
    BY <1>5 DEF Limit!Reset
  <2>2. Limit!LimiterTypeOK'
    BY <1>1, <1>2, <1>3, <2>1, NoTimes DEF Limit!LimiterTypeOK
  <2>3. /\ attempts'[k] = <<>> /\ tried'[k] = <<>>
        /\ \A j \in Key : j # k => attempts'[j] = attempts[j] /\ tried'[j] = tried[j]
    BY <1>1, <2>1
  <2>4. ASSUME NEW j \in Key
        PROVE  /\ Ordered(attempts'[j]) /\ \A i \in DOMAIN attempts'[j] : attempts'[j][i] <= now'
               /\ Ordered(tried'[j]) /\ \A i \in DOMAIN tried'[j] : tried'[j][i] <= now'
               /\ Limit!Recent(attempts'[j], now') = Limit!Recent(tried'[j], now')
               /\ Len(Limit!Recent(tried'[j], now')) <= Budget
    <3>1. CASE j = k
      BY <1>1, <1>2, <2>3, <3>1, NoTimes, LimitBounds
    <3>2. CASE j # k
      BY <1>2, <2>3, <3>2, LimitByKey
    <3> QED
      BY <3>1, <3>2
  <2> QED
    BY <2>2, <2>4, LimitByKeyNext
<1> QED
  BY <1>4, <1>5

\* The window moves on.
LEMMA TimeLimit ==
  ASSUME Limit!LimiterInv, Limit!TimePasses
  PROVE  Limit!LimiterInv'
<1>1. /\ now \in Nat /\ open \in [Key -> Nat]
      /\ attempts \in [Key -> Seq(Nat)] /\ tried \in [Key -> Seq(Nat)]
  BY DEF Limit!LimiterInv, Limit!LimiterTypeOK
<1>2. now' = now + 1 /\ attempts' = attempts /\ open' = open /\ tried' = tried
  BY DEF Limit!TimePasses
<1>3. now' \in Nat /\ now <= now'
  BY <1>1, <1>2
<1>4. Limit!LimiterTypeOK'
  BY <1>1, <1>2, <1>3 DEF Limit!LimiterTypeOK
<1>5. ASSUME NEW j \in Key
      PROVE  /\ Ordered(attempts'[j]) /\ \A i \in DOMAIN attempts'[j] : attempts'[j][i] <= now'
             /\ Ordered(tried'[j]) /\ \A i \in DOMAIN tried'[j] : tried'[j][i] <= now'
             /\ Limit!Recent(attempts'[j], now') = Limit!Recent(tried'[j], now')
             /\ Len(Limit!Recent(tried'[j], now')) <= Budget
  <2> DEFINE s == attempts[j]
             r == tried[j]
  <2>1. /\ Ordered(s) /\ \A i \in DOMAIN s : s[i] <= now
        /\ Ordered(r) /\ \A i \in DOMAIN r : r[i] <= now
        /\ Limit!Recent(s, now) = Limit!Recent(r, now)
        /\ Len(Limit!Recent(r, now)) <= Budget
    BY LimitByKey
  <2>2. s \in Seq(Nat) /\ r \in Seq(Nat) /\ attempts'[j] = s /\ tried'[j] = r
    BY <1>1, <1>2
  <2> HIDE DEF s, r
  <2>3. /\ Limit!Recent(s, now') = Limit!Recent(Limit!Recent(s, now), now')
        /\ Limit!Recent(r, now') = Limit!Recent(Limit!Recent(r, now), now')
        /\ Len(Limit!Recent(r, now')) <= Len(Limit!Recent(r, now))
        /\ Limit!Recent(r, now') \in Seq(Nat) /\ Limit!Recent(r, now) \in Seq(Nat)
    BY <1>1, <1>3, <2>1, <2>2, LimitBounds, KeptLater, KeptFacts
  <2>4. Len(Limit!Recent(r, now')) <= Budget
    <3>1. Len(Limit!Recent(r, now')) \in Nat /\ Len(Limit!Recent(r, now)) \in Nat
      BY <2>3
    <3> QED
      BY <2>1, <2>3, <3>1, LimitBounds
  <2>5. /\ \A i \in DOMAIN s : s[i] <= now'
        /\ \A i \in DOMAIN r : r[i] <= now'
    <3>1. /\ \A i \in DOMAIN s : s[i] \in Nat
          /\ \A i \in DOMAIN r : r[i] \in Nat
      BY <2>2
    <3> QED
      BY <1>1, <1>2, <2>1, <3>1
  <2> QED
    BY <2>1, <2>2, <2>3, <2>4, <2>5
<1> QED
  BY <1>4, <1>5, LimitByKeyNext

\* However sign-ins at an address overlap and whatever the sweep forgets, the table
\* has of the last window what was let in within it, so that no address is let in
\* more often than its budget, nor kept out once its attempts are older than the
\* window (ratelimit.go, Allow, Reset).
THEOREM LimitHolds == Limit!LimiterSpec => []BudgetHolds
<1>1. Limit!LimiterInv /\ [Limit!LimiterNext]_Limit!vars => Limit!LimiterInv'
  <2> SUFFICES ASSUME Limit!LimiterInv, [Limit!LimiterNext]_Limit!vars PROVE Limit!LimiterInv'
    OBVIOUS
  <2>1. CASE Limit!TimePasses
    BY <2>1, TimeLimit
  <2>2. ASSUME NEW k \in Key, Limit!Allow(k) PROVE Limit!LimiterInv'
    BY <2>2, AllowLimit
  <2>3. ASSUME NEW k \in Key, Limit!Fail(k) \/ Limit!Reset(k) PROVE Limit!LimiterInv'
    BY <2>3, AnswerLimit
  <2>4. CASE UNCHANGED Limit!vars
    <3>1. now' = now /\ attempts' = attempts /\ open' = open /\ tried' = tried
      BY <2>4 DEF Limit!vars
    <3>2. Limit!LimiterTypeOK'
      BY <3>1 DEF Limit!LimiterInv, Limit!LimiterTypeOK
    <3> QED
      BY <3>1, <3>2, LimitByKey, LimitByKeyNext
  <2> QED
    BY <2>1, <2>2, <2>3, <2>4 DEF Limit!LimiterNext
<1>2. Limit!LimiterInv => BudgetHolds
  <2> SUFFICES ASSUME Limit!LimiterInv PROVE Limit!NobodyIsLockedOut
    BY DEF BudgetHolds, Limit!LimiterInv
  <2>1. \A k \in Key : Limit!Within(attempts[k]) = Limit!Within(tried[k])
    BY DEF Limit!LimiterInv, Limit!NothingForgotten
  <2>2. Len(<<>>) < Budget
    BY LimitBounds, NoTimes
  <2> QED
    BY <2>1, <2>2 DEF Limit!NobodyIsLockedOut
<1> QED
  BY <1>1, <1>2, InitLimit, PTL DEF Limit!LimiterSpec

-----------------------------------------------------------------------------
(* Who an account belongs to.                                              *)

\* The row a sign-in is about to bind is free, or bound to that very subject.
LinkInv == \A r \in Request : req[r].at = "link" => users[req[r].tgt].subj \in {Nobody, req[r].subj}

\* Only the lookup of an address has a request go on to bind a subject.
LEMMA OnlyLookupsLink ==
  ASSUME Users!AccountTypes, NEW r \in Request, Users!SignIn(r) \/ Users!Manage(r) \/ Users!Abort(r)
  PROVE  \/ Users!LookupAddress(r)
         \/ \E q : req' = [req EXCEPT ![r] = q] /\ q.at # "link"
<1> DEFINE Elsewhere == \E q : req' = [req EXCEPT ![r] = q] /\ q.at # "link"
<1>0. req[r] \in Users!RequestRow /\ DOMAIN req = Request
  BY DEF Users!AccountTypes
<1>1. Users!Finish(r) => Elsewhere
  <2>1. Users!Idle.at # "link"
    BY DEF Users!Idle
  <2> QED
    BY <2>1 DEF Users!Finish
<1>2. ASSUME NEW where, where # "link", Users!Goto(r, where) PROVE Elsewhere
  <2>1. req' = [req EXCEPT ![r] = [req[r] EXCEPT !.at = where]]
    BY <1>2 DEF Users!Goto
  <2>2. [req[r] EXCEPT !.at = where].at = where
    BY <1>0 DEF Users!RequestRow
  <2> QED
    BY <1>2, <2>1, <2>2
<1>3. ASSUME NEW q, q.at # "link", Users!Begin(r, q) PROVE Elsewhere
  BY <1>3 DEF Users!Begin
<1>4. CASE \E e \in Email : Users!BeginSetup(r, e)
  BY <1>3, <1>4 DEF Users!BeginSetup, Users!To, Users!Idle
<1>5. CASE \E u \in Users!Ids : Users!Login(r, u)
  BY <1>3, <1>5 DEF Users!Login, Users!To, Users!Idle
<1>6. ASSUME NEW id \in Users!Identity, Users!OIDCCallback(r, id) PROVE Elsewhere
  <2> DEFINE role == Users!RoleFromClaims(id.matched)
             next(u) == IF users[u].role # role THEN "scope" ELSE "session"
             q(u) == [Users!To("oidc", next(u)) EXCEPT !.tgt = u, !.role = role, !.email = users[u].email]
             p == [Users!To("oidc", "lookup") EXCEPT !.subj = id.subj, !.email = id.email, !.role = role]
  <2>1. (\E u : Users!Begin(r, q(u))) \/ Users!Begin(r, p)
    BY <1>6 DEF Users!OIDCCallback
  <2>2. \A u : q(u).at # "link"
    BY DEF Users!To, Users!Idle
  <2>3. p.at # "link"
    BY DEF Users!To, Users!Idle
  <2> HIDE DEF q, p
  <2> QED
    BY <1>3, <2>1, <2>2, <2>3
<1>7. CASE Users!CreateFirstUser(r) \/ Users!CreateOIDCUser(r) \/ Users!CreateUser(r)
  <2>1. \/ Users!Finish(r)
        \/ req' = [req EXCEPT ![r].at = "session", ![r].tgt = nextId, ![r].pwd = 1]
        \/ req' = [req EXCEPT ![r].at = "session", ![r].tgt = nextId]
    BY <1>7 DEF Users!CreateFirstUser, Users!CreateOIDCUser, Users!CreateUser
  <2> DEFINE a == [req[r] EXCEPT !.at = "session", !.tgt = nextId, !.pwd = 1]
             b == [req[r] EXCEPT !.at = "session", !.tgt = nextId]
  <2>2. a.at = "session" /\ b.at = "session"
    BY <1>0 DEF Users!RequestRow
  <2>3. Users!Finish(r) \/ req' = [req EXCEPT ![r] = a] \/ req' = [req EXCEPT ![r] = b]
    BY <2>1
  <2> HIDE DEF a, b
  <2> QED
    BY <1>1, <2>2, <2>3
<1>8. CASE Users!LinkOIDC(r)
  <2>1. Users!Finish(r) \/ Users!Goto(r, "scope") \/ Users!Goto(r, "session")
    BY <1>8 DEF Users!LinkOIDC
  <2> QED
    BY <1>1, <1>2, <2>1
<1>9. CASE Users!StartSession(r) \/ Users!DeleteOtherSessions(r) \/ Users!DeleteUser(r)
           \/ Users!CreateToken(r) \/ Users!Abort(r)
  BY <1>1, <1>9 DEF Users!StartSession, Users!DeleteOtherSessions, Users!DeleteUser, Users!CreateToken, Users!Abort
<1>10. ASSUME NEW p \in Users!BySession, NEW new \in 1..MaxPassword, Users!BeginChangePassword(r, p, new)
       PROVE  Elsewhere
  BY <1>3, <1>10 DEF Users!BeginChangePassword, Users!To, Users!Idle
<1>11. CASE Users!UpdatePassword(r)
  <2>1. Users!Finish(r) \/ Users!Goto(r, "revoke")
    BY <1>11 DEF Users!UpdatePassword
  <2> QED
    BY <1>1, <1>2, <2>1
<1>12. ASSUME NEW p \in Users!BySession \union Users!ByToken,
              \/ \E e \in Email, role \in Users!Role, pwd \in {0, 1} : Users!BeginCreateUser(r, p, e, role, pwd)
              \/ \E u \in Users!Ids, role \in Users!Role : Users!BeginUpdateUser(r, p, u, role)
              \/ \E u \in Users!Ids : Users!BeginDeleteUser(r, p, u)
              \/ \E role \in Users!Role : Users!BeginCreateToken(r, p, role)
       PROVE  Elsewhere
  <2>1. CASE \E e \in Email, role \in Users!Role, pwd \in {0, 1} : Users!BeginCreateUser(r, p, e, role, pwd)
    BY <1>3, <2>1 DEF Users!BeginCreateUser, Users!To, Users!Idle
  <2>2. CASE \E u \in Users!Ids, role \in Users!Role : Users!BeginUpdateUser(r, p, u, role)
    BY <1>3, <2>2 DEF Users!BeginUpdateUser, Users!To, Users!Idle
  <2>3. CASE \E u \in Users!Ids : Users!BeginDeleteUser(r, p, u)
    BY <1>3, <2>3 DEF Users!BeginDeleteUser, Users!To, Users!Idle
  <2>4. CASE \E role \in Users!Role : Users!BeginCreateToken(r, p, role)
    BY <1>3, <2>4 DEF Users!BeginCreateToken, Users!To, Users!Idle
  <2> QED
    BY <1>12, <2>1, <2>2, <2>3, <2>4
<1>13. CASE Users!ReadScope(r) \/ Users!CountAdmins(r) \/ Users!WriteScope(r)
            \/ Users!ReadTarget(r) \/ Users!DeleteUserSessions(r)
  <2>1. \/ Users!Finish(r)
        \/ \E w \in {"session", "admins", "write", "sessions", "erase"} : Users!Goto(r, w)
    BY <1>13 DEF Users!ReadScope, Users!CountAdmins, Users!WriteScope, Users!AfterScope,
                 Users!ReadTarget, Users!DeleteUserSessions
  <2> QED
    BY <1>1, <1>2, <2>1
<1> QED
  BY <1>4, <1>5, <1>6, <1>7, <1>8, <1>9, <1>10, <1>11, <1>12, <1>13 DEF Users!SignIn, Users!Manage

\* What a step may do to the table of accounts
LEMMA TableChanges ==
  ASSUME [Users!AccountsNext]_Users!vars
  PROVE  \/ UNCHANGED users
         \/ \E row : Users!Insert(row)
         \/ \E r \in Request : /\ req[r].tgt \in Users!Live
                               /\ \E x : \/ users' = [users EXCEPT ![req[r].tgt].pwd = x]
                                         \/ users' = [users EXCEPT ![req[r].tgt].role = x]
         \/ \E r \in Request : /\ req[r].at = "link" /\ req[r].tgt \in Users!Live
                               /\ users' = [users EXCEPT ![req[r].tgt].subj = req[r].subj]
         \/ \E r \in Request : Users!DeleteUser(r)
<1>1. ASSUME NEW r \in Request, Users!SignIn(r) \/ Users!Manage(r) \/ Users!Abort(r)
      PROVE  \/ UNCHANGED users
             \/ \E row : Users!Insert(row)
             \/ req[r].tgt \in Users!Live /\ \E x : \/ users' = [users EXCEPT ![req[r].tgt].pwd = x]
                                                    \/ users' = [users EXCEPT ![req[r].tgt].role = x]
             \/ /\ req[r].at = "link" /\ req[r].tgt \in Users!Live
                /\ users' = [users EXCEPT ![req[r].tgt].subj = req[r].subj]
             \/ Users!DeleteUser(r)
  <2>1. CASE Users!CreateFirstUser(r) \/ Users!CreateOIDCUser(r) \/ Users!CreateUser(r)
    BY <2>1 DEF Users!CreateFirstUser, Users!CreateOIDCUser, Users!CreateUser
  <2>2. CASE Users!LinkOIDC(r)
    BY <2>2 DEF Users!LinkOIDC
  <2>3. CASE Users!UpdatePassword(r) \/ Users!WriteScope(r)
    BY <2>3 DEF Users!UpdatePassword, Users!WriteScope
  <2>4. CASE \/ \E e \in Email : Users!BeginSetup(r, e)
             \/ \E u \in Users!Ids : Users!Login(r, u)
             \/ \E id \in Users!Identity : Users!OIDCCallback(r, id)
             \/ Users!LookupAddress(r) \/ Users!StartSession(r) \/ Users!Abort(r)
    BY <2>4 DEF Users!BeginSetup, Users!Login, Users!OIDCCallback, Users!LookupAddress, Users!StartSession,
                Users!Abort
  <2>5. CASE \/ \E p \in Users!BySession, new \in 1..MaxPassword : Users!BeginChangePassword(r, p, new)
             \/ \E p \in Users!BySession \union Users!ByToken :
                  \/ \E e \in Email, role \in Users!Role, pwd \in {0, 1} : Users!BeginCreateUser(r, p, e, role, pwd)
                  \/ \E u \in Users!Ids, role \in Users!Role : Users!BeginUpdateUser(r, p, u, role)
                  \/ \E u \in Users!Ids : Users!BeginDeleteUser(r, p, u)
                  \/ \E role \in Users!Role : Users!BeginCreateToken(r, p, role)
    BY <2>5 DEF Users!BeginChangePassword, Users!BeginCreateUser, Users!BeginUpdateUser, Users!BeginDeleteUser,
                Users!BeginCreateToken
  <2>6. CASE \/ Users!DeleteOtherSessions(r) \/ Users!ReadScope(r) \/ Users!CountAdmins(r) \/ Users!ReadTarget(r)
             \/ Users!DeleteUserSessions(r) \/ Users!CreateToken(r)
    BY <2>6 DEF Users!DeleteOtherSessions, Users!ReadScope, Users!CountAdmins, Users!ReadTarget,
                Users!DeleteUserSessions, Users!CreateToken
  <2> QED
    BY <1>1, <2>1, <2>2, <2>3, <2>4, <2>5, <2>6 DEF Users!SignIn, Users!Manage
<1>2. CASE \/ \E s \in Session : Users!Logout(s) \/ Users!SessionExpires(s)
           \/ \E t \in Token : Users!DeleteToken(t)
           \/ UNCHANGED Users!vars
  <2>1. UNCHANGED users
    BY <1>2 DEF Users!Logout, Users!SessionExpires, Users!DeleteToken, Users!vars
  <2> QED
    BY <2>1
<1> QED
  BY <1>1, <1>2 DEF Users!AccountsNext

\* Only a request that links an account may change a subject the account has.
LEMMA SubjectsStep ==
  ASSUME Users!AccountTypes, Users!RowsInv, [Users!AccountsNext]_Users!vars
  PROVE  \/ Users!KeepsSubjects
         \/ \E r \in Request : /\ req[r].at = "link" /\ req[r].tgt \in Users!Live
                               /\ users' = [users EXCEPT ![req[r].tgt].subj = req[r].subj]
<1>0. /\ DOMAIN users = Users!Ids /\ nextId \in Nat /\ nextId \notin Users!Live
      /\ \A u \in Users!Live : u \in Users!Ids /\ users[u] \in Users!UserRow
  BY LiveRows, Bounds DEF Users!AccountTypes, Users!RowsInv, NoUser, Users!NoUser
<1>1. CASE UNCHANGED users
  BY <1>1 DEF Users!KeepsSubjects
<1>2. ASSUME NEW row, Users!Insert(row) PROVE Users!KeepsSubjects
  <2>1. \A u \in Users!Live : users'[u] = users[u]
    BY <1>0, <1>2 DEF Users!Insert
  <2> QED
    BY <2>1 DEF Users!KeepsSubjects
<1>3. ASSUME NEW t \in Users!Live, NEW x,
             \/ users' = [users EXCEPT ![t].pwd = x]
             \/ users' = [users EXCEPT ![t].role = x]
      PROVE  Users!KeepsSubjects
  <2>1. users'[t].subj = users[t].subj
    BY <1>0, <1>3 DEF Users!UserRow
  <2>2. \A u \in Users!Live : u # t => users'[u] = users[u]
    BY <1>0, <1>3
  <2> QED
    BY <2>1, <2>2 DEF Users!KeepsSubjects
<1>4. ASSUME NEW r \in Request, Users!DeleteUser(r) PROVE Users!KeepsSubjects
  <2>1. users' = [users EXCEPT ![req[r].tgt] = Users!NoUser]
    BY <1>4 DEF Users!DeleteUser
  <2>2. \A u \in Users!Live : users'[u] = Users!NoUser \/ users'[u] = users[u]
    BY <1>0, <2>1
  <2>3. \A u \in Users!Live' : users'[u] # Users!NoUser
    BY DEF Users!Live
  <2> QED
    BY <2>2, <2>3 DEF Users!KeepsSubjects
<1> QED
  BY <1>1, <1>2, <1>3, <1>4, TableChanges

\* With requests one after the other, nothing comes between the lookup and the link.
LEMMA LinkStep ==
  ASSUME Users!AccountInv, Users!OneAtATime, LinkInv, [Users!AccountsNext]_Users!vars
  PROVE  LinkInv' /\ Users!KeepsSubjects
<1>0. Users!AccountTypes /\ Users!RowsInv /\ DOMAIN req = Request
  BY DEF Users!AccountInv, Users!AccountTypes
<1>1. LinkInv'
  <2>1. ASSUME NEW r \in Request, Users!SignIn(r) \/ Users!Manage(r) \/ Users!Abort(r) PROVE LinkInv'
    <3>1. \A q \in Request : q = r
      BY <1>0 DEF Users!OneAtATime
    <3>2. CASE \E q : req' = [req EXCEPT ![r] = q] /\ q.at # "link"
      <4>1. req'[r].at # "link"
        BY <1>0, <3>2
      <4> QED
        BY <3>1, <4>1 DEF LinkInv
    <3>3. CASE Users!LookupAddress(r)
      <4>1. /\ users' = users
            /\ \/ Users!Finish(r) \/ Users!Goto(r, "create")
               \/ \E u \in Users!Live :
                    /\ users[u].subj \in {Nobody, req[r].subj}
                    /\ req' = [req EXCEPT ![r].at = "link", ![r].tgt = u, ![r].sync = users[u].role # req[r].role]
        BY <3>3 DEF Users!LookupAddress, Users!UserByEmail
      <4>2. req[r] \in Users!RequestRow
        BY <1>0 DEF Users!AccountTypes
      <4>3. CASE Users!Finish(r) \/ Users!Goto(r, "create")
        <5>1. req'[r].at # "link"
          BY <1>0, <4>2, <4>3 DEF Users!Finish, Users!Goto, Users!Idle, Users!RequestRow
        <5> QED
          BY <3>1, <5>1 DEF LinkInv
      <4>4. ASSUME NEW u \in Users!Live, users[u].subj \in {Nobody, req[r].subj},
                   req' = [req EXCEPT ![r].at = "link", ![r].tgt = u, ![r].sync = users[u].role # req[r].role]
            PROVE  LinkInv'
        <5>1. req'[r].tgt = u /\ req'[r].subj = req[r].subj
          BY <1>0, <4>2, <4>4 DEF Users!RequestRow
        <5> QED
          BY <3>1, <4>1, <4>4, <5>1 DEF LinkInv
      <4> QED
        BY <4>1, <4>3, <4>4
    <3> QED
      BY <1>0, <2>1, <3>2, <3>3, OnlyLookupsLink
  <2>2. CASE \/ \E s \in Session : Users!Logout(s) \/ Users!SessionExpires(s)
             \/ \E t \in Token : Users!DeleteToken(t)
             \/ UNCHANGED Users!vars
    <3>1. UNCHANGED <<users, req>>
      BY <2>2 DEF Users!Logout, Users!SessionExpires, Users!DeleteToken, Users!vars
    <3> QED
      BY <3>1 DEF LinkInv
  <2> QED
    BY <2>1, <2>2 DEF Users!AccountsNext
<1>2. Users!KeepsSubjects
  <2> SUFFICES ASSUME NEW r \in Request, req[r].at = "link", req[r].tgt \in Users!Live,
                      users' = [users EXCEPT ![req[r].tgt].subj = req[r].subj]
               PROVE  Users!KeepsSubjects
    BY <1>0, SubjectsStep
  <2> DEFINE t == req[r].tgt
  <2>1. t \in Users!Ids /\ users[t] \in Users!UserRow /\ DOMAIN users = Users!Ids /\ Users!Live \subseteq Users!Ids
    BY <1>0, LiveRows DEF Users!AccountTypes
  <2>2. users[t].subj \in {Nobody, req[r].subj}
    BY DEF LinkInv
  <2>3. users'[t].subj = req[r].subj /\ \A u \in Users!Ids \ {t} : users'[u] = users[u]
    BY <2>1 DEF Users!UserRow
  <2> QED
    BY <2>1, <2>2, <2>3 DEF Users!KeepsSubjects
<1> QED
  BY <1>1, <1>2

\* The table before and after a step, as far as the first account is concerned
LEMMA FirstRow ==
  ASSUME Users!AccountTypes, Users!RowsInv, [Users!AccountsNext]_Users!vars
  PROVE  1 \in Users!Live' => 1 \in Users!Live \/ nextId = 1
<1>0. DOMAIN users = Users!Ids /\ \A u \in Users!Ids : u \in Users!Live <=> users[u] # Users!NoUser
  BY LiveRows DEF Users!AccountTypes, NoUser, Users!NoUser
<1> SUFFICES ASSUME 1 \notin Users!Live, nextId # 1, 1 \in Users!Live' PROVE FALSE
  OBVIOUS
<1>1. 1 \in DOMAIN users' /\ users'[1] # Users!NoUser
  BY DEF Users!Live
<1>2. DOMAIN users' = Users!Ids
  BY RowsNext DEF Users!AccountTypes
<1>3. CASE users' = users
  BY <1>0, <1>1, <1>3
<1>4. ASSUME NEW row, Users!Insert(row) PROVE FALSE
  <2>1. users'[1] = users[1]
    BY <1>0, <1>1, <1>2, <1>4 DEF Users!Insert
  <2> QED
    BY <1>0, <1>1, <1>2, <2>1
<1>5. ASSUME NEW t \in Users!Live, NEW row, users' = [users EXCEPT ![t] = row] PROVE FALSE
  <2>1. users'[1] = users[1]
    BY <1>0, <1>1, <1>2, <1>5
  <2> QED
    BY <1>0, <1>1, <1>2, <2>1
<1>6. ASSUME NEW r \in Request, Users!DeleteUser(r) PROVE FALSE
  <2>1. users' = [users EXCEPT ![req[r].tgt] = Users!NoUser]
    BY <1>6 DEF Users!DeleteUser
  <2>2. users'[1] = users[1] \/ users'[1] = Users!NoUser
    BY <1>0, <1>1, <1>2, <2>1
  <2> QED
    BY <1>0, <1>1, <1>2, <2>2
<1> QED
  BY <1>3, <1>4, <1>5, <1>6, TableChanges

\* The wizard inserts only into an empty table; ids are given out one by one.
LEMMA FirstStep ==
  ASSUME [Users!AccountsNext]_Users!vars
  PROVE  \/ UNCHANGED first /\ nextId' \in {nextId, nextId + 1}
         \/ Users!Live = {} /\ first' = first \union {nextId} /\ nextId' = nextId + 1
<1> DEFINE Other == UNCHANGED first /\ nextId' \in {nextId, nextId + 1}
<1>1. ASSUME NEW r \in Request, Users!CreateFirstUser(r)
      PROVE  Other \/ (Users!Live = {} /\ first' = first \union {nextId} /\ nextId' = nextId + 1)
  BY <1>1 DEF Users!CreateFirstUser, Users!Insert
<1>2. ASSUME NEW r \in Request, Users!SignIn(r), ~Users!CreateFirstUser(r) PROVE Other
  BY <1>2 DEF Users!SignIn, Users!BeginSetup, Users!Login, Users!OIDCCallback, Users!LookupAddress,
              Users!LinkOIDC, Users!CreateOIDCUser, Users!StartSession, Users!Insert
<1>3. ASSUME NEW r \in Request, Users!Manage(r) PROVE Other
  BY <1>3 DEF Users!Manage, Users!BeginChangePassword, Users!UpdatePassword, Users!DeleteOtherSessions,
              Users!BeginCreateUser, Users!BeginUpdateUser, Users!BeginDeleteUser, Users!BeginCreateToken,
              Users!CreateUser, Users!ReadScope, Users!CountAdmins, Users!WriteScope, Users!ReadTarget,
              Users!DeleteUserSessions, Users!DeleteUser, Users!CreateToken, Users!Insert
<1>4. CASE \/ \E r \in Request : Users!Abort(r)
           \/ \E s \in Session : Users!Logout(s) \/ Users!SessionExpires(s)
           \/ \E t \in Token : Users!DeleteToken(t)
           \/ UNCHANGED Users!vars
  BY <1>4 DEF Users!Abort, Users!Logout, Users!SessionExpires, Users!DeleteToken, Users!vars
<1> QED
  BY <1>1, <1>2, <1>3, <1>4 DEF Users!AccountsNext

\* Before any account was made the wizard has made none.
WizardInv == Users!SetupIsAlone /\ (nextId = 1 => first = {})

\* However many requests of the wizard counted no account, it makes none beside the
\* first one: the INSERT counts again.
LEMMA WizardStep ==
  ASSUME Users!AccountTypes, Users!RowsInv, WizardInv, [Users!AccountsNext]_Users!vars
  PROVE  WizardInv'
<1>0. nextId \in Nat /\ nextId >= 1
  BY Bounds DEF Users!AccountTypes
<1>1. CASE UNCHANGED first /\ nextId' \in {nextId, nextId + 1}
  <2>1. nextId' = 1 => nextId = 1
    BY <1>0, <1>1
  <2> QED
    BY <1>1, <2>1, FirstRow DEF WizardInv, Users!SetupIsAlone
<1>2. CASE Users!Live = {} /\ first' = first \union {nextId} /\ nextId' = nextId + 1
  <2>1. nextId' # 1
    BY <1>0, <1>2
  <2>2. 1 \in Users!Live' => nextId = 1 /\ first = {}
    BY <1>2, FirstRow DEF WizardInv
  <2> QED
    BY <1>2, <2>1, <2>2 DEF WizardInv, Users!SetupIsAlone
<1> QED
  BY <1>1, <1>2, FirstStep

-----------------------------------------------------------------------------
\* What tells who somebody is does not change hands, however many accounts, sessions,
\* tokens, requests and enrolments there are: sessions and tokens have their account,
\* the wizard makes nobody beside the first account, an account stays with its subject,
\* a second factor with its secret, and a factor is on only with a secret that was
\* proven (CreateFirstUser; LinkOIDC; SetPendingTOTP, EnableTOTP).
THEOREM IdentitiesKept == Users!AccountsSpec /\ Factor!SecondFactorSpec => IdentitiesStay
<1> DEFINE J == /\ Users!AccountInv /\ (Users!OneAtATime => LinkInv) /\ WizardInv
                /\ Factor!SecondFactorTypeOK /\ (Factor!OneAtATime => Factor!FactorInv)
           Keeps == /\ Users!OwnersExist' /\ Users!SetupIsAlone'
                    /\ Users!OneAtATime => Users!KeepsSubjects
                    /\ Factor!KeepsSecret
                    /\ (\A c, d \in DOMAIN proof : c = d) => Factor!SecretIsProven'
<1>1. Users!AccountsInit /\ Factor!SecondFactorInit => J
  <2> SUFFICES ASSUME Users!AccountsInit, Factor!SecondFactorInit PROVE J
    OBVIOUS
  <2>1. LinkInv
    BY DEF Users!AccountsInit, LinkInv, Users!Idle
  <2>2. Users!AccountInv
    BY RowsInit, SerialInit DEF Users!AccountInv
  <2>3. WizardInv
    BY DEF Users!AccountsInit, WizardInv, Users!SetupIsAlone
  <2>4. Factor!FactorInv /\ Factor!SecondFactorTypeOK
    BY InitFactor DEF Factor!FactorInv
  <2> QED
    BY <2>1, <2>2, <2>3, <2>4
<1>2. J /\ [Users!AccountsNext]_Users!vars /\ [Factor!SecondFactorNext]_Factor!vars => J' /\ Keeps
  <2> SUFFICES ASSUME J, [Users!AccountsNext]_Users!vars, [Factor!SecondFactorNext]_Factor!vars
               PROVE  J' /\ Keeps
    OBVIOUS
  <2>1. Users!AccountInv' /\ WizardInv'
    BY AccountsGoOn, WizardStep DEF Users!AccountInv
  <2>2. Users!OneAtATime' => Users!OneAtATime
    BY <2>1 DEF Users!OneAtATime, Users!AccountInv, Users!AccountTypes
  <2>3. Users!OneAtATime => LinkInv' /\ Users!KeepsSubjects
    BY LinkStep
  <2>4. Users!OwnersExist'
    BY <2>1 DEF Users!AccountInv, Users!AccountTypes, Users!RowsInv, Users!OwnersExist
  <2>5. Factor!SecondFactorTypeOK' /\ Factor!KeepsSecret
    BY FactorStaysTyped, SecretStep
  <2>6. Factor!OneAtATime => Factor!FactorInv' /\ Factor!SecretIsProven'
    <3>1. Factor!OneAtATime => Factor!FactorInv'
      BY NextFactor DEF FactorAlone
    <3>2. Factor!OneAtATime /\ Factor!FactorInv' => Factor!SecretIsProven'
      BY DEF Factor!FactorInv, Factor!SecretInv
    <3> QED
      BY <3>1, <3>2
  <2>7. (\A c, d \in DOMAIN proof : c = d) => Factor!OneAtATime
    BY DEF Factor!OneAtATime, Factor!SecondFactorTypeOK
  <2>8. Users!SetupIsAlone'
    BY <2>1 DEF WizardInv
  <2> HIDE DEF Keeps
  <2>9. Keeps
    BY <2>3, <2>4, <2>5, <2>6, <2>7, <2>8 DEF Keeps
  <2> QED
    BY <2>1, <2>2, <2>3, <2>5, <2>6, <2>9
<1> HIDE DEF J
<1> QED
  BY <1>1, <1>2, PTL DEF Users!AccountsSpec, Factor!SecondFactorSpec, IdentitiesStay
==============================================================================
