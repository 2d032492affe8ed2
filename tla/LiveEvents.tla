----------------------------- MODULE LiveEvents -----------------------------
(***************************************************************************)
(* The live stream of the panel: api/hub.go, the handler that copies a     *)
(* subscription to its client, and the end of the server, which first      *)
(* waits for the handlers and only then closes the hub they wait for.      *)
(***************************************************************************)
EXTENDS Naturals, Sequences, SequencesExt

CONSTANTS Stream,     \* requests for the live stream
          Buffer,     \* places in a channel: 32 in the code
          MaxEvents   \* bound: events published

LiveBounds == Buffer \in Nat \ {0} /\ MaxEvents \in Nat

VARIABLES at,       \* [Stream -> "free", "accepted", "open", "leaving", "ended"]
          chan,     \* [Stream -> its channel: what it holds and whether it is closed]
          clients,  \* Hub.clients
          closed,   \* Hub.closed
          server,   \* "up", "stopping" (in Shutdown), "closing", "done"
          events,   \* history: events published
          from,     \* history: events published before the subscription
          got,      \* history: what the handler received
          missed,   \* history: what was dropped because the channel was full
          panic     \* history: a send on, or a close of, a closed channel

history == <<from, got, missed>>
vars == <<at, chan, clients, closed, server, events, history, panic>>

NoChan == [buf |-> <<>>, closed |-> FALSE]
LiveInit ==
    /\ at = [s \in Stream |-> "free"] /\ chan = [s \in Stream |-> NoChan]
    /\ clients = {} /\ closed = FALSE /\ server = "up" /\ events = 0 /\ panic = FALSE
    /\ from = [s \in Stream |-> 0] /\ got = [s \in Stream |-> <<>>] /\ missed = [s \in Stream |-> {}]

Goes(s, where) == at' = [at EXCEPT ![s] = where]
CloseAll(S) == chan' = [s \in Stream |-> IF s \in S THEN [chan[s] EXCEPT !.closed = TRUE] ELSE chan[s]]
FullOf(S) == {s \in S : Len(chan[s].buf) >= Buffer}

-----------------------------------------------------------------------------
(* The hub; each operation holds its mutex from beginning to end.          *)

Publish(S) ==
    /\ events < MaxEvents /\ events' = events + 1
    /\ panic' = (panic \/ \E s \in S : chan[s].closed)
    /\ chan' = [s \in Stream |-> IF s \in S \ FullOf(S) THEN [chan[s] EXCEPT !.buf = Append(@, events + 1)]
                                 ELSE chan[s]]
    /\ missed' = [s \in Stream |-> IF s \in FullOf(S) THEN missed[s] \union {events + 1} ELSE missed[s]]
    /\ UNCHANGED <<at, clients, closed, server, from, got>>

\* Mutant: a stream that does not keep up holds back the others
NotifyUntilFull == IF FullOf(clients) = {} THEN Publish(clients) ELSE Publish(FullOf(clients))

\* The send never blocks: a stream whose channel is full misses the event.
Notify == Publish(IF closed THEN {} ELSE clients)

Subscribe(s) ==
    /\ at[s] = "accepted" /\ Goes(s, "open")
    /\ IF closed THEN CloseAll({s}) /\ UNCHANGED clients
       ELSE clients' = clients \union {s} /\ UNCHANGED chan
    /\ from' = [from EXCEPT ![s] = events]
    /\ UNCHANGED <<closed, server, events, got, missed, panic>>

Unsubscribe(s) ==
    /\ at[s] = "leaving" /\ Goes(s, "ended")
    /\ clients' = clients \ {s} /\ CloseAll({s} \intersect clients)
    /\ panic' = (panic \/ (s \in clients /\ chan[s].closed))
    /\ UNCHANGED <<closed, server, events, history>>

-----------------------------------------------------------------------------
(* handleLive.                                                             *)

Accept(s) ==
    /\ server = "up" /\ at[s] = "free" /\ Goes(s, "accepted")
    /\ UNCHANGED <<chan, clients, closed, server, events, history, panic>>

Receive(s) ==
    /\ at[s] = "open" /\ chan[s].buf # <<>>
    /\ got' = [got EXCEPT ![s] = Append(@, Head(chan[s].buf))]
    /\ chan' = [chan EXCEPT ![s].buf = Tail(@)]
    /\ UNCHANGED <<at, clients, closed, server, events, from, missed, panic>>

EndOfChannel(s) ==
    /\ at[s] = "open" /\ chan[s].buf = <<>> /\ chan[s].closed /\ Goes(s, "leaving")
    /\ UNCHANGED <<chan, clients, closed, server, events, history, panic>>

\* The client hangs up, or a write to it fails.
Disconnect(s) ==
    /\ at[s] = "open" /\ Goes(s, "leaving")
    /\ UNCHANGED <<chan, clients, closed, server, events, history, panic>>

-----------------------------------------------------------------------------
(* The end of the server.                                                  *)

Signal ==
    /\ server = "up" /\ server' = "stopping"
    /\ UNCHANGED <<at, chan, clients, closed, events, history, panic>>

\* Mutant: Shutdown has no time limit
ShutdownWaits ==
    /\ server = "stopping" /\ \A s \in Stream : at[s] \in {"free", "ended"} /\ server' = "closing"
    /\ UNCHANGED <<at, chan, clients, closed, events, history, panic>>

\* Shutdown: no handler is left, or ten seconds have passed.
Shutdown ==
    /\ server = "stopping" /\ server' = "closing"
    /\ UNCHANGED <<at, chan, clients, closed, events, history, panic>>

Close ==
    /\ server = "closing" /\ server' = "done"
    /\ closed' = TRUE /\ clients' = {} /\ CloseAll(clients)
    /\ panic' = (panic \/ \E s \in clients : chan[s].closed)
    /\ UNCHANGED <<at, events, history>>

Serve(s) == Subscribe(s) \/ Receive(s) \/ EndOfChannel(s) \/ Unsubscribe(s)
LiveNext ==
    \/ Notify \/ Signal \/ Shutdown \/ Close
    \/ \E s \in Stream : Accept(s) \/ Disconnect(s) \/ Serve(s)

LiveSpec == LiveInit /\ [][LiveNext]_vars
-----------------------------------------------------------------------------
(* Properties.                                                             *)

\* Whatever order clients leave, the server ends and events are published in, no
\* channel is closed twice and nothing is sent on a closed one.
NoPanic == ~panic

\* A subscription has, in order, every event published since it began, but the
\* ones that found its own channel full: a slow client costs the others nothing.
SlowClientsAreAlone ==
    \A s \in clients :
        /\ ToSet(got[s] \o chan[s].buf) \union missed[s] = from[s] + 1 .. events
        /\ \A i, j \in DOMAIN (got[s] \o chan[s].buf) :
              i < j => (got[s] \o chan[s].buf)[i] < (got[s] \o chan[s].buf)[j]

\* When the server is told to end every handler returns, although Shutdown waits
\* for them and they wait for the hub, which is closed after Shutdown.
StreamsEnd == server # "up" ~> \A s \in Stream : at[s] \in {"free", "ended"}

-----------------------------------------------------------------------------
(* The inductive invariant behind SlowClientsAreAlone and NoPanic.         *)

Place == {"free", "accepted", "open", "leaving", "ended"}
LiveTypes ==
    /\ at \in [Stream -> Place]
    /\ chan \in [Stream -> [buf : Seq(Nat), closed : BOOLEAN]]
    /\ got \in [Stream -> Seq(Nat)] /\ missed \in [Stream -> SUBSET Nat]
    /\ events \in Nat /\ from \in [Stream -> 0..events]
    /\ clients \subseteq Stream

\* A channel in the hub is open: Unsubscribe and Close take out what they close,
\* under the mutex, and a closed hub is empty and stays so.
HubInv ==
    /\ closed => clients = {}
    /\ \A s \in clients : ~chan[s].closed /\ at[s] \in {"open", "leaving"}

\* Before it subscribes, a stream has seen nothing.
NewInv ==
    \A s \in Stream : at[s] \in {"free", "accepted"} =>
        chan[s] = NoChan /\ got[s] = <<>> /\ missed[s] = {}

LiveInv == LiveTypes /\ HubInv /\ NewInv /\ NoPanic /\ SlowClientsAreAlone
=============================================================================
