---------------------------- MODULE IssuanceGuard ----------------------------
(***************************************************************************)
(* acme/guard.go: the token bucket in front of the certificate authority.  *)
(* A request that finds no token waits for a while and is then sent        *)
(* without one.                                                            *)
(***************************************************************************)
EXTENDS Naturals

CONSTANTS Client,   \* requests at the same time
          Burst,    \* guardBurst
          Refill,   \* guardRefill
          Step,     \* guardMaxWaitStep
          MaxTime   \* bound

GuardBounds == Burst \in Nat /\ Refill \in Nat \ {0} /\ Step \in 1..Refill /\ MaxTime \in Nat

VARIABLES now,
          tokens, lastFill,  \* the bucket
          until,             \* [Client -> end of its wait; Idle when it has none]
          free,              \* history: requests sent with a token
          through,           \* history: [Client -> its requests sent without one]
          atOnce             \* history: those of this moment that had a token

vars == <<now, tokens, lastFill, until, free, through, atOnce>>

\* Time 0 is when the guard was made.
Idle == MaxTime + Refill + 1
GuardInit ==
    /\ now = 0 /\ tokens = Burst /\ lastFill = 0 /\ until = [c \in Client |-> Idle]
    /\ free = 0 /\ through = [c \in Client |-> 0] /\ atOnce = 0

Earned == (now - lastFill) \div Refill
Filled == IF tokens + Earned > Burst THEN Burst ELSE tokens + Earned

\* The time to the next token, but no more than a step.
Wait(t) == IF Refill - (now - t) > Step THEN Step ELSE Refill - (now - t)

\* RoundTrip calls take, under the mutex.
Take(c) ==
    /\ until[c] = Idle
    /\ lastFill' = lastFill + Earned * Refill
    /\ IF Filled > 0
       THEN tokens' = Filled - 1 /\ free' = free + 1 /\ atOnce' = atOnce + 1 /\ UNCHANGED until
       ELSE tokens' = Filled /\ until' = [until EXCEPT ![c] = now + Wait(lastFill')] /\ UNCHANGED <<free, atOnce>>
    /\ UNCHANGED <<now, through>>

Go(c) ==
    /\ until[c] <= now /\ until' = [until EXCEPT ![c] = Idle]
    /\ through' = [through EXCEPT ![c] = @ + 1]
    /\ UNCHANGED <<now, tokens, lastFill, free, atOnce>>

GiveUp(c) ==
    /\ until[c] # Idle /\ until' = [until EXCEPT ![c] = Idle]
    /\ UNCHANGED <<now, tokens, lastFill, free, through, atOnce>>

TimePasses ==
    /\ now < MaxTime /\ now' = now + 1 /\ atOnce' = 0
    /\ UNCHANGED <<tokens, lastFill, until, free, through>>

GuardNext == TimePasses \/ \E c \in Client : Take(c) \/ Go(c) \/ GiveUp(c)
GuardSpec == GuardInit /\ [][GuardNext]_vars

-----------------------------------------------------------------------------
(* Properties.                                                             *)

Ceil(a, b) == (a + b - 1) \div b

\* Tokens do not pile up while the guard is not used: no more than a burst goes
\* out at the same moment without waiting.
BurstIsBounded == atOnce <= Burst

\* The waits that fit in t seconds: a client waits for the next token, and no
\* longer than a step, so that it waits again before a token comes.
Waits(t) == (t \div Refill) * Ceil(Refill, Step) + (t % Refill) \div Step

\* A runaway is slowed down: only tokens let requests through at once, and without
\* one each client gets through once for every wait.
RunawayIsSlowed ==
    /\ free <= Burst + now \div Refill
    /\ \A c \in Client : through[c] <= Waits(now)

-----------------------------------------------------------------------------
(* Invariant.                                                              *)

GuardTypeOK ==
    /\ {now, tokens, lastFill, free, atOnce} \subseteq Nat
    /\ until \in [Client -> Nat] /\ through \in [Client -> Nat]

\* What was sent with a token and what is left make up for what was earned; a
\* client that waits has a wait to spare when it ends.
GuardInv ==
    /\ GuardTypeOK
    /\ now <= MaxTime /\ lastFill <= now /\ lastFill % Refill = 0
    /\ atOnce + Filled <= Burst
    /\ free + tokens <= Burst + lastFill \div Refill
    /\ \A c \in Client :
          /\ through[c] <= Waits(now)
          /\ until[c] # Idle => through[c] + 1 <= Waits(until[c])
=============================================================================
