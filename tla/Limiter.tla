------------------------------- MODULE Limiter -------------------------------
(***************************************************************************)
(* ratelimit/ratelimit.go and the sign-ins it counts: a sliding window per *)
(* address, forgotten when somebody at the address succeeds, in a table    *)
(* that is swept when it has grown too large.                              *)
(***************************************************************************)
EXTENDS Naturals, Sequences, FiniteSets

CONSTANTS Key,      \* client addresses
          Budget,   \* loginMaxTries
          Window,   \* loginWindow
          MaxKeys,  \* size at which the table is swept
          MaxOpen, MaxTime  \* bounds

LimiterBounds == {Budget, Window, MaxKeys, MaxOpen, MaxTime} \subseteq Nat /\ Budget > 0 /\ Window > 0

VARIABLES now,
          attempts,  \* the table: [Key -> times]; <<>> stands for no entry
          open,      \* [Key -> sign-ins that were let in and are being checked]
          tried      \* history: [Key -> times it was let in since the last success]

vars == <<now, attempts, open, tried>>

LimiterInit ==
    /\ now = Window /\ attempts = [k \in Key |-> <<>>]
    /\ open = [k \in Key |-> 0] /\ tried = [k \in Key |-> <<>>]

\* The loop of Allow over an entry: what came after the beginning of the window.
Recent(s, t) ==
    LET kept[n \in 0..Len(s)] ==
          IF n = 0 THEN <<>>
          ELSE IF s[n] + Window > t THEN Append(kept[n - 1], s[n]) ELSE kept[n - 1]
    IN kept[Len(s)]

Within(s) == Recent(s, now)
Entries(a) == {k \in DOMAIN a : a[k] # <<>>}

\* Mutant: entries below the budget count as stale
StaleAfter(a, k) == Len(a[k]) < Budget

Stale(a, k) == a[k][Len(a[k])] + Window < now

\* Only addresses that made no attempt within the window are forgotten.
Sweep(a) ==
    IF Cardinality(Entries(a)) <= MaxKeys THEN a
    ELSE [k \in Key |-> IF k \in Entries(a) /\ Stale(a, k) THEN <<>> ELSE a[k]]

\* Allow, under the mutex; the sweep comes after an attempt that was let in.
Allow(k) ==
    LET kept == Within(attempts[k]) IN
    /\ open[k] < MaxOpen
    /\ IF Len(kept) >= Budget
       THEN attempts' = [attempts EXCEPT ![k] = kept] /\ UNCHANGED <<open, tried>>
       ELSE /\ attempts' = Sweep([attempts EXCEPT ![k] = Append(kept, now)])
            /\ open' = [open EXCEPT ![k] = @ + 1]
            /\ tried' = [tried EXCEPT ![k] = Append(Within(@), now)]
    /\ UNCHANGED now

\* A sign-in fails, and stays counted.
Fail(k) ==
    /\ open[k] > 0 /\ open' = [open EXCEPT ![k] = @ - 1]
    /\ UNCHANGED <<now, attempts, tried>>

\* Or succeeds: Reset forgets the address, also what others there have tried.
Reset(k) ==
    /\ open[k] > 0 /\ open' = [open EXCEPT ![k] = @ - 1]
    /\ attempts' = [attempts EXCEPT ![k] = <<>>] /\ tried' = [tried EXCEPT ![k] = <<>>]
    /\ UNCHANGED now

TimePasses == now < MaxTime /\ now' = now + 1 /\ UNCHANGED <<attempts, open, tried>>

LimiterNext == TimePasses \/ \E k \in Key : Allow(k) \/ Fail(k) \/ Reset(k)
LimiterSpec == LimiterInit /\ [][LimiterNext]_vars

-----------------------------------------------------------------------------
(* Properties.                                                             *)

\* However sign-ins overlap and whatever the sweep drops, no address is let in
\* more often than the budget within a window, but for the sign-ins before a
\* success ("concurrent attempts were allowed, want exactly" the budget).
BudgetHolds == \A k \in Key : Len(Within(tried[k])) <= Budget

\* The budget is not spent for good: an address whose attempts are all older than
\* the window is let in again.
NobodyIsLockedOut == \A k \in Key : Within(tried[k]) = <<>> => Len(Within(attempts[k])) < Budget

-----------------------------------------------------------------------------
(* The inductive invariant: entries are in the order of time, and what the *)
(* table has of the window is what was let in within it, although the      *)
(* sweep, and the loop over an entry, have forgotten the rest.             *)

LimiterTypeOK ==
    /\ now \in Nat /\ open \in [Key -> Nat]
    /\ attempts \in [Key -> Seq(Nat)] /\ tried \in [Key -> Seq(Nat)]

InOrder(s) ==
    /\ \A i, j \in DOMAIN s : i <= j => s[i] <= s[j]
    /\ \A i \in DOMAIN s : s[i] <= now

NothingForgotten ==
    \A k \in Key :
       /\ InOrder(attempts[k]) /\ InOrder(tried[k])
       /\ Within(attempts[k]) = Within(tried[k])

LimiterInv == LimiterTypeOK /\ NothingForgotten /\ BudgetHolds
==============================================================================
