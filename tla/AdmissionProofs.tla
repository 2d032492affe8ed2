---------------------------- MODULE AdmissionProofs ----------------------------
(***************************************************************************)
(* The limits of the two listeners, for any number of connections, slots,  *)
(* domains and months and any values of the limits.  Each limit is checked *)
(* by one command and used up by a later one: the invariants count those   *)
(* that are in between.                                                    *)
(***************************************************************************)
EXTENDS Admission, FiniteSetTheorems, TLAPS

-----------------------------------------------------------------------------
(* Counting.                                                               *)

\* Two sets that differ by one member at most
LEMMA OneDiffers ==
  ASSUME NEW S, NEW T, NEW c, IsFiniteSet(S), \A x : x # c => (x \in S <=> x \in T)
  PROVE  /\ IsFiniteSet(T) /\ Cardinality(S) \in Nat /\ Cardinality(T) \in Nat
         /\ c \in S /\ c \notin T => Cardinality(S) = Cardinality(T) + 1
         /\ c \in T /\ c \notin S => Cardinality(T) = Cardinality(S) + 1
         /\ (c \in S <=> c \in T) => T = S
<1>0. Cardinality(S) \in Nat
  BY FS_CardinalityType
<1>1. CASE c \in S <=> c \in T
  <2>1. S = T
    BY <1>1
  <2> QED
    BY <2>1, <1>1, <1>0
<1>2. CASE c \in S /\ c \notin T
  <2>1. T = S \ {c}
    BY <1>2
  <2>2. IsFiniteSet(T) /\ Cardinality(T) = Cardinality(S) - 1
    BY <1>2, <2>1, FS_RemoveElement
  <2>3. Cardinality(T) \in Nat
    BY <2>2, FS_CardinalityType
  <2> QED
    BY <1>0, <1>2, <2>2, <2>3
<1>3. CASE c \in T /\ c \notin S
  <2>1. T = S \cup {c}
    BY <1>3
  <2>2. IsFiniteSet(T) /\ Cardinality(T) = Cardinality(S) + 1
    BY <1>3, <2>1, FS_AddElement
  <2> QED
    BY <1>0, <1>3, <2>2
<1> QED
  BY <1>1, <1>2, <1>3

\* Pairs: the share of numbers of a member, and the rest
Column(c, n) == {c} \X (1..n)

\* What has a column of n of its own is n more than what is left of it.
LEMMA Shares ==
  ASSUME NEW W, NEW c, NEW n \in Nat, IsFiniteSet(W), Column(c, n) \subseteq W
  PROVE  /\ Cardinality(W \ Column(c, n)) \in Nat
         /\ Cardinality(W) = Cardinality(W \ Column(c, n)) + n
<1> DEFINE P == Column(c, n)
<1>1. n \in Int /\ 1 \in Int
  OBVIOUS
<1>2. IsFiniteSet(1..n) /\ Cardinality(1..n) = n
  <2>1. IsFiniteSet(1..n) /\ Cardinality(1..n) = IF 1 > n THEN 0 ELSE n - 1 + 1
    BY <1>1, FS_Interval, Zenon
  <2> QED
    BY <2>1
<1>3. IsFiniteSet({c}) /\ Cardinality({c}) = 1
  BY FS_Singleton
<1>4. IsFiniteSet(P) /\ Cardinality(P) = n
  <2>1. IsFiniteSet(P) /\ Cardinality(P) = Cardinality({c}) * Cardinality(1..n)
    BY <1>2, <1>3, FS_Product, Zenon DEF Column
  <2> QED
    BY <2>1, <1>2, <1>3
<1>5. W \cap P = P
  OBVIOUS
<1> HIDE DEF P
<1>6. IsFiniteSet(W \ P) /\ Cardinality(W \ P) = Cardinality(W) - Cardinality(W \cap P)
  BY FS_Difference
<1>7. Cardinality(W) \in Nat /\ Cardinality(W \ P) \in Nat
  BY <1>6, FS_CardinalityType
<1>8. Cardinality(W \cap P) = n
  BY <1>4, <1>5, Zenon
<1>9. Cardinality(W) = Cardinality(W \ P) + n
  BY <1>6, <1>7, <1>8
<1> QED
  BY <1>7, <1>9 DEF P

-----------------------------------------------------------------------------
(* Types.                                                                  *)

\* The highest limit is one of the limits, and no limit is above it.
LEMMA Limited == AdmissionBounds => /\ Max(Limits) \in Limits /\ Max(Limits) \in Nat
                                    /\ \A l \in Limits : l <= Max(Limits)
<1> SUFFICES ASSUME AdmissionBounds PROVE /\ Max(Limits) \in Limits /\ Max(Limits) \in Nat
                                          /\ \A l \in Limits : l <= Max(Limits)
  OBVIOUS
<1>1. PICK m \in Limits : \A l \in Limits : l <= m
  BY DEF AdmissionBounds
<1>2. \A l \in Limits : l \in Nat
  BY DEF AdmissionBounds
<1>3. \A l \in Limits : m >= l
  BY <1>1, <1>2
<1> QED
  BY <1>2, <1>3 DEF Max

\* A session changes; the others do not
LEMMA Moved ==
  ASSUME AdmissionTypeOK, NEW c \in Conn, NEW r \in SessionRecord, conn' = [conn EXCEPT ![c] = r]
  PROVE  /\ conn' \in [Conn -> SessionRecord] /\ conn'[c] = r
         /\ \A e \in Conn : e # c => conn'[e] = conn[e]
BY DEF AdmissionTypeOK

-----------------------------------------------------------------------------
(* What each part of the invariant asks of a step of one session.          *)

\* A session that moves to a stage it fits leaves the others where they were.
LEMMA StagesKept ==
  ASSUME AdmissionTypeOK, StageInv, NEW c \in Conn, NEW r \in SessionRecord, conn' = [conn EXCEPT ![c] = r], Fits(r),
         dom' = dom, reopened \subseteq reopened'
  PROVE  StageInv'
BY Moved DEF StageInv, Fits

\* A session that keeps its connection keeps its slot.
LEMMA SlotsKept ==
  ASSUME AdmissionTypeOK, SlotInv, NEW c \in Conn, NEW r \in SessionRecord, conn' = [conn EXCEPT ![c] = r],
         slots' = slots, r.at \in {"free", "closed"} <=> conn[c].at \in {"free", "closed"},
         r.at \notin {"free", "closed"} => r.port = conn[c].port
  PROVE  SlotInv'
<1>1. conn'[c] = r /\ \A e \in Conn : e # c => conn'[e] = conn[e]
  BY Moved
<1>2. \A p \in Ports, e \in Conn : (Busy(e) /\ conn[e].port = p) <=> (Busy(e)' /\ conn'[e].port = p)
  BY <1>1 DEF Busy
<1>3. \A p \in Ports : Taken(p)' = Taken(p)
  BY <1>2 DEF Taken
<1> QED
  BY <1>3 DEF SlotInv, SlotsAreConnections

\* There are finitely many sessions of each sort, since connections are finite.
LEMMA FiniteSessions ==
  ASSUME AdmissionBounds
  PROVE  /\ IsFiniteSet(Underway) /\ Cardinality(Underway) \in Nat
         /\ \A d : IsFiniteSet(Arriving(d)) /\ Cardinality(Arriving(d)) \in Nat
         /\ \A p : IsFiniteSet(Taken(p)) /\ Cardinality(Taken(p)) \in Nat
<1>1. \A S \in SUBSET Conn : IsFiniteSet(S) /\ Cardinality(S) \in Nat
  BY FS_Subset, FS_CardinalityType DEF AdmissionBounds
<1>2. Underway \in SUBSET Conn /\ \A d : Arriving(d) \in SUBSET Conn /\ Taken(d) \in SUBSET Conn
  BY DEF Underway, Arriving, Taken
<1> QED
  BY <1>1, <1>2

\* The places of f[d][k] messages in each of several queues: as many as one can
\* count, one more when a queue has, and no more when none has
Places(f, ks) == UNION {{w} \X (1..f[w[1]][w[2]]) : w \in Domain \X ks}

\* The messages of a queue, one by one, are finitely many.
LEMMA FinitePlaces ==
  ASSUME AdmissionBounds, NEW f \in [Domain -> [Kinds -> Nat]], NEW ks \in SUBSET Kinds
  PROVE  IsFiniteSet(Places(f, ks)) /\ Cardinality(Places(f, ks)) \in Nat
<1> DEFINE Of(w) == {w} \X (1..f[w[1]][w[2]])
           P == {Of(w) : w \in Domain \X ks}
<1>1. IsFiniteSet(Domain \X ks)
  <2>1. IsFiniteSet(Kinds)
    <3>1. Kinds = ({"mx"} \cup {"sub"}) \cup {"dsn"}
      BY DEF Kinds
    <3>2. IsFiniteSet({"mx"}) /\ IsFiniteSet({"sub"}) /\ IsFiniteSet({"dsn"})
      BY FS_Singleton
    <3> QED
      BY <3>1, <3>2, FS_Union
  <2>2. IsFiniteSet(ks)
    BY <2>1, FS_Subset
  <2> QED
    BY <2>2, FS_Product DEF AdmissionBounds
<1>2. ASSUME NEW w \in Domain \X ks PROVE IsFiniteSet(Of(w))
  <2>1. f[w[1]][w[2]] \in Nat /\ f[w[1]][w[2]] \in Int /\ 1 \in Int
    OBVIOUS
  <2>2. IsFiniteSet(1..f[w[1]][w[2]])
    BY <2>1, FS_Interval, Zenon
  <2> QED
    BY <2>2, FS_Singleton, FS_Product
<1>3. IsFiniteSet(P)
  <2>1. [w \in Domain \X ks |-> Of(w)] \in Surjection(Domain \X ks, P)
    BY Zenon DEF Surjection
  <2> QED
    BY <1>1, <2>1, FS_Surjection
<1>4. \A T \in P : IsFiniteSet(T)
  BY <1>2
<1>5. IsFiniteSet(UNION P)
  BY <1>3, <1>4, FS_UNION
<1>6. UNION P = Places(f, ks)
  BY DEF Places
<1> QED
  BY <1>5, <1>6, FS_CardinalityType

\* A place in the queue is a domain, an origin and a number up to the count.
LEMMA InPlaces ==
  ASSUME NEW f, NEW ks, NEW x
  PROVE  x \in Places(f, ks) <=> \E d \in Domain, k \in ks : \E i \in 1..f[d][k] : x = <<<<d, k>>, i>>
<1>1. ASSUME x \in Places(f, ks) PROVE \E d \in Domain, k \in ks : \E i \in 1..f[d][k] : x = <<<<d, k>>, i>>
  <2>1. PICK w \in Domain \X ks : x \in {w} \X (1..f[w[1]][w[2]])
    BY <1>1 DEF Places
  <2>2. PICK d \in Domain, k \in ks : w = <<d, k>>
    OBVIOUS
  <2>3. x \in {<<d, k>>} \X (1..f[d][k])
    BY <2>1, <2>2
  <2>4. PICK i \in 1..f[d][k] : x = <<<<d, k>>, i>>
    BY <2>3
  <2> QED
    BY <2>4
<1>2. ASSUME NEW d \in Domain, NEW k \in ks, NEW i \in 1..f[d][k], x = <<<<d, k>>, i>> PROVE x \in Places(f, ks)
  <2>1. <<d, k>> \in Domain \X ks /\ <<d, k>>[1] = d /\ <<d, k>>[2] = k
    OBVIOUS
  <2>2. x \in {<<d, k>>} \X (1..f[<<d, k>>[1]][<<d, k>>[2]])
    BY <1>2, <2>1
  <2> QED
    BY <2>1, <2>2 DEF Places
<1> QED
  BY <1>1, <1>2

Longer(f, g, d, k) == /\ g[d][k] = f[d][k] + 1
                      /\ \A e \in Domain, j \in Kinds : e # d \/ j # k => g[e][j] = f[e][j]

\* A message that is queued is one more.
LEMMA OneMorePlace ==
  ASSUME AdmissionBounds, NEW f \in [Domain -> [Kinds -> Nat]], NEW ks \in SUBSET Kinds,
         NEW d \in Domain, NEW k \in ks, NEW g, Longer(f, g, d, k)
  PROVE  Cardinality(Places(g, ks)) = Cardinality(Places(f, ks)) + 1
<1> DEFINE y == <<<<d, k>>, f[d][k] + 1>>
<1>0. /\ f[d][k] \in Nat /\ g[d][k] = f[d][k] + 1
      /\ \A e \in Domain, j \in ks : e # d \/ j # k => g[e][j] = f[e][j]
  BY DEF Longer
<1>1. y \in Places(g, ks)
  <2>1. f[d][k] + 1 \in 1..g[d][k]
    BY <1>0
  <2> QED
    BY <2>1, InPlaces
<1>2. y \notin Places(f, ks)
  <2>1. ASSUME NEW e \in Domain, NEW j \in ks, NEW i \in 1..f[e][j], y = <<<<e, j>>, i>> PROVE FALSE
    <3>1. e = d /\ j = k /\ i = f[d][k] + 1
      BY <2>1
    <3> QED
      BY <1>0, <3>1
  <2> QED
    BY <2>1, InPlaces
<1>3. ASSUME NEW x, x # y PROVE x \in Places(f, ks) <=> x \in Places(g, ks)
  <2>1. ASSUME NEW e \in Domain, NEW j \in ks, NEW i, x = <<<<e, j>>, i>> PROVE i \in 1..f[e][j] <=> i \in 1..g[e][j]
    <3>1. CASE e = d /\ j = k
      <4>1. i # f[d][k] + 1
        <5>1. ASSUME i = f[d][k] + 1 PROVE FALSE
          <6>1. x = y
            BY <2>1, <3>1, <5>1, Zenon
          <6> QED
            BY <1>3, <6>1
        <5> QED
          BY <5>1
      <4>2. f[e][j] = f[d][k] /\ g[e][j] = f[d][k] + 1
        BY <1>0, <3>1
      <4>3. i \in 1..f[d][k] <=> i \in 1..(f[d][k] + 1)
        <5> DEFINE m == f[d][k]
        <5>1. m \in Nat /\ i # m + 1
          BY <1>0, <4>1
        <5> HIDE DEF m
        <5>2. \A v \in 1..(m + 1) : v # m + 1 => v \in 1..m
          BY <5>1
        <5>3. \A v \in 1..m : v \in 1..(m + 1)
          BY <5>1
        <5> QED
          BY <5>1, <5>2, <5>3 DEF m
      <4> QED
        BY <4>2, <4>3
    <3>2. CASE ~(e = d /\ j = k)
      BY <1>0, <3>2
    <3> QED
      BY <3>1, <3>2
  <2> QED
    BY <2>1, InPlaces
<1>4. \A x : x # y => (x \in Places(f, ks) <=> x \in Places(g, ks))
  BY <1>3
<1>5. IsFiniteSet(Places(f, ks))
  BY FinitePlaces
<1> DEFINE S == Places(f, ks)
           T == Places(g, ks)
<1> HIDE DEF y, S, T
<1>6. IsFiniteSet(S) /\ (\A x : x # y => (x \in S <=> x \in T)) /\ y \in T /\ y \notin S
  BY <1>1, <1>2, <1>4, <1>5 DEF S, T
<1>7. Cardinality(T) = Cardinality(S) + 1
  BY <1>6, OneDiffers
<1> QED
  BY <1>7 DEF S, T

\* Counters that do not grow do not make the queue longer.
LEMMA FewerPlaces ==
  ASSUME AdmissionBounds, NEW f \in [Domain -> [Kinds -> Nat]], NEW ks \in SUBSET Kinds,
         NEW g \in [Domain -> [Kinds -> Nat]], \A d \in Domain, k \in ks : g[d][k] <= f[d][k]
  PROVE  Cardinality(Places(g, ks)) <= Cardinality(Places(f, ks))
<1>1. ASSUME NEW x \in Places(g, ks) PROVE x \in Places(f, ks)
  <2>1. PICK d \in Domain, k \in ks : \E i \in 1..g[d][k] : x = <<<<d, k>>, i>>
    BY InPlaces
  <2>2. PICK i \in 1..g[d][k] : x = <<<<d, k>>, i>>
    BY <2>1
  <2>3. i \in 1..f[d][k]
    BY <2>2
  <2> QED
    BY <2>2, <2>3, InPlaces
<1>2. Places(g, ks) \in SUBSET Places(f, ks)
  BY <1>1
<1> QED
  BY <1>2, FinitePlaces, FS_Subset

\* The length of the queue is the number of its places, before and after a step.
LEMMA QueueCounts ==
  ASSUME AdmissionBounds, pend \in [Domain -> [Kinds -> Nat]], NEW ks \in SUBSET Kinds
  PROVE  /\ InQueue(ks) = Cardinality(Places(pend, ks)) /\ InQueue(ks)' = Cardinality(Places(pend', ks))
         /\ InQueue(ks) \in Nat
BY FinitePlaces DEF InQueue, Waiting, Places

\* As many connections are open as there are slots, at most
LEMMA SlotsBound ==
  ASSUME AdmissionBounds, AdmissionTypeOK, SlotInv, StageInv
  PROVE  Cardinality({c \in Conn : Busy(c)}) <= Cardinality(AllSlots) /\ Cardinality(AllSlots) \in Nat
<1> DEFINE Opened == {c \in Conn : Busy(c)}
           Inj(p) == Injection(Taken(p), 1..Slots[p])
           f == [p \in Ports |-> CHOOSE g \in Inj(p) : TRUE]
           h == [c \in Opened |-> <<conn[c].port, f[conn[c].port][c]>>]
<1>1. ASSUME NEW p \in Ports PROVE /\ IsFiniteSet(1..Slots[p]) /\ Cardinality(1..Slots[p]) = Slots[p]
                                   /\ Slots[p] \in Nat
  <2>0. Slots \in [Ports -> Nat]
    BY DEF AdmissionBounds
  <2>1. Slots[p] \in Nat /\ Slots[p] \in Int /\ 1 \in Int
    BY <2>0
  <2>2. /\ IsFiniteSet(1..Slots[p])
        /\ Cardinality(1..Slots[p]) = IF 1 > Slots[p] THEN 0 ELSE Slots[p] - 1 + 1
    BY <2>1, FS_Interval, Zenon
  <2> QED
    BY <2>1, <2>2
<1>2. ASSUME NEW p \in Ports PROVE \E g : g \in Inj(p)
  <2>1. /\ IsFiniteSet(Taken(p)) /\ Cardinality(Taken(p)) \in Nat /\ Cardinality(Taken(p)) <= Slots[p]
        /\ ExistsBijection(1..Cardinality(Taken(p)), Taken(p))
    BY FiniteSessions, FS_CardinalityType DEF SlotInv, SlotsAreConnections
  <2>2. PICK b : b \in Bijection(1..Cardinality(Taken(p)), Taken(p))
    BY <2>1 DEF ExistsBijection
  <2> DEFINE m == Cardinality(Taken(p))
             g == [c \in Taken(p) |-> CHOOSE i \in 1..m : b[i] = c]
  <2>3. \A c \in Taken(p) : g[c] \in 1..m /\ b[g[c]] = c
    BY <2>2 DEF Bijection, Surjection
  <2>4. 1..m \subseteq 1..Slots[p]
    BY <1>1, <2>1
  <2> HIDE DEF m, g
  <2>5. g \in [Taken(p) -> 1..Slots[p]]
    BY <2>3, <2>4 DEF g
  <2>6. g \in Inj(p)
    BY <2>3, <2>5 DEF Injection, IsInjective
  <2> QED
    BY <2>6
<1>3. ASSUME NEW p \in Ports PROVE f[p] \in Inj(p)
  <2>1. f[p] = CHOOSE g \in Inj(p) : TRUE
    OBVIOUS
  <2> QED
    BY <1>2, <2>1, Zenon
<1>4. ASSUME NEW c \in Opened PROVE conn[c].port \in Ports /\ c \in Taken(conn[c].port)
  BY DEF StageInv, Fits, Busy, Taken
<1> HIDE DEF f
<1>5. ASSUME NEW c \in Opened PROVE h[c] \in AllSlots
  <2>1. f[conn[c].port][c] \in 1..Slots[conn[c].port]
    BY <1>3, <1>4 DEF Injection
  <2>2. h[c] \in {conn[c].port} \X (1..Slots[conn[c].port])
    BY <2>1
  <2> QED
    BY <1>4, <2>2 DEF AllSlots
<1>6. ASSUME NEW c \in Opened, NEW e \in Opened, h[c] = h[e] PROVE c = e
  <2>1. conn[c].port = conn[e].port /\ f[conn[c].port][c] = f[conn[c].port][e]
    BY <1>6
  <2>2. c \in Taken(conn[c].port) /\ e \in Taken(conn[c].port)
    BY <1>4, <2>1
  <2> QED
    BY <1>3, <1>4, <2>1, <2>2 DEF Injection, IsInjective
<1>7. h \in Injection(Opened, AllSlots)
  BY <1>5, <1>6 DEF Injection, IsInjective
<1>8. IsFiniteSet(AllSlots)
  <2> DEFINE Of(p) == {p} \X (1..Slots[p])
             P == {Of(p) : p \in Ports}
  <2>1. IsFiniteSet(Ports)
    <3>1. Ports \in SUBSET ({"mx"} \cup {"sub"})
      BY DEF AdmissionBounds
    <3>2. IsFiniteSet({"mx"} \cup {"sub"})
      BY FS_Singleton, FS_Union
    <3> QED
      BY <3>1, <3>2, FS_Subset
  <2>2. IsFiniteSet(P)
    <3>1. [p \in Ports |-> Of(p)] \in Surjection(Ports, P)
      BY Zenon DEF Surjection
    <3> QED
      BY <2>1, <3>1, FS_Surjection
  <2>3. \A T \in P : IsFiniteSet(T)
    <3>1. ASSUME NEW p \in Ports PROVE IsFiniteSet(Of(p))
      BY <1>1, FS_Singleton, FS_Product
    <3> QED
      BY <3>1
  <2>4. UNION P = AllSlots
    BY DEF AllSlots
  <2> QED
    BY <2>2, <2>3, <2>4, FS_UNION
<1> QED
  BY <1>7, <1>8, FS_Injection, FS_CardinalityType

\* No more may queue a message, and no more messages are queued
LEMMA QueueKept ==
  ASSUME AdmissionBounds, AdmissionTypeOK, QueueInv, NEW c \in Conn, NEW r \in SessionRecord,
         conn' = [conn EXCEPT ![c] = r], InQueue({"mx", "sub"})' <= InQueue({"mx", "sub"}),
         InQueue({"mx", "sub"})' \in Nat, Cardinality(AllSlots) \in Nat,
         r.at \in {"mail", "stored", "reserved"} => conn[c].at \in {"mail", "stored", "reserved"}
  PROVE  QueueInv'
<1>1. conn'[c] = r /\ \A e \in Conn : e # c => conn'[e] = conn[e]
  BY Moved
<1>2. Underway' \in SUBSET Underway
  BY <1>1 DEF Underway
<1>3. /\ Cardinality(Underway) \in Nat /\ Cardinality(Underway)' \in Nat
      /\ Cardinality(Underway)' <= Cardinality(Underway)
  BY <1>2, FiniteSessions, FS_Subset, FS_CardinalityType
<1>4. InQueue({"mx", "sub"}) \in Nat /\ MaxMessages \in Nat
  BY QueueCounts DEF AdmissionBounds, AdmissionTypeOK, Kinds
<1> QED
  BY <1>3, <1>4 DEF QueueInv, AllSlots

\* No more arrive for a domain, and no more mail from port 25 waits for it
LEMMA CapKept ==
  ASSUME AdmissionBounds, AdmissionTypeOK, CapInv, NEW c \in Conn, NEW r \in SessionRecord,
         conn' = [conn EXCEPT ![c] = r], pend' \in [Domain -> [Kinds -> Nat]],
         \A d \in Domain : pend'[d]["mx"] <= pend[d]["mx"],
         /\ r.at \in {"mail", "stored"} /\ r.port = "mx" /\ r.dom \in Domain =>
              conn[c].at \in {"mail", "stored"} /\ conn[c].port = "mx" /\ conn[c].dom = r.dom
  PROVE  CapInv'
<1>1. conn'[c] = r /\ \A e \in Conn : e # c => conn'[e] = conn[e]
  BY Moved
<1>2. SUFFICES ASSUME "mx" \in Ports, NEW d \in Domain
               PROVE pend'[d]["mx"] + Cardinality(Arriving(d))' < Cap + Slots["mx"]
  BY DEF CapInv
<1>3. Arriving(d)' \in SUBSET Arriving(d)
  BY <1>1 DEF Arriving
<1>4. /\ Cardinality(Arriving(d)) \in Nat /\ Cardinality(Arriving(d))' \in Nat
      /\ Cardinality(Arriving(d))' <= Cardinality(Arriving(d))
  BY <1>3, FiniteSessions, FS_Subset, FS_CardinalityType
<1>5. pend[d]["mx"] \in Nat /\ pend'[d]["mx"] \in Nat
  BY DEF AdmissionTypeOK, Kinds
<1>6. Cap \in Nat /\ Slots["mx"] \in Nat
  <2>1. Slots \in [Ports -> Nat] /\ Cap \in Nat
    BY DEF AdmissionBounds
  <2> QED
    BY <1>2, <2>1
<1>7. pend[d]["mx"] + Cardinality(Arriving(d)) < Cap + Slots["mx"]
  BY <1>2 DEF CapInv
<1> QED
  BY <1>4, <1>5, <1>6, <1>7

-----------------------------------------------------------------------------
(* The sends charged for.                                                  *)

\* The recipients sessions have sends charged for are finitely many.
LEMMA FiniteCharges ==
  ASSUME AdmissionBounds, AdmissionTypeOK, NEW d, NEW k
  PROVE  IsFiniteSet(Charged(d, k)) /\ Cardinality(Charged(d, k)) \in Nat
<1>1. MaxRcpts \in Nat
  BY DEF AdmissionBounds
<1>2. IsFiniteSet(1..MaxRcpts)
  BY <1>1, FS_Interval
<1>3. IsFiniteSet(Conn \X (1..MaxRcpts))
  BY <1>2, FS_Product DEF AdmissionBounds
<1>4. Charged(d, k) \in SUBSET (Conn \X (1..MaxRcpts))
  BY DEF Charged
<1> QED
  BY <1>3, <1>4, FS_Subset, FS_CardinalityType

\* What a session has charged for
Share(s, d, k) == IF s.at \in {"reserved", "failed"} /\ s.dom = d /\ s.month = k THEN s.n ELSE 0

\* The charges of all sessions change by what those of one do
LEMMA ChargesMove ==
  ASSUME AdmissionBounds, AdmissionTypeOK, NEW c \in Conn, NEW r \in SessionRecord,
         conn' = [conn EXCEPT ![c] = r], NEW d, NEW k
  PROVE  /\ Share(conn[c], d, k) \in Nat /\ Share(r, d, k) \in Nat
         /\ Cardinality(Charged(d, k)) \in Nat /\ Cardinality(Charged(d, k))' \in Nat
         /\ Cardinality(Charged(d, k))' + Share(conn[c], d, k) = Cardinality(Charged(d, k)) + Share(r, d, k)
<1> DEFINE W == Charged(d, k)
           V == Charged(d, k)'
           n == Share(conn[c], d, k)
           m == Share(r, d, k)
<1>0. /\ conn' \in [Conn -> SessionRecord] /\ conn'[c] = r
      /\ \A e \in Conn : e # c => conn'[e] = conn[e]
  BY Moved
<1>m. MaxRcpts \in Nat
  BY DEF AdmissionBounds
<1>1. n \in 0..MaxRcpts /\ m \in 0..MaxRcpts /\ n \in Nat /\ m \in Nat
  <2>1. conn[c].n \in 0..MaxRcpts /\ r.n \in 0..MaxRcpts
    BY DEF AdmissionTypeOK, SessionRecord
  <2> QED
    BY <1>m, <2>1 DEF Share
<1>2. \A i : <<c, i>> \in W <=> i \in 1..n
  <2>1. ASSUME NEW i PROVE <<c, i>> \in W <=> i \in 1..n
    <3>1. <<c, i>> \in W <=> i \in 1..MaxRcpts /\ Reserving(c, d, k) /\ i <= conn[c].n
      BY DEF Charged
    <3>2. CASE Reserving(c, d, k)
      <4>1. n = conn[c].n
        BY <3>2 DEF Reserving, Share
      <4> QED
        BY <1>m, <1>1, <3>1, <3>2, <4>1
    <3>3. CASE ~Reserving(c, d, k)
      <4>1. n = 0
        BY <3>3 DEF Reserving, Share
      <4> QED
        BY <3>1, <3>3, <4>1
    <3> QED
      BY <3>2, <3>3
  <2> QED
    BY <2>1
<1>3. \A i : <<c, i>> \in V <=> i \in 1..m
  <2>1. ASSUME NEW i PROVE <<c, i>> \in V <=> i \in 1..m
    <3>1. <<c, i>> \in V <=> i \in 1..MaxRcpts /\ Reserving(c, d, k)' /\ i <= conn'[c].n
      BY DEF Charged
    <3>2. CASE Reserving(c, d, k)'
      <4>1. m = conn'[c].n
        BY <1>0, <3>2 DEF Reserving, Share
      <4> QED
        BY <1>m, <1>1, <3>1, <3>2, <4>1
    <3>3. CASE ~Reserving(c, d, k)'
      <4>1. m = 0
        BY <1>0, <3>3 DEF Reserving, Share
      <4> QED
        BY <3>1, <3>3, <4>1
    <3> QED
      BY <3>2, <3>3
  <2> QED
    BY <2>1
<1> DEFINE P == Column(c, n)
           Q == Column(c, m)
<1>4. P \subseteq W /\ Q \subseteq V
  BY <1>2, <1>3 DEF Column
<1>5. W \ P = V \ Q
  <2>1. ASSUME NEW x \in Conn \X (1..MaxRcpts) PROVE x \in W \ P <=> x \in V \ Q
    <3>1. PICK e \in Conn, i \in 1..MaxRcpts : x = <<e, i>>
      OBVIOUS
    <3>2. CASE e = c
      BY <1>2, <1>3, <3>1, <3>2 DEF Column
    <3>3. CASE e # c
      <4>1. x \in W <=> x \in V
        BY <1>0, <3>1, <3>3 DEF Charged, Reserving
      <4>2. x \notin P /\ x \notin Q
        BY <3>1, <3>3 DEF Column
      <4> QED
        BY <4>1, <4>2
    <3> QED
      BY <3>2, <3>3
  <2>2. W \subseteq Conn \X (1..MaxRcpts) /\ V \subseteq Conn \X (1..MaxRcpts)
    BY DEF Charged
  <2> HIDE DEF W, V, P, Q
  <2> QED
    BY <2>1, <2>2
<1>6. IsFiniteSet(W) /\ Cardinality(W) \in Nat
  BY FiniteCharges
<1>7. IsFiniteSet(V) /\ Cardinality(V) \in Nat
  <2>1. IsFiniteSet(Conn \X (1..MaxRcpts))
    <3>1. IsFiniteSet(1..MaxRcpts)
      BY <1>m, FS_Interval
    <3> QED
      BY <3>1, FS_Product DEF AdmissionBounds
  <2>2. V \in SUBSET (Conn \X (1..MaxRcpts))
    BY DEF Charged
  <2> QED
    BY <2>1, <2>2, FS_Subset, FS_CardinalityType
<1> HIDE DEF W, V, n, m
<1>w. Cardinality(W) = Cardinality(W \ P) + n /\ Cardinality(W \ P) \in Nat
  <2>1. n \in Nat /\ IsFiniteSet(W) /\ Column(c, n) \subseteq W
    BY <1>1, <1>4, <1>6
  <2> QED
    BY <2>1, Shares, Zenon
<1>v. Cardinality(V) = Cardinality(V \ Q) + m
  <2>1. m \in Nat /\ IsFiniteSet(V) /\ Column(c, m) \subseteq V
    BY <1>1, <1>4, <1>7
  <2> QED
    BY <2>1, Shares, Zenon
<1>9. Cardinality(V \ Q) = Cardinality(W \ P)
  BY <1>5
<1> HIDE DEF P, Q
<1>10. Cardinality(V) + n = Cardinality(W) + m
  BY <1>1, <1>w, <1>v, <1>9
<1> QED
  BY <1>1, <1>6, <1>7, <1>10 DEF W, V, n, m

\* No sends are reserved or given back
LEMMA UsageKept ==
  ASSUME AdmissionBounds, AdmissionTypeOK, UsageInv, NEW c \in Conn, NEW r \in SessionRecord,
         conn' = [conn EXCEPT ![c] = r], UNCHANGED <<usage, accepted, lost>>,
         r.at \in {"reserved", "failed"} \/ conn[c].at \in {"reserved", "failed"} =>
            /\ r.at \in {"reserved", "failed"} /\ conn[c].at \in {"reserved", "failed"}
            /\ r.dom = conn[c].dom /\ r.month = conn[c].month /\ r.n = conn[c].n
  PROVE  UsageInv'
<1>1. ASSUME NEW d \in Domain, NEW k \in Month PROVE Cardinality(Charged(d, k))' = Cardinality(Charged(d, k))
  <2>1. Share(conn[c], d, k) = Share(r, d, k)
    BY DEF Share
  <2>2. /\ Share(conn[c], d, k) \in Nat /\ Cardinality(Charged(d, k)) \in Nat /\ Cardinality(Charged(d, k))' \in Nat
        /\ Cardinality(Charged(d, k))' + Share(conn[c], d, k) = Cardinality(Charged(d, k)) + Share(r, d, k)
    BY ChargesMove
  <2> QED
    BY <2>1, <2>2
<1> QED
  BY <1>1 DEF UsageInv, UsageIsAccounted

\* Nobody begins to tell
LEMMA TellKept ==
  ASSUME AdmissionTypeOK, TellInv, NEW c \in Conn, NEW r \in SessionRecord, conn' = [conn EXCEPT ![c] = r],
         UNCHANGED <<usage, told, dom, reopened>>,
         r.at \in {"reserved", "queued"} => /\ conn[c].at \in {"reserved", "queued"} /\ r.dom = conn[c].dom
                                            /\ r.month = conn[c].month /\ r.n = conn[c].n
                                            /\ r.before = conn[c].before /\ r.limit = conn[c].limit
  PROVE  TellInv'
<1>1. conn'[c] = r /\ \A e \in Conn : e # c => conn'[e] = conn[e]
  BY Moved
<1>2. ASSUME NEW e \in Conn, NEW d \in Domain, NEW k \in Month, Tells(e, d, k)' PROVE Tells(e, d, k)
  BY <1>1, <1>2 DEF Tells, Reaches
<1> QED
  BY <1>2 DEF TellInv

\* Types are kept by a step of one session within its types.
LEMMA TypesKept ==
  ASSUME AdmissionTypeOK, NEW c \in Conn, NEW r \in SessionRecord, conn' = [conn EXCEPT ![c] = r],
         slots' \in [Ports -> Nat], pend' \in [Domain -> [Kinds -> Nat]], UNCHANGED sys,
         usage' \in Counter, accepted' \in Counter, told' \in Counter, lost' \in Counter,
         reopened' \in SUBSET Domain
  PROVE  AdmissionTypeOK'
<1>1. conn' \in [Conn -> SessionRecord]
  BY Moved
<1> QED
  BY <1>1 DEF AdmissionTypeOK, sys, SessionRecord, Stages, Month, Counter, Kinds

-----------------------------------------------------------------------------
(* The steps of a session.                                                 *)

\* Slots and queues are numbers, and received and submitted mail is part of the queue.
LEMMA SlotsCount == ASSUME AdmissionBounds, AdmissionInv
                    PROVE  /\ Cardinality(AllSlots) \in Nat
                           /\ InQueue({"mx", "sub"}) \in Nat /\ InQueue(Kinds) \in Nat
                           /\ InQueue({"mx", "sub"}) <= InQueue(Kinds)
<1>1. pend \in [Domain -> [Kinds -> Nat]] /\ {"mx", "sub"} \in SUBSET Kinds /\ Kinds \in SUBSET Kinds
  BY DEF AdmissionInv, AdmissionTypeOK, Kinds
<1>2. Cardinality(AllSlots) \in Nat
  BY SlotsBound DEF AdmissionInv
<1>3. InQueue({"mx", "sub"}) \in Nat /\ InQueue(Kinds) \in Nat
  BY <1>1, QueueCounts
<1>4. InQueue({"mx", "sub"}) <= InQueue(Kinds)
  <2>1. Waiting({"mx", "sub"}) \in SUBSET Waiting(Kinds)
    BY <1>1 DEF Waiting
  <2>2. IsFiniteSet(Waiting(Kinds))
    BY <1>1, FinitePlaces DEF Waiting, Places
  <2> QED
    BY <2>1, <2>2, FS_Subset DEF InQueue
<1> QED
  BY <1>2, <1>3, <1>4

\* A session goes on, and no message or send is counted
LEMMA CountsStay ==
  ASSUME AdmissionBounds, AdmissionInv, NEW c \in Conn, NEW r \in SessionRecord, conn' = [conn EXCEPT ![c] = r],
         UNCHANGED <<sys, pend, usage, accepted, told, lost, reopened>>,
         r.at \in {"mail", "stored", "reserved"} => conn[c].at \in {"mail", "stored", "reserved"},
         r.at \in {"mail", "stored"} => /\ conn[c].at \in {"mail", "stored"} /\ conn[c].dom = r.dom
                                        /\ conn[c].port = r.port,
         r.at \notin {"reserved", "queued"},
         r.at = "failed" \/ conn[c].at \in {"reserved", "failed"} =>
            /\ r.at = "failed" /\ conn[c].at \in {"reserved", "failed"}
            /\ r.dom = conn[c].dom /\ r.month = conn[c].month /\ r.n = conn[c].n
  PROVE  QueueInv' /\ CapInv' /\ UsageInv' /\ TellInv'
<1> USE DEF AdmissionInv
<1>1. QueueInv'
  <2>1. InQueue({"mx", "sub"})' = InQueue({"mx", "sub"})
    BY DEF InQueue, Waiting
  <2>2. InQueue({"mx", "sub"})' <= InQueue({"mx", "sub"}) /\ InQueue({"mx", "sub"})' \in Nat
    BY <2>1, SlotsCount
  <2> QED
    BY <2>2, SlotsCount, QueueKept
<1>2. CapInv'
  <2>1. pend' \in [Domain -> [Kinds -> Nat]] /\ \A d \in Domain : pend'[d]["mx"] <= pend[d]["mx"]
    BY DEF AdmissionTypeOK, Kinds
  <2> QED
    BY <2>1, CapKept
<1>3. UsageInv' /\ TellInv'
  BY UsageKept, TellKept DEF sys
<1> QED
  BY <1>1, <1>2, <1>3

\* A session goes on, and nothing is counted
LEMMA GoesOn ==
  ASSUME AdmissionBounds, AdmissionInv, NEW c \in Conn, NEW r \in SessionRecord, conn' = [conn EXCEPT ![c] = r],
         UNCHANGED <<slots, sys, pend, usage, accepted, told, lost, reopened>>, Fits(r),
         r.at \in {"free", "closed"} <=> conn[c].at \in {"free", "closed"},
         r.at \notin {"free", "closed"} => r.port = conn[c].port,
         r.at \in {"mail", "stored", "reserved"} => conn[c].at \in {"mail", "stored", "reserved"},
         r.at \in {"mail", "stored"} => conn[c].at \in {"mail", "stored"} /\ conn[c].dom = r.dom,
         r.at \notin {"reserved", "queued"},
         r.at = "failed" \/ conn[c].at \in {"reserved", "failed"} =>
            /\ r.at = "failed" /\ conn[c].at \in {"reserved", "failed"}
            /\ r.dom = conn[c].dom /\ r.month = conn[c].month /\ r.n = conn[c].n
  PROVE  AdmissionInv'
<1> USE DEF AdmissionInv
<1>1. AdmissionTypeOK'
  <2>1. /\ slots' \in [Ports -> Nat] /\ pend' \in [Domain -> [Kinds -> Nat]] /\ UNCHANGED sys
        /\ usage' \in Counter /\ accepted' \in Counter /\ told' \in Counter /\ lost' \in Counter
        /\ reopened' \in SUBSET Domain
    BY DEF AdmissionTypeOK
  <2> QED
    BY <2>1, TypesKept
<1>2. StageInv' /\ SlotInv'
  BY StagesKept, SlotsKept DEF sys
<1>3. QueueInv' /\ CapInv' /\ UsageInv' /\ TellInv'
  BY CountsStay
<1> QED
  BY <1>1, <1>2, <1>3

\* A session has its type, and so has one that is ended or free.
LEMMA SessionRow ==
  ASSUME AdmissionBounds, AdmissionInv, NEW c \in Conn
  PROVE  /\ conn[c] \in SessionRecord /\ Fits(conn[c])
         /\ Ended(conn[c]) \in SessionRecord
         /\ Ended(conn[c]).at = "open" /\ Ended(conn[c]).port = conn[c].port /\ Ended(conn[c]).n = 0
         /\ Free \in SessionRecord /\ Free.at = "free" /\ Free.n = 0
<1>1. conn[c] \in SessionRecord /\ Fits(conn[c])
  BY DEF AdmissionInv, AdmissionTypeOK, StageInv
<1>2. Free \in SessionRecord /\ Free.at = "free" /\ Free.n = 0
  BY DEF Free, SessionRecord, Stages, AdmissionBounds, Month
<1>3. /\ Ended(conn[c]) \in SessionRecord
      /\ Ended(conn[c]).at = "open" /\ Ended(conn[c]).port = conn[c].port /\ Ended(conn[c]).n = 0
  BY <1>1, <1>2 DEF Ended, Free, SessionRecord, Stages
<1> QED
  BY <1>1, <1>2, <1>3

\* The transaction is over without a message
LEMMA EndKeeps ==
  ASSUME AdmissionBounds, AdmissionInv, NEW c \in Conn, conn' = [conn EXCEPT ![c] = Ended(conn[c])],
         UNCHANGED <<slots, sys, pend, usage, accepted, told, lost, reopened>>,
         conn[c].at \in {"mail", "stored", "queued"}
  PROVE  AdmissionInv'
<1> DEFINE r == Ended(conn[c])
<1>1. r \in SessionRecord /\ r.at = "open" /\ r.port = conn[c].port /\ r.n = 0 /\ Fits(conn[c])
  BY SessionRow
<1> HIDE DEF r
<1>2. Fits(r)
  BY <1>1 DEF Fits
<1> QED
  BY <1>1, <1>2, GoesOn DEF r

\* NewSession: a connection gets its session.
LEMMA NewSessionKeeps ==
  ASSUME AdmissionBounds, AdmissionInv, NEW c \in Conn, NewSession(c) PROVE AdmissionInv'
<1> DEFINE r == [conn[c] EXCEPT !.at = "open"]
<1>1. conn[c] \in SessionRecord /\ Fits(conn[c])
  BY SessionRow
<1>2. r \in SessionRecord /\ r.at = "open" /\ r.port = conn[c].port /\ r.n = conn[c].n
  BY <1>1 DEF SessionRecord, Stages
<1>3. /\ conn' = [conn EXCEPT ![c] = r] /\ conn[c].at = "accepted"
      /\ UNCHANGED <<slots, sys, pend, usage, accepted, told, lost, reopened>>
  BY DEF NewSession
<1> HIDE DEF r
<1>4. Fits(r)
  BY <1>1, <1>2, <1>3 DEF Fits
<1> QED
  BY <1>2, <1>3, <1>4, GoesOn

\* A connection closed a second time has no slot to give back.
LEMMA CloseAgainKeeps ==
  ASSUME AdmissionBounds, AdmissionInv, NEW c \in Conn, CloseAgain(c) PROVE AdmissionInv'
<1>1. Free \in SessionRecord /\ Free.at = "free" /\ Free.n = 0
  BY SessionRow
<1>2. /\ conn' = [conn EXCEPT ![c] = Free] /\ conn[c].at = "closed"
      /\ UNCHANGED <<slots, sys, pend, usage, accepted, told, lost, reopened>>
  BY DEF CloseAgain
<1>3. Fits(Free)
  BY <1>1 DEF Fits
<1> QED
  BY <1>1, <1>2, <1>3, GoesOn

\* AUTH changes who speaks, and nothing that is counted.
LEMMA AuthKeeps ==
  ASSUME AdmissionBounds, AdmissionInv, NEW c \in Conn, Auth(c) PROVE AdmissionInv'
<1> DEFINE r == [conn[c] EXCEPT !.user = TRUE]
<1>1. conn[c] \in SessionRecord /\ Fits(conn[c])
  BY SessionRow
<1>2. /\ conn' = [conn EXCEPT ![c] = r] /\ conn[c].at = "open"
      /\ UNCHANGED <<slots, sys, pend, usage, accepted, told, lost, reopened>>
  BY DEF Auth
<1>3. r \in SessionRecord /\ r.at = "open" /\ r.port = conn[c].port /\ r.n = conn[c].n
  BY <1>1, <1>2 DEF SessionRecord
<1> HIDE DEF r
<1>4. Fits(r)
  BY <1>1, <1>2, <1>3 DEF Fits
<1> QED
  BY <1>2, <1>3, <1>4, GoesOn

\* The body is stored: nothing is queued or charged yet.
LEMMA StoreBodyKeeps ==
  ASSUME AdmissionBounds, AdmissionInv, NEW c \in Conn, StoreBody(c) PROVE AdmissionInv'
<1> DEFINE r == [conn[c] EXCEPT !.at = "stored"]
<1>1. conn[c] \in SessionRecord /\ Fits(conn[c])
  BY SessionRow
<1>2. /\ conn[c].at = "mail" /\ conn[c].n > 0
      /\ UNCHANGED <<slots, sys, pend, usage, accepted, told, lost, reopened>>
      /\ conn' = [conn EXCEPT ![c] = r] \/ conn' = [conn EXCEPT ![c] = Ended(conn[c])]
  BY DEF StoreBody
<1>3. CASE conn' = [conn EXCEPT ![c] = Ended(conn[c])]
  BY <1>2, <1>3, EndKeeps
<1>4. CASE conn' = [conn EXCEPT ![c] = r]
  <2>1. /\ r \in SessionRecord /\ r.at = "stored" /\ r.port = conn[c].port /\ r.dom = conn[c].dom
        /\ r.n = conn[c].n /\ r.limit = conn[c].limit
    BY <1>1 DEF SessionRecord, Stages
  <2> HIDE DEF r
  <2>2. Fits(r)
    BY <1>1, <1>2, <2>1 DEF Fits
  <2> QED
    BY <1>2, <1>4, <2>1, <2>2, GoesOn
<1> QED
  BY <1>2, <1>3, <1>4

\* The INSERT fails: what was reserved is still charged.
LEMMA EnqueueFailsKeeps ==
  ASSUME AdmissionBounds, AdmissionInv, NEW c \in Conn, EnqueueFails(c) PROVE AdmissionInv'
<1> DEFINE r == [conn[c] EXCEPT !.at = "failed"]
<1>1. conn[c] \in SessionRecord /\ Fits(conn[c])
  BY SessionRow
<1>2. UNCHANGED <<slots, sys, pend, usage, accepted, told, lost, reopened>>
  BY DEF EnqueueFails
<1>3. CASE conn[c].port = "mx"
  <2>1. conn' = [conn EXCEPT ![c] = Ended(conn[c])] /\ conn[c].at = "stored"
    BY <1>3 DEF EnqueueFails, Ready
  <2> QED
    BY <1>2, <2>1, EndKeeps
<1>4. CASE conn[c].port # "mx"
  <2>1. conn' = [conn EXCEPT ![c] = r] /\ conn[c].at = "reserved"
    BY <1>4 DEF EnqueueFails, Ready
  <2>2. /\ r \in SessionRecord /\ r.at = "failed" /\ r.port = conn[c].port /\ r.dom = conn[c].dom
        /\ r.n = conn[c].n /\ r.limit = conn[c].limit /\ r.month = conn[c].month
    BY <1>1 DEF SessionRecord, Stages
  <2> HIDE DEF r
  <2>3. Fits(r)
    BY <1>1, <2>1, <2>2 DEF Fits
  <2> QED
    BY <1>2, <2>1, <2>2, <2>3, GoesOn
<1> QED
  BY <1>3, <1>4

\* One connection more on a port, or one less
LEMMA SlotMoves ==
  ASSUME AdmissionBounds, AdmissionInv, NEW c \in Conn, NEW r \in SessionRecord, conn' = [conn EXCEPT ![c] = r],
         NEW p \in Ports,
         \/ /\ conn[c].at \in {"free", "closed"} /\ r.at \notin {"free", "closed"} /\ r.port = p
            /\ slots[p] < Slots[p] /\ slots' = [slots EXCEPT ![p] = @ + 1]
         \/ /\ conn[c].at \notin {"free", "closed"} /\ conn[c].port = p /\ r.at \in {"free", "closed"}
            /\ slots' = [slots EXCEPT ![p] = @ - 1]
  PROVE  SlotInv' /\ slots' \in [Ports -> Nat]
<1>0. conn'[c] = r /\ \A e \in Conn : e # c => conn'[e] = conn[e]
  BY Moved DEF AdmissionInv
<1>1. /\ slots \in [Ports -> Nat] /\ Slots \in [Ports -> Nat]
      /\ \A q \in Ports : slots[q] = Cardinality(Taken(q)) /\ slots[q] <= Slots[q]
  BY DEF AdmissionInv, AdmissionTypeOK, SlotInv, SlotsAreConnections, AdmissionBounds
<1>2. \A x : x # c => (x \in Taken(p) <=> x \in Taken(p)')
  BY <1>0 DEF Taken, Busy
<1>3. /\ c \in Taken(p) <=> conn[c].at \notin {"free", "closed"} /\ conn[c].port = p
      /\ c \in Taken(p)' <=> r.at \notin {"free", "closed"} /\ r.port = p
  BY <1>0 DEF Taken, Busy
<1>4. IsFiniteSet(Taken(p)) /\ Cardinality(Taken(p)) \in Nat
  BY FiniteSessions
<1>5. /\ Cardinality(Taken(p))' \in Nat
      /\ c \in Taken(p) /\ c \notin Taken(p)' => Cardinality(Taken(p)) = Cardinality(Taken(p))' + 1
      /\ c \in Taken(p)' /\ c \notin Taken(p) => Cardinality(Taken(p))' = Cardinality(Taken(p)) + 1
  BY <1>2, <1>4, OneDiffers
<1>6. \A q \in Ports : q # p => Taken(q)' = Taken(q)
  BY <1>0 DEF Taken, Busy
<1>7. slots'[p] = Cardinality(Taken(p))' /\ slots'[p] <= Slots[p] /\ slots'[p] \in Nat
  BY <1>1, <1>3, <1>4, <1>5
<1>8. \A q \in Ports : q # p => slots'[q] = slots[q]
  BY <1>1
<1>9. DOMAIN slots' = Ports /\ slots' = [q \in Ports |-> slots'[q]]
  BY <1>1
<1>10. \A q \in Ports : slots'[q] = Cardinality(Taken(q))' /\ slots'[q] <= Slots[q] /\ slots'[q] \in Nat
  BY <1>1, <1>6, <1>7, <1>8
<1> QED
  BY <1>9, <1>10 DEF SlotInv, SlotsAreConnections

\* A connection is accepted and has taken a slot.
LEMMA AcceptKeeps ==
  ASSUME AdmissionBounds, AdmissionInv, NEW c \in Conn, NEW p \in Ports, Accept(c, p) PROVE AdmissionInv'
<1> DEFINE r == [Free EXCEPT !.at = "accepted", !.port = p]
<1>1. /\ conn[c].at \in {"free", "closed"} /\ slots[p] < Slots[p] /\ slots' = [slots EXCEPT ![p] = @ + 1]
      /\ conn' = [conn EXCEPT ![c] = r] /\ UNCHANGED <<sys, pend, usage, accepted, told, lost, reopened>>
  BY DEF Accept
<1>2. r \in SessionRecord /\ r.at = "accepted" /\ r.port = p /\ r.n = 0
  BY SessionRow DEF SessionRecord, Stages
<1> HIDE DEF r
<1>3. Fits(r)
  BY <1>2 DEF Fits
<1>4. SlotInv' /\ slots' \in [Ports -> Nat]
  BY <1>1, <1>2, SlotMoves
<1>5. QueueInv' /\ CapInv' /\ UsageInv' /\ TellInv'
  BY <1>1, <1>2, CountsStay
<1>6. AdmissionTypeOK' /\ StageInv'
  BY <1>1, <1>2, <1>3, <1>4, TypesKept, StagesKept DEF AdmissionInv, AdmissionTypeOK, sys
<1> QED
  BY <1>4, <1>5, <1>6 DEF AdmissionInv

\* A connection ends and its slot is given back.
LEMMA CloseKeeps ==
  ASSUME AdmissionBounds, AdmissionInv, NEW c \in Conn, Close(c) PROVE AdmissionInv'
<1> DEFINE r == [conn[c] EXCEPT !.at = "closed"]
           p == conn[c].port
<1>0. conn[c] \in SessionRecord /\ Fits(conn[c])
  BY SessionRow
<1>1. /\ conn[c].at \in {"accepted", "open", "mail"} /\ slots' = [slots EXCEPT ![p] = @ - 1]
      /\ conn' = [conn EXCEPT ![c] = r] /\ UNCHANGED <<sys, pend, usage, accepted, told, lost, reopened>>
  BY DEF Close
<1>2. r \in SessionRecord /\ r.at = "closed" /\ p \in Ports
  BY <1>0, <1>1 DEF SessionRecord, Stages, Fits
<1> HIDE DEF r
<1>3. Fits(r)
  BY <1>2 DEF Fits
<1>4. SlotInv' /\ slots' \in [Ports -> Nat]
  BY <1>1, <1>2, SlotMoves
<1>5. QueueInv' /\ CapInv' /\ UsageInv' /\ TellInv'
  BY <1>1, <1>2, CountsStay
<1>6. AdmissionTypeOK' /\ StageInv'
  BY <1>1, <1>2, <1>3, <1>4, TypesKept, StagesKept DEF AdmissionInv, AdmissionTypeOK, sys
<1> QED
  BY <1>4, <1>5, <1>6 DEF AdmissionInv

\* The limit of the queue: less is queued than it allows, and no more are underway
\* than connections open
LEMMA MailKeeps ==
  ASSUME AdmissionBounds, AdmissionInv, NEW c \in Conn, NEW d \in Domain \union {NoDomain}, Mail(c, d)
  PROVE  AdmissionInv'
<1> DEFINE l == IF d = NoDomain THEN 0 ELSE dom[d].limit
           r == [conn[c] EXCEPT !.at = "mail", !.dom = d, !.limit = l]
<1>0. conn[c] \in SessionRecord /\ Fits(conn[c])
  BY SessionRow
<1>1. /\ conn[c].at = "open" /\ ~Full(c) /\ conn' = [conn EXCEPT ![c] = r]
      /\ IF conn[c].port = "mx" THEN d = NoDomain ELSE d \in Domain
      /\ UNCHANGED <<slots, sys, pend, usage, accepted, told, lost, reopened>>
  BY DEF Mail
<1>2. l \in Limits \union {0} /\ (d \in Domain => l \in Limits /\ l = dom[d].limit)
  <2>1. d \in Domain => dom[d].limit \in Limits
    BY DEF AdmissionInv, AdmissionTypeOK
  <2> QED
    BY <2>1 DEF AdmissionBounds
<1> HIDE DEF l
<1>3. r \in SessionRecord /\ r.at = "mail" /\ r.port = conn[c].port /\ r.dom = d /\ r.n = 0 /\ r.limit = l
  BY <1>0, <1>1, <1>2 DEF SessionRecord, Stages, Fits
<1> HIDE DEF r
<1>4. Fits(r)
  BY <1>0, <1>1, <1>2, <1>3 DEF Fits
<1>5. AdmissionTypeOK' /\ StageInv' /\ SlotInv'
  BY <1>1, <1>3, <1>4, TypesKept, StagesKept, SlotsKept DEF AdmissionInv, AdmissionTypeOK, sys
<1>6. QueueInv'
  <2> DEFINE Opened == {e \in Conn : Busy(e)}
  <2>1. Underway' \in SUBSET Opened
    BY <1>1, Moved DEF Underway, Busy, AdmissionInv
  <2>2. IsFiniteSet(Opened) /\ Cardinality(Opened) \in Nat /\ Cardinality(Opened) <= Cardinality(AllSlots)
    <3>1. IsFiniteSet(Opened)
      BY FS_Subset DEF AdmissionBounds
    <3> QED
      BY <3>1, SlotsBound, FS_CardinalityType DEF AdmissionInv
  <2> HIDE DEF Opened
  <2>3. Cardinality(Underway') \in Nat /\ Cardinality(Underway') <= Cardinality(Opened)
    BY <2>1, <2>2, FS_Subset, FS_CardinalityType
  <2>4. InQueue(Kinds) < MaxMessages /\ MaxMessages \in Nat
    <3>1. ~(InQueue(Kinds) >= MaxMessages) /\ MaxMessages \in Nat
      BY <1>1 DEF Full, Total, AdmissionBounds
    <3> QED
      BY <3>1, SlotsCount
  <2>5. InQueue({"mx", "sub"}) + Cardinality(Underway') < MaxMessages + Cardinality(AllSlots)
    BY <2>2, <2>3, <2>4, SlotsCount
  <2>6. InQueue({"mx", "sub"})' = InQueue({"mx", "sub"})
    BY <1>1 DEF InQueue, Waiting
  <2> QED
    BY <2>5, <2>6 DEF QueueInv, AllSlots
<1>7. CapInv'
  <2>1. pend' \in [Domain -> [Kinds -> Nat]] /\ \A e \in Domain : pend'[e]["mx"] <= pend[e]["mx"]
    BY <1>1 DEF AdmissionInv, AdmissionTypeOK, Kinds
  <2>2. r.port = "mx" => r.dom \notin Domain
    BY <1>1, <1>3 DEF AdmissionBounds
  <2> QED
    BY <1>1, <1>3, <2>1, <2>2, CapKept DEF AdmissionInv
<1>8. UsageInv' /\ TellInv'
  BY <1>1, <1>3, UsageKept, TellKept DEF AdmissionInv, sys
<1> QED
  BY <1>5, <1>6, <1>7, <1>8 DEF AdmissionInv

\* The limit of a domain, likewise
LEMMA RcptKeeps ==
  ASSUME AdmissionBounds, AdmissionInv, NEW c \in Conn, NEW d \in Domain, Rcpt(c, d)
  PROVE  AdmissionInv'
<1> DEFINE r == [conn[c] EXCEPT !.dom = d, !.n = @ + 1]
<1>0. conn[c] \in SessionRecord /\ Fits(conn[c])
  BY SessionRow
<1>1. /\ conn[c].at = "mail" /\ conn[c].n < MaxRcpts /\ conn' = [conn EXCEPT ![c] = r]
      /\ RcptInbound(c, d) \/ RcptOutbound(c, d)
      /\ UNCHANGED <<slots, sys, pend, usage, accepted, told, lost, reopened>>
  BY DEF Rcpt
<1>2. conn[c].n \in Nat /\ conn[c].n + 1 \in 0..MaxRcpts /\ conn[c].n + 1 > 0
  BY <1>0, <1>1 DEF SessionRecord, AdmissionBounds
<1>3. /\ r \in SessionRecord /\ r.at = "mail" /\ r.port = conn[c].port /\ r.dom = d /\ r.n = conn[c].n + 1
      /\ r.limit = conn[c].limit
  BY <1>0, <1>1, <1>2 DEF SessionRecord, Stages
<1> HIDE DEF r
<1>4. Fits(r)
  BY <1>0, <1>1, <1>2, <1>3 DEF Fits, RcptInbound, RcptOutbound
<1>5. AdmissionTypeOK' /\ StageInv' /\ SlotInv'
  BY <1>1, <1>3, <1>4, TypesKept, StagesKept, SlotsKept DEF AdmissionInv, AdmissionTypeOK, sys
<1>6. QueueInv'
  <2>1. InQueue({"mx", "sub"})' = InQueue({"mx", "sub"})
    BY <1>1 DEF InQueue, Waiting
  <2>2. InQueue({"mx", "sub"})' <= InQueue({"mx", "sub"}) /\ InQueue({"mx", "sub"})' \in Nat
    BY <2>1, SlotsCount
  <2> QED
    BY <1>1, <1>3, <2>2, SlotsCount, QueueKept DEF AdmissionInv
<1>7. CapInv'
  <2>0. pend' \in [Domain -> [Kinds -> Nat]] /\ \A e \in Domain : pend'[e]["mx"] <= pend[e]["mx"]
    BY <1>1 DEF AdmissionInv, AdmissionTypeOK, Kinds
  <2>1. CASE RcptOutbound(c, d)
    <3>1. r.port = "sub"
      BY <1>3, <2>1 DEF RcptOutbound
    <3> QED
      BY <1>1, <1>3, <2>0, <3>1, CapKept DEF AdmissionInv
  <2>2. CASE RcptInbound(c, d)
    <3>1. SUFFICES ASSUME "mx" \in Ports, NEW e \in Domain
                   PROVE pend[e]["mx"] + Cardinality(Arriving(e))' < Cap + Slots["mx"]
      BY <1>1 DEF CapInv
    <3>2. Cap \in Nat /\ Slots["mx"] \in Nat /\ pend[e]["mx"] \in Nat /\ pend[e]["sub"] \in Nat /\ pend[e]["dsn"] \in Nat
      <4>1. Slots \in [Ports -> Nat] /\ Cap \in Nat
        BY DEF AdmissionBounds
      <4> QED
        BY <3>1, <4>1 DEF AdmissionInv, AdmissionTypeOK, Kinds
    <3>3. CASE e # d
      <4>1. Arriving(e)' \in SUBSET Arriving(e)
        BY <1>1, <1>3, <3>3, Moved DEF Arriving, AdmissionInv
      <4>2. /\ Cardinality(Arriving(e)) \in Nat /\ Cardinality(Arriving(e))' \in Nat
            /\ Cardinality(Arriving(e))' <= Cardinality(Arriving(e))
        BY <4>1, FiniteSessions, FS_Subset, FS_CardinalityType
      <4>3. pend[e]["mx"] + Cardinality(Arriving(e)) < Cap + Slots["mx"]
        BY <3>1 DEF AdmissionInv, CapInv
      <4> QED
        BY <3>2, <4>2, <4>3
    <3>4. CASE e = d
      <4>1. pend[e]["mx"] < Cap
        BY <2>2, <3>2, <3>4 DEF RcptInbound, Room
      <4>2. Arriving(e)' \in SUBSET Taken("mx")
        BY <1>0, <1>1, <1>3, <2>2, Moved DEF Arriving, Taken, Busy, AdmissionInv, RcptInbound
      <4>3. /\ Cardinality(Taken("mx")) \in Nat /\ Cardinality(Arriving(e))' \in Nat
            /\ Cardinality(Arriving(e))' <= Cardinality(Taken("mx"))
        BY <4>2, FiniteSessions, FS_Subset, FS_CardinalityType
      <4>4. Cardinality(Taken("mx")) <= Slots["mx"]
        BY <3>1 DEF AdmissionInv, SlotInv, SlotsAreConnections
      <4> QED
        BY <3>2, <4>1, <4>3, <4>4
    <3> QED
      BY <3>3, <3>4
  <2> QED
    BY <1>1, <2>1, <2>2
<1>8. UsageInv' /\ TellInv'
  BY <1>1, <1>3, UsageKept, TellKept DEF AdmissionInv, sys
<1> QED
  BY <1>5, <1>6, <1>7, <1>8 DEF AdmissionInv

\* The sends a submission reserves: below the limit, and it is the only one to tell
\* if they reach it
LEMMA ReserveKeeps ==
  ASSUME AdmissionBounds, AdmissionInv, NEW c \in Conn, ReserveSends(c)
  PROVE  AdmissionInv'
<1> DEFINE s == conn[c]
           before == usage[s.dom][month]
           r == [s EXCEPT !.at = "reserved", !.month = month, !.before = before]
<1>0. s \in SessionRecord /\ Fits(s)
  BY SessionRow
<1>1. s.at = "stored" /\ s.port = "sub" /\ UNCHANGED <<slots, sys, pend, accepted, told, lost, reopened>>
  BY DEF ReserveSends
<1>2. s.dom \in Domain /\ s.limit \in Limits /\ s.n \in Nat /\ s.n > 0 /\ month \in Month /\ s.limit \in Nat
  <2>1. s.dom \in Domain /\ s.limit \in Limits /\ s.n > 0
    BY <1>0, <1>1 DEF Fits
  <2>2. s.n \in Nat
    BY <1>0 DEF SessionRecord, AdmissionBounds
  <2>3. month \in Month /\ Limits \subseteq Nat
    BY DEF AdmissionInv, AdmissionTypeOK, AdmissionBounds
  <2> QED
    BY <2>1, <2>2, <2>3
<1>3. CASE conn' = [conn EXCEPT ![c] = Ended(s)] /\ UNCHANGED usage
  BY <1>1, <1>3, EndKeeps
<1>4. CASE /\ before + s.n <= s.limit
           /\ usage' = [usage EXCEPT ![s.dom][month] = @ + s.n]
           /\ conn' = [conn EXCEPT ![c] = r]
  <2>1. before \in Nat
    BY <1>2 DEF AdmissionInv, AdmissionTypeOK, Counter
  <2>2. /\ usage' \in Counter /\ usage'[s.dom][month] = before + s.n
        /\ \A d \in Domain, k \in Month : <<d, k>> # <<s.dom, month>> => usage'[d][k] = usage[d][k]
    BY <1>2, <1>4, <2>1 DEF AdmissionInv, AdmissionTypeOK, Counter
  <2>3. /\ r \in SessionRecord /\ r.at = "reserved" /\ r.port = "sub" /\ r.dom = s.dom /\ r.n = s.n
        /\ r.limit = s.limit /\ r.month = month /\ r.before = before
    BY <1>0, <1>1, <1>2, <2>1 DEF SessionRecord, Stages
  <2> HIDE DEF r
  <2>4. Fits(r)
    BY <1>0, <1>1, <1>2, <2>3 DEF Fits
  <2>5. AdmissionTypeOK' /\ StageInv' /\ SlotInv'
    BY <1>1, <1>4, <2>2, <2>3, <2>4, TypesKept, StagesKept, SlotsKept DEF AdmissionInv, AdmissionTypeOK, sys
  <2>6. QueueInv'
    <3>1. InQueue({"mx", "sub"})' = InQueue({"mx", "sub"})
      BY <1>1 DEF InQueue, Waiting
    <3>2. InQueue({"mx", "sub"})' <= InQueue({"mx", "sub"}) /\ InQueue({"mx", "sub"})' \in Nat
      BY <3>1, SlotsCount
    <3> QED
      BY <1>1, <1>4, <2>3, <3>2, SlotsCount, QueueKept DEF AdmissionInv
  <2>7. CapInv'
    <3>1. pend' \in [Domain -> [Kinds -> Nat]] /\ \A d \in Domain : pend'[d]["mx"] <= pend[d]["mx"]
      BY <1>1 DEF AdmissionInv, AdmissionTypeOK, Kinds
    <3> QED
      BY <1>4, <2>3, <3>1, CapKept DEF AdmissionInv
  <2>8. UsageInv'
    <3>1. SUFFICES ASSUME NEW d \in Domain, NEW k \in Month
                   PROVE  /\ usage'[d][k] = accepted'[d][k] + Cardinality(Charged(d, k))' + lost'[d][k]
                          /\ usage'[d][k] <= Max(Limits)
      BY DEF UsageInv, UsageIsAccounted
    <3>2. /\ usage[d][k] = accepted[d][k] + Cardinality(Charged(d, k)) + lost[d][k]
          /\ usage[d][k] <= Max(Limits)
          /\ usage[d][k] \in Nat /\ accepted[d][k] \in Nat /\ lost[d][k] \in Nat
      BY DEF AdmissionInv, UsageInv, UsageIsAccounted, AdmissionTypeOK, Counter
    <3>3. /\ Cardinality(Charged(d, k)) \in Nat /\ Cardinality(Charged(d, k))' \in Nat
          /\ Share(s, d, k) = 0 /\ Share(r, d, k) \in Nat
          /\ Cardinality(Charged(d, k))' + Share(s, d, k) = Cardinality(Charged(d, k)) + Share(r, d, k)
      <4>1. Share(s, d, k) = 0
        BY <1>1 DEF Share
      <4> QED
        BY <1>4, <2>3, <4>1, ChargesMove DEF AdmissionInv
    <3>4. CASE d = s.dom /\ k = month
      <4>1. Share(r, d, k) = s.n
        BY <2>3, <3>4 DEF Share
      <4>2. usage'[d][k] = usage[d][k] + s.n /\ usage'[d][k] <= s.limit
        BY <1>4, <2>1, <2>2, <3>4
      <4>3. usage'[d][k] <= Max(Limits)
        BY <1>2, <3>2, <4>2, Limited
      <4> QED
        BY <1>1, <1>2, <3>2, <3>3, <4>1, <4>2, <4>3
    <3>5. CASE ~(d = s.dom /\ k = month)
      <4>1. Share(r, d, k) = 0
        BY <2>3, <3>5 DEF Share
      <4>2. usage'[d][k] = usage[d][k]
        BY <2>2, <3>5
      <4> QED
        BY <1>1, <3>2, <3>3, <4>1, <4>2
    <3> QED
      BY <3>4, <3>5
  <2>9. TellInv'
    <3>0. conn'[c] = r /\ \A e \in Conn : e # c => conn'[e] = conn[e]
      BY <1>4, <2>3, Moved DEF AdmissionInv
    <3>1. dom' = dom /\ reopened' = reopened
      BY <1>1 DEF sys
    <3>2. SUFFICES ASSUME NEW d \in Domain, NEW k \in Month, d \notin reopened
                   PROVE  /\ told[d][k] <= 1
                          /\ told[d][k] = 1 => usage'[d][k] >= dom[d].limit
                          /\ \A e \in Conn : Tells(e, d, k)' =>
                                /\ usage'[d][k] >= dom[d].limit /\ told[d][k] = 0
                                /\ \A g \in Conn : Tells(g, d, k)' => g = e
      BY <1>1, <3>1 DEF TellInv
    <3> DEFINE l == dom[d].limit
    <3>3. /\ told[d][k] <= 1 /\ (told[d][k] = 1 => usage[d][k] >= l)
          /\ \A e \in Conn : Tells(e, d, k) => /\ usage[d][k] >= l /\ told[d][k] = 0
                                             /\ \A g \in Conn : Tells(g, d, k) => g = e
      BY <3>2 DEF AdmissionInv, TellInv
    <3>4. usage[d][k] \in Nat /\ usage'[d][k] \in Nat /\ usage'[d][k] >= usage[d][k] /\ l \in Nat /\ told[d][k] \in Nat
      <4>1. usage[d][k] \in Nat /\ told[d][k] \in Nat
        BY DEF AdmissionInv, AdmissionTypeOK, Counter
      <4>2. l \in Nat
        BY DEF AdmissionInv, AdmissionTypeOK, AdmissionBounds
      <4> QED
        BY <1>2, <2>1, <2>2, <4>1, <4>2
    <3>l. d = s.dom => s.limit = l
      BY <1>0, <1>1, <3>2 DEF Fits
    <3> HIDE DEF l
    <3>5. \A e \in Conn : e # c => (Tells(e, d, k)' <=> Tells(e, d, k))
      BY <3>0 DEF Tells, Reaches
    <3>6. ~Tells(c, d, k)
      BY <1>1 DEF Tells
    <3>7. CASE Tells(c, d, k)'
      <4>1. d = s.dom /\ k = month /\ before < l /\ before + s.n >= l
        BY <1>2, <2>3, <3>0, <3>2, <3>7, <3>l DEF Tells, Reaches
      <4>2. usage[d][k] < l /\ usage'[d][k] >= l
        BY <2>2, <4>1
      <4>3. told[d][k] = 0 /\ \A e \in Conn : ~Tells(e, d, k)
        BY <3>3, <3>4, <4>2
      <4>4. \A e \in Conn : Tells(e, d, k)' => e = c
        BY <3>5, <4>3
      <4> QED
        BY <4>2, <4>3, <4>4 DEF l
    <3>8. CASE ~Tells(c, d, k)'
      <4>1. \A e \in Conn : Tells(e, d, k)' => Tells(e, d, k)
        BY <3>5, <3>8
      <4> QED
        BY <3>3, <3>4, <4>1 DEF l
    <3> QED
      BY <3>7, <3>8 DEF l
  <2> QED
    BY <2>5, <2>6, <2>7, <2>8, <2>9 DEF AdmissionInv
<1> QED
  BY <1>3, <1>4 DEF ReserveSends

\* A message is queued: one less is underway, its sends are those accepted
LEMMA EnqueueKeeps ==
  ASSUME AdmissionBounds, AdmissionInv, NEW c \in Conn, Enqueue(c)
  PROVE  AdmissionInv'
<1> DEFINE s == conn[c]
           ks == {"mx", "sub"}
           q == [s EXCEPT !.at = "queued"]
           r == IF s.port = "mx" THEN Ended(s) ELSE q
<1>0. s \in SessionRecord /\ Fits(s)
  BY SessionRow
<1>1. /\ s.at = (IF s.port = "mx" THEN "stored" ELSE "reserved")
      /\ pend' = [pend EXCEPT ![s.dom][s.port] = @ + 1]
      /\ conn' = [conn EXCEPT ![c] = r]
      /\ accepted' = IF s.port = "mx" THEN accepted ELSE [accepted EXCEPT ![s.dom][s.month] = @ + s.n]
      /\ UNCHANGED <<slots, sys, usage, told, lost, reopened>>
  BY DEF Enqueue, Ready
<1>2. s.port \in ks /\ s.dom \in Domain /\ s.n \in Nat /\ s.month \in Month /\ s.port \in Kinds
  <2>1. s.port \in Ports
    BY <1>0, <1>1 DEF Fits
  <2>2. s.port \in ks
    BY <2>1 DEF AdmissionBounds
  <2>3. s.n \in Nat /\ s.month \in Month
    BY <1>0 DEF SessionRecord, AdmissionBounds
  <2>4. s.dom \in Domain
    BY <1>0, <1>1, <2>2, <2>3 DEF Fits
  <2> QED
    BY <2>2, <2>3, <2>4 DEF Kinds
<1>3. /\ pend \in [Domain -> [Kinds -> Nat]] /\ pend' \in [Domain -> [Kinds -> Nat]]
      /\ pend'[s.dom][s.port] = pend[s.dom][s.port] + 1
      /\ \A d \in Domain, k \in Kinds : <<d, k>> # <<s.dom, s.port>> => pend'[d][k] = pend[d][k]
  BY <1>1, <1>2 DEF AdmissionInv, AdmissionTypeOK
<1>4. /\ accepted' \in Counter
      /\ s.port # "mx" => accepted'[s.dom][s.month] = accepted[s.dom][s.month] + s.n
      /\ \A d \in Domain, k \in Month :
            s.port = "mx" \/ <<d, k>> # <<s.dom, s.month>> => accepted'[d][k] = accepted[d][k]
  BY <1>1, <1>2 DEF AdmissionInv, AdmissionTypeOK, Counter
<1>5. /\ r \in SessionRecord /\ r.port = s.port
      /\ s.port = "mx" => r.at = "open" /\ r.n = 0
      /\ s.port # "mx" => /\ r.at = "queued" /\ r.dom = s.dom /\ r.n = s.n /\ r.limit = s.limit
                          /\ r.month = s.month /\ r.before = s.before
  <2>1. CASE s.port = "mx"
    BY <2>1, SessionRow
  <2>2. CASE s.port # "mx"
    BY <1>0, <2>2 DEF SessionRecord, Stages
  <2> QED
    BY <2>1, <2>2
<1> HIDE DEF r
<1>6. Fits(r)
  <2>1. CASE s.port = "mx"
    BY <1>0, <1>1, <1>5, <2>1 DEF Fits
  <2>2. CASE s.port # "mx"
    BY <1>0, <1>1, <1>5, <2>2 DEF Fits
  <2> QED
    BY <2>1, <2>2
<1>7. conn'[c] = r /\ \A e \in Conn : e # c => conn'[e] = conn[e]
  BY <1>1, <1>5, Moved DEF AdmissionInv
<1>8. AdmissionTypeOK' /\ StageInv' /\ SlotInv'
  <2>1. AdmissionTypeOK'
    BY <1>1, <1>3, <1>4, <1>5, TypesKept DEF AdmissionInv, AdmissionTypeOK
  <2>2. StageInv'
    BY <1>1, <1>5, <1>6, StagesKept DEF AdmissionInv, sys
  <2>3. /\ r.at \in {"free", "closed"} <=> conn[c].at \in {"free", "closed"}
        /\ r.at \notin {"free", "closed"} => r.port = conn[c].port
    BY <1>1, <1>5
  <2>4. SlotInv'
    BY <1>1, <1>5, <2>3, SlotsKept DEF AdmissionInv
  <2> QED
    BY <2>1, <2>2, <2>4
<1>9. QueueInv'
  <2>1. InQueue(ks)' = InQueue(ks) + 1
    <3>1. ks \in SUBSET Kinds /\ pend \in [Domain -> [Kinds -> Nat]] /\ s.dom \in Domain /\ s.port \in ks
      BY <1>2, <1>3 DEF Kinds
    <3>0. Longer(pend, pend', s.dom, s.port)
      BY <1>3 DEF Longer
    <3> HIDE DEF s, ks
    <3>2. Cardinality(Places(pend', ks)) = Cardinality(Places(pend, ks)) + 1
      BY <3>0, <3>1, OneMorePlace
    <3> QED
      BY <1>3, <3>1, <3>2, QueueCounts
  <2>2. Cardinality(Underway) \in Nat /\ Cardinality(Underway)' \in Nat /\ Cardinality(Underway) = Cardinality(Underway)' + 1
    <3>1. c \in Underway /\ c \notin Underway' /\ \A x : x # c => (x \in Underway <=> x \in Underway')
      BY <1>1, <1>5, <1>7 DEF Underway
    <3> QED
      BY <3>1, FiniteSessions, OneDiffers
  <2>3. InQueue(ks) + Cardinality(Underway) < MaxMessages + Cardinality(AllSlots)
    BY DEF AdmissionInv, QueueInv
  <2>4. InQueue(ks) \in Nat /\ Cardinality(AllSlots) \in Nat /\ MaxMessages \in Nat
    BY SlotsCount DEF AdmissionBounds
  <2> HIDE DEF ks
  <2>5. InQueue(ks)' + Cardinality(Underway)' < MaxMessages + Cardinality(AllSlots)
    BY <2>1, <2>2, <2>3, <2>4
  <2> QED
    BY <2>5 DEF QueueInv, AllSlots, ks
<1>10. CapInv'
  <2>1. CASE s.port # "mx"
    <3>1. \A d \in Domain : pend'[d]["mx"] = pend[d]["mx"]
      BY <1>3, <2>1 DEF Kinds
    <3>2. \A d \in Domain : pend'[d]["mx"] <= pend[d]["mx"]
      BY <1>3, <3>1 DEF Kinds
    <3> QED
      BY <1>1, <1>3, <1>5, <2>1, <3>2, CapKept DEF AdmissionInv
  <2>2. CASE s.port = "mx"
    <3>1. SUFFICES ASSUME "mx" \in Ports, NEW d \in Domain
                   PROVE pend'[d]["mx"] + Cardinality(Arriving(d))' < Cap + Slots["mx"]
      BY DEF CapInv
    <3>2. pend[d]["mx"] + Cardinality(Arriving(d)) < Cap + Slots["mx"]
      BY <3>1 DEF AdmissionInv, CapInv
    <3>3. \A x : x # c => (x \in Arriving(d) <=> x \in Arriving(d)')
      BY <1>7 DEF Arriving
    <3>4. c \notin Arriving(d)' /\ (c \in Arriving(d) <=> d = s.dom)
      BY <1>1, <1>5, <1>7, <2>2 DEF Arriving
    <3>5. Cap \in Nat /\ Slots["mx"] \in Nat /\ pend[d]["mx"] \in Nat /\ pend'[d]["mx"] \in Nat
      <4>1. Slots \in [Ports -> Nat] /\ Cap \in Nat
        BY DEF AdmissionBounds
      <4> QED
        BY <1>3, <3>1, <4>1 DEF Kinds
    <3>6. /\ Cardinality(Arriving(d)) \in Nat /\ Cardinality(Arriving(d))' \in Nat
          /\ d = s.dom => Cardinality(Arriving(d)) = Cardinality(Arriving(d))' + 1
          /\ d # s.dom => Cardinality(Arriving(d)) = Cardinality(Arriving(d))'
      <4>1. IsFiniteSet(Arriving(d))
        BY FiniteSessions
      <4>2. /\ Cardinality(Arriving(d)) \in Nat /\ Cardinality(Arriving(d))' \in Nat
            /\ c \in Arriving(d) => Cardinality(Arriving(d)) = Cardinality(Arriving(d))' + 1
            /\ c \notin Arriving(d) => Arriving(d)' = Arriving(d)
        BY <3>3, <3>4, <4>1, OneDiffers
      <4> QED
        BY <3>4, <4>2
    <3>7. pend'[d]["mx"] = IF d = s.dom THEN pend[d]["mx"] + 1 ELSE pend[d]["mx"]
      BY <1>3, <2>2 DEF Kinds
    <3> QED
      BY <3>2, <3>5, <3>6, <3>7
  <2> QED
    BY <2>1, <2>2
<1>11. UsageInv'
  <2>1. SUFFICES ASSUME NEW d \in Domain, NEW k \in Month
                 PROVE usage[d][k] = accepted'[d][k] + Cardinality(Charged(d, k))' + lost[d][k]
    BY <1>1 DEF AdmissionInv, UsageInv, UsageIsAccounted
  <2>2. /\ usage[d][k] = accepted[d][k] + Cardinality(Charged(d, k)) + lost[d][k]
        /\ accepted[d][k] \in Nat /\ lost[d][k] \in Nat /\ accepted'[d][k] \in Nat
    BY <1>4 DEF AdmissionInv, UsageInv, UsageIsAccounted, AdmissionTypeOK, Counter
  <2>3. /\ Cardinality(Charged(d, k)) \in Nat /\ Cardinality(Charged(d, k))' \in Nat
        /\ Share(s, d, k) \in Nat /\ Share(r, d, k) = 0
        /\ Cardinality(Charged(d, k))' + Share(s, d, k) = Cardinality(Charged(d, k)) + Share(r, d, k)
    <3>1. Share(r, d, k) = 0
      BY <1>5 DEF Share
    <3> QED
      BY <1>1, <1>5, <3>1, ChargesMove DEF AdmissionInv
  <2>4. accepted'[d][k] = accepted[d][k] + Share(s, d, k)
    <3>1. CASE s.port # "mx" /\ d = s.dom /\ k = s.month
      BY <1>1, <1>4, <3>1 DEF Share
    <3>2. CASE ~(s.port # "mx" /\ d = s.dom /\ k = s.month)
      <4>1. Share(s, d, k) = 0
        BY <1>1, <3>2 DEF Share
      <4>2. accepted'[d][k] = accepted[d][k]
        BY <1>4, <3>2
      <4> QED
        BY <2>2, <4>1, <4>2
    <3> QED
      BY <3>1, <3>2
  <2> QED
    BY <2>2, <2>3, <2>4
<1>12. TellInv'
  <2>1. r.at # "failed" /\ (r.at = "queued" => s.at = "reserved")
    BY <1>1, <1>5
  <2>2. r.at \in {"reserved", "queued"} => /\ s.at \in {"reserved", "queued"} /\ r.dom = s.dom
                                           /\ r.month = s.month /\ r.n = s.n
                                           /\ r.before = s.before /\ r.limit = s.limit
    BY <1>1, <1>5
  <2> QED
    BY <1>1, <1>5, <2>1, <2>2, TellKept DEF AdmissionInv, sys
<1> QED
  BY <1>8, <1>9, <1>10, <1>11, <1>12 DEF AdmissionInv

\* The end of a submission: the row of the session and the limits of the queue
LEMMA SubmissionEnds ==
  ASSUME AdmissionBounds, AdmissionInv, NEW c \in Conn, conn' = [conn EXCEPT ![c] = Ended(conn[c])],
         conn[c].at \in {"failed", "queued"}, UNCHANGED <<slots, sys, pend, accepted>>,
         usage' \in Counter, told' \in Counter, lost' \in Counter,
         reopened \subseteq reopened', reopened' \in SUBSET Domain
  PROVE  /\ AdmissionTypeOK' /\ StageInv' /\ SlotInv' /\ QueueInv' /\ CapInv'
         /\ conn'[c].at = "open" /\ \A e \in Conn : e # c => conn'[e] = conn[e]
<1> DEFINE r == Ended(conn[c])
<1>1. r \in SessionRecord /\ r.at = "open" /\ r.port = conn[c].port /\ r.n = 0 /\ Fits(conn[c])
  BY SessionRow
<1> HIDE DEF r
<1>2. Fits(r)
  BY <1>1 DEF Fits
<1>3. conn' = [conn EXCEPT ![c] = r]
  BY DEF r
<1>4. AdmissionTypeOK' /\ StageInv' /\ SlotInv'
  BY <1>1, <1>2, <1>3, TypesKept, StagesKept, SlotsKept DEF AdmissionInv, AdmissionTypeOK, sys
<1>5. QueueInv'
  <2>1. InQueue({"mx", "sub"})' = InQueue({"mx", "sub"})
    BY DEF InQueue, Waiting
  <2>2. InQueue({"mx", "sub"})' <= InQueue({"mx", "sub"}) /\ InQueue({"mx", "sub"})' \in Nat
    BY <2>1, SlotsCount
  <2> QED
    BY <1>1, <1>3, <2>2, SlotsCount, QueueKept DEF AdmissionInv
<1>6. CapInv'
  <2>1. pend' \in [Domain -> [Kinds -> Nat]] /\ \A d \in Domain : pend'[d]["mx"] <= pend[d]["mx"]
    BY DEF AdmissionInv, AdmissionTypeOK, Kinds
  <2> QED
    BY <1>1, <1>3, <2>1, CapKept DEF AdmissionInv
<1> QED
  BY <1>1, <1>3, <1>4, <1>5, <1>6, Moved DEF AdmissionInv

\* Sends are given back for the month they were charged to, or are lost
LEMMA ReleaseKeeps ==
  ASSUME AdmissionBounds, AdmissionInv, NEW c \in Conn, ReleaseSends(c)
  PROVE  AdmissionInv'
<1> DEFINE s == conn[c]
           r == Ended(s)
<1>0. s \in SessionRecord /\ Fits(s) /\ r \in SessionRecord /\ r.at = "open"
  BY SessionRow
<1>1. /\ s.at = "failed" /\ conn' = [conn EXCEPT ![c] = r] /\ UNCHANGED <<slots, sys, pend, accepted, told>>
      /\ \/ /\ usage' = [usage EXCEPT ![s.dom][s.month] = IF @ > s.n THEN @ - s.n ELSE 0]
            /\ reopened' = reopened \union {s.dom} /\ UNCHANGED lost
         \/ /\ lost' = [lost EXCEPT ![s.dom][s.month] = @ + s.n]
            /\ UNCHANGED <<usage, reopened>>
  BY DEF ReleaseSends
<1>2. s.dom \in Domain /\ s.n \in Nat /\ s.month \in Month
  <2>1. s.dom \in Domain
    BY <1>0, <1>1 DEF Fits
  <2>2. s.n \in Nat /\ s.month \in Month
    BY <1>0 DEF SessionRecord, AdmissionBounds
  <2> QED
    BY <2>1, <2>2
<1> DEFINE u == usage[s.dom][s.month]
<1>3. usage \in Counter /\ lost \in Counter /\ told \in Counter /\ accepted \in Counter
  BY DEF AdmissionInv, AdmissionTypeOK
<1>4. ASSUME NEW d \in Domain, NEW k \in Month
      PROVE  /\ Cardinality(Charged(d, k)) \in Nat /\ Cardinality(Charged(d, k))' \in Nat
             /\ Share(s, d, k) \in Nat
             /\ Cardinality(Charged(d, k))' + Share(s, d, k) = Cardinality(Charged(d, k))
             /\ usage[d][k] = accepted[d][k] + Cardinality(Charged(d, k)) + lost[d][k]
             /\ usage[d][k] <= Max(Limits) /\ Max(Limits) \in Nat
             /\ usage[d][k] \in Nat /\ accepted[d][k] \in Nat /\ lost[d][k] \in Nat
             /\ d = s.dom /\ k = s.month => Share(s, d, k) = s.n
             /\ ~(d = s.dom /\ k = s.month) => Share(s, d, k) = 0
  <2>1. Share(r, d, k) = 0
    BY <1>0 DEF Share
  <2>a. AdmissionTypeOK /\ conn' = [conn EXCEPT ![c] = r] /\ r \in SessionRecord
    BY <1>0, <1>1 DEF AdmissionInv
  <2> HIDE DEF r
  <2>2. /\ Share(s, d, k) \in Nat /\ Share(r, d, k) \in Nat
        /\ Cardinality(Charged(d, k)) \in Nat /\ Cardinality(Charged(d, k))' \in Nat
        /\ Cardinality(Charged(d, k))' + Share(conn[c], d, k) = Cardinality(Charged(d, k)) + Share(r, d, k)
    BY <2>a, ChargesMove
  <2>3. /\ usage[d][k] = accepted[d][k] + Cardinality(Charged(d, k)) + lost[d][k]
        /\ usage[d][k] <= Max(Limits) /\ Max(Limits) \in Nat
    BY Limited DEF AdmissionInv, UsageInv, UsageIsAccounted
  <2>4. usage[d][k] \in Nat /\ accepted[d][k] \in Nat /\ lost[d][k] \in Nat
    BY <1>3 DEF Counter
  <2>5. /\ d = s.dom /\ k = s.month => Share(s, d, k) = s.n
        /\ ~(d = s.dom /\ k = s.month) => Share(s, d, k) = 0
    BY <1>1 DEF Share
  <2> QED
    BY <2>1, <2>2, <2>3, <2>4, <2>5
<1>5. u \in Nat /\ u >= s.n
  BY <1>2, <1>4
<1>6. /\ usage' \in Counter /\ lost' \in Counter
      /\ \A d \in Domain, k \in Month :
            \/ /\ usage'[d][k] = usage[d][k] - Share(s, d, k) /\ lost'[d][k] = lost[d][k]
            \/ /\ lost'[d][k] = lost[d][k] + Share(s, d, k) /\ usage'[d][k] = usage[d][k]
  <2>1. CASE /\ usage' = [usage EXCEPT ![s.dom][s.month] = IF @ > s.n THEN @ - s.n ELSE 0]
             /\ UNCHANGED lost
    <3>1. usage' = [usage EXCEPT ![s.dom][s.month] = u - s.n] /\ u - s.n \in Nat
      <4>1. (IF u > s.n THEN u - s.n ELSE 0) = u - s.n /\ u - s.n \in Nat
        BY <1>2, <1>5
      <4> QED
        BY <2>1, <4>1
    <3>2. /\ usage' \in Counter /\ usage'[s.dom][s.month] = u - s.n
          /\ \A d \in Domain, k \in Month : ~(d = s.dom /\ k = s.month) => usage'[d][k] = usage[d][k]
      BY <1>2, <1>3, <3>1 DEF Counter
    <3>3. ASSUME NEW d \in Domain, NEW k \in Month PROVE usage'[d][k] = usage[d][k] - Share(s, d, k)
      <4>1. CASE d = s.dom /\ k = s.month
        BY <1>4, <3>2, <4>1
      <4>2. CASE ~(d = s.dom /\ k = s.month)
        <5>1. usage'[d][k] = usage[d][k] /\ Share(s, d, k) = 0 /\ usage[d][k] \in Nat
          BY <1>4, <3>2, <4>2
        <5> QED
          BY <5>1
      <4> QED
        BY <4>1, <4>2
    <3> QED
      BY <1>3, <2>1, <3>2, <3>3
  <2>2. CASE /\ lost' = [lost EXCEPT ![s.dom][s.month] = @ + s.n]
             /\ UNCHANGED usage
    <3>1. lost[s.dom][s.month] + s.n \in Nat
      BY <1>2, <1>3 DEF Counter
    <3>2. /\ lost' \in Counter /\ lost'[s.dom][s.month] = lost[s.dom][s.month] + s.n
          /\ \A d \in Domain, k \in Month : ~(d = s.dom /\ k = s.month) => lost'[d][k] = lost[d][k]
      BY <1>2, <1>3, <2>2, <3>1 DEF Counter
    <3>3. ASSUME NEW d \in Domain, NEW k \in Month PROVE lost'[d][k] = lost[d][k] + Share(s, d, k)
      BY <1>4, <3>2
    <3> QED
      BY <1>3, <2>2, <3>2, <3>3
  <2> QED
    BY <1>1, <2>1, <2>2
<1>7. AdmissionTypeOK' /\ StageInv' /\ SlotInv' /\ QueueInv' /\ CapInv' /\ \A e \in Conn : e # c => conn'[e] = conn[e]
  <2>1. reopened \subseteq reopened' /\ reopened' \in SUBSET Domain
    BY <1>1, <1>2 DEF AdmissionInv, AdmissionTypeOK
  <2> QED
    BY <1>1, <1>3, <1>6, <2>1, SubmissionEnds
<1>8. UsageInv'
  <2>1. ASSUME NEW d \in Domain, NEW k \in Month
        PROVE  /\ usage'[d][k] = accepted'[d][k] + Cardinality(Charged(d, k))' + lost'[d][k]
               /\ usage'[d][k] <= Max(Limits)
    <3> HIDE DEF s, r, u
    <3> QED
      BY <1>1, <1>4, <1>6
  <2> QED
    BY <2>1 DEF UsageInv, UsageIsAccounted
<1>9. TellInv'
  <2>1. conn'[c] = r /\ dom' = dom /\ told' = told /\ reopened \subseteq reopened'
    BY <1>0, <1>1, Moved DEF AdmissionInv, sys
  <2>2. \A d \in Domain \ reopened' : \A k \in Month : usage'[d][k] = usage[d][k]
    BY <1>1, <1>2, <1>3 DEF Counter
  <2>3. \A e \in Conn, d \in Domain, k \in Month : Tells(e, d, k)' => Tells(e, d, k)
    BY <1>0, <1>7, <2>1 DEF Tells, Reaches
  <2> QED
    BY <2>1, <2>2, <2>3 DEF AdmissionInv, TellInv
<1> QED
  BY <1>7, <1>8, <1>9 DEF AdmissionInv

\* The event is recorded by the one submission that has to
LEMMA LimitReachedKeeps ==
  ASSUME AdmissionBounds, AdmissionInv, NEW c \in Conn, LimitReached(c)
  PROVE  AdmissionInv'
<1> DEFINE s == conn[c]
           r == Ended(s)
<1>0. s \in SessionRecord /\ Fits(s) /\ r \in SessionRecord /\ r.at = "open"
  BY SessionRow
<1>1. /\ s.at = "queued" /\ conn' = [conn EXCEPT ![c] = r]
      /\ told' = IF Reaches(s) THEN [told EXCEPT ![s.dom][s.month] = @ + 1] ELSE told
      /\ UNCHANGED <<slots, sys, pend, usage, accepted, lost, reopened>>
  BY DEF LimitReached
<1>2. s.dom \in Domain /\ s.month \in Month
  BY <1>0, <1>1 DEF Fits, SessionRecord
<1>3. usage \in Counter /\ lost \in Counter /\ told \in Counter /\ accepted \in Counter
  BY DEF AdmissionInv, AdmissionTypeOK
<1>4. /\ told' \in Counter
      /\ \A d \in Domain, k \in Month :
            told'[d][k] = IF Reaches(s) /\ d = s.dom /\ k = s.month THEN told[d][k] + 1 ELSE told[d][k]
  <2>1. CASE Reaches(s)
    BY <1>1, <1>2, <1>3, <2>1 DEF Counter
  <2>2. CASE ~Reaches(s)
    BY <1>1, <1>3, <2>2
  <2> QED
    BY <2>1, <2>2
<1>5. /\ AdmissionTypeOK' /\ StageInv' /\ SlotInv' /\ QueueInv' /\ CapInv'
      /\ conn'[c].at = "open" /\ \A e \in Conn : e # c => conn'[e] = conn[e]
  BY <1>1, <1>3, <1>4, SubmissionEnds DEF AdmissionInv, AdmissionTypeOK
<1>6. UsageInv'
  <2> HIDE DEF r
  <2> QED
    BY <1>0, <1>1, UsageKept DEF AdmissionInv
<1>7. TellInv'
  <2>1. dom' = dom /\ reopened' = reopened
    BY <1>1 DEF sys
  <2>2. SUFFICES ASSUME NEW d \in Domain, NEW k \in Month, d \notin reopened
                 PROVE  /\ told'[d][k] <= 1
                        /\ told'[d][k] = 1 => usage[d][k] >= dom[d].limit
                        /\ \A e \in Conn : Tells(e, d, k)' =>
                              /\ usage[d][k] >= dom[d].limit /\ told'[d][k] = 0
                              /\ \A g \in Conn : Tells(g, d, k)' => g = e
    BY <1>1, <2>1 DEF TellInv
  <2> DEFINE l == dom[d].limit
  <2>3. /\ told[d][k] <= 1 /\ (told[d][k] = 1 => usage[d][k] >= l)
        /\ \A e \in Conn : Tells(e, d, k) => /\ usage[d][k] >= l /\ told[d][k] = 0
                                           /\ \A g \in Conn : Tells(g, d, k) => g = e
    BY <2>2 DEF AdmissionInv, TellInv
  <2>4. ~Tells(c, d, k)' /\ \A e \in Conn : Tells(e, d, k)' => e # c /\ Tells(e, d, k)
    BY <1>5 DEF Tells, Reaches
  <2>5. Tells(c, d, k) <=> Reaches(s) /\ d = s.dom /\ k = s.month
    BY <1>1 DEF Tells
  <2>6. CASE Tells(c, d, k)
    <3>1. told[d][k] = 0 /\ usage[d][k] >= l /\ told'[d][k] = 1 /\ \A e \in Conn : ~Tells(e, d, k)'
      BY <1>4, <2>3, <2>4, <2>5, <2>6
    <3> QED
      BY <3>1
  <2>7. CASE ~Tells(c, d, k)
    <3>1. told'[d][k] = told[d][k]
      BY <1>4, <2>5, <2>7
    <3> QED
      BY <2>3, <2>4, <3>1
  <2> QED
    BY <2>6, <2>7
<1> QED
  BY <1>5, <1>6, <1>7 DEF AdmissionInv

\* Every step of a session keeps the invariant.
LEMMA SessionKeeps ==
  ASSUME AdmissionBounds, AdmissionInv, NEW c \in Conn, Session(c)
  PROVE  AdmissionInv'
<1>1. ASSUME NEW p \in Ports, Accept(c, p) PROVE AdmissionInv'
  BY <1>1, AcceptKeeps
<1>2. ASSUME NewSession(c) \/ Close(c) \/ CloseAgain(c) \/ Auth(c) \/ StoreBody(c) PROVE AdmissionInv'
  BY <1>2, NewSessionKeeps, CloseKeeps, CloseAgainKeeps, AuthKeeps, StoreBodyKeeps
<1>3. ASSUME NEW d \in Domain \union {NoDomain}, Mail(c, d) PROVE AdmissionInv'
  BY <1>3, MailKeeps
<1>4. ASSUME NEW d \in Domain, Rcpt(c, d) PROVE AdmissionInv'
  BY <1>4, RcptKeeps
<1>5. ASSUME DataSteps(c) PROVE AdmissionInv'
  BY <1>5, ReserveKeeps, EnqueueKeeps, EnqueueFailsKeeps, ReleaseKeeps, LimitReachedKeeps DEF DataSteps
<1> QED
  BY <1>1, <1>2, <1>3, <1>4, <1>5 DEF Session

-----------------------------------------------------------------------------
(* The rest of the system.                                                 *)

\* No session moves, and the queues of what the listeners let in do not grow
LEMMA SessionsRest ==
  ASSUME AdmissionBounds, AdmissionInv, UNCHANGED <<conn, slots, usage, accepted, told, lost>>,
         reopened \subseteq reopened', \A d \in Domain \ reopened' : dom'[d].limit = dom[d].limit,
         pend' \in [Domain -> [Kinds -> Nat]],
         \A d \in Domain : pend'[d]["mx"] <= pend[d]["mx"] /\ pend'[d]["sub"] <= pend[d]["sub"]
  PROVE  StageInv' /\ SlotInv' /\ QueueInv' /\ CapInv' /\ UsageInv' /\ TellInv'
<1>1. pend \in [Domain -> [Kinds -> Nat]]
  BY DEF AdmissionInv, AdmissionTypeOK
<1>2. StageInv' /\ SlotInv'
  <2>1. ASSUME NEW c \in Conn PROVE Fits(conn[c])'
    <3>1. Fits(conn[c])
      BY DEF AdmissionInv, StageInv
    <3> QED
      BY <3>1 DEF Fits
  <2>2. StageInv'
    BY <2>1 DEF StageInv
  <2> QED
    BY <2>2 DEF AdmissionInv, SlotInv, SlotsAreConnections, Taken, Busy
<1>3. UsageInv' /\ TellInv'
  <2>1. UsageInv'
    BY DEF AdmissionInv, UsageInv, UsageIsAccounted, Charged, Reserving
  <2>2. \A c \in Conn, d \in Domain, k \in Month : Tells(c, d, k)' <=> Tells(c, d, k)
    BY DEF Tells
  <2>3. TellInv'
    BY <2>2 DEF AdmissionInv, TellInv
  <2> QED
    BY <2>1, <2>3
<1>4. QueueInv'
  <2> DEFINE ks == {"mx", "sub"}
  <2>1. \A d \in Domain, k \in ks : pend'[d][k] <= pend[d][k]
    OBVIOUS
  <2>2. ks \in SUBSET Kinds
    BY DEF Kinds
  <2>3. Cardinality(Places(pend', ks)) <= Cardinality(Places(pend, ks))
    BY <1>1, <2>1, <2>2, FewerPlaces
  <2>4. Cardinality(Places(pend', ks)) \in Nat
    BY <2>2, FinitePlaces
  <2>5. InQueue(ks)' <= InQueue(ks) /\ InQueue(ks)' \in Nat
    BY <1>1, <2>2, <2>3, <2>4, QueueCounts
  <2> HIDE DEF ks
  <2>6. InQueue(ks) + Cardinality(Underway) < MaxMessages + Cardinality(AllSlots)
    BY DEF AdmissionInv, QueueInv, ks
  <2>7. /\ InQueue(ks) \in Nat /\ Cardinality(Underway) \in Nat /\ Cardinality(AllSlots) \in Nat
        /\ MaxMessages \in Nat
    BY SlotsCount, FiniteSessions DEF AdmissionBounds, ks
  <2>8. InQueue(ks)' + Cardinality(Underway) < MaxMessages + Cardinality(AllSlots)
    BY <2>5, <2>6, <2>7
  <2>9. Underway' = Underway /\ AllSlots' = AllSlots
    BY DEF Underway, AllSlots
  <2> QED
    BY <2>8, <2>9 DEF QueueInv, ks
<1>5. CapInv'
  <2>1. SUFFICES ASSUME "mx" \in Ports, NEW d \in Domain
                 PROVE pend'[d]["mx"] + Cardinality(Arriving(d)) < Cap + Slots["mx"]
    BY DEF CapInv, Arriving
  <2>2. pend[d]["mx"] + Cardinality(Arriving(d)) < Cap + Slots["mx"]
    BY <2>1 DEF AdmissionInv, CapInv
  <2>3. Cap \in Nat /\ Slots["mx"] \in Nat /\ pend[d]["mx"] \in Nat /\ pend'[d]["mx"] \in Nat
    <3>1. Slots \in [Ports -> Nat] /\ Cap \in Nat
      BY DEF AdmissionBounds
    <3> QED
      BY <1>1, <2>1, <3>1 DEF Kinds
  <2>4. Cardinality(Arriving(d)) \in Nat /\ pend'[d]["mx"] <= pend[d]["mx"]
    BY FiniteSessions
  <2> QED
    BY <2>2, <2>3, <2>4
<1> QED
  BY <1>2, <1>3, <1>4, <1>5

\* The delivery loop takes a message off the queue or adds a bounce to it.
LEMMA QueueMoves ==
  ASSUME AdmissionBounds, AdmissionInv, NEW d \in Domain, NEW k \in Kinds, Deliver(d, k) \/ Bounce(d, k)
  PROVE  AdmissionInv'
<1>0. pend \in [Domain -> [Kinds -> Nat]] /\ "mx" \in Kinds /\ "sub" \in Kinds /\ "dsn" \in Kinds
  BY DEF AdmissionInv, AdmissionTypeOK, Kinds
<1>1. /\ UNCHANGED <<conn, slots, usage, accepted, told, lost, reopened>> /\ UNCHANGED <<draining, lowDisk, dom, account, month, crashes>>
      /\ bounces' \in 0..MaxBounces
      /\ \E left \in 0..1 : /\ pend[d][k] > 0
                            /\ \/ pend' = [pend EXCEPT ![d][k] = @ - 1]
                               \/ k # "dsn" /\ pend' = [pend EXCEPT ![d][k] = @ - left, ![d]["dsn"] = @ + 1]
  <2>1. CASE Deliver(d, k)
    BY <2>1 DEF Deliver, sys, AdmissionInv, AdmissionTypeOK
  <2>2. CASE Bounce(d, k)
    <3>1. bounces \in 0..MaxBounces /\ MaxBounces \in Nat
      BY DEF AdmissionInv, AdmissionTypeOK, AdmissionBounds
    <3>2. bounces' \in 0..MaxBounces
      BY <2>2, <3>1 DEF Bounce
    <3>3. /\ UNCHANGED <<conn, slots, usage, accepted, told, lost, reopened>>
          /\ UNCHANGED <<draining, lowDisk, dom, account, month, crashes>>
          /\ k # "dsn" /\ pend[d][k] > 0
          /\ \E left \in 0..1 : pend' = [pend EXCEPT ![d][k] = @ - left, ![d]["dsn"] = @ + 1]
      BY <2>2 DEF Bounce
    <3> QED
      BY <3>2, <3>3
  <2> QED
    BY <2>1, <2>2
<1>2. PICK left \in 0..1 : /\ pend[d][k] > 0
                           /\ \/ pend' = [pend EXCEPT ![d][k] = @ - 1]
                              \/ k # "dsn" /\ pend' = [pend EXCEPT ![d][k] = @ - left, ![d]["dsn"] = @ + 1]
  BY <1>1
<1>3. /\ pend' \in [Domain -> [Kinds -> Nat]]
      /\ \A e \in Domain : pend'[e]["mx"] <= pend[e]["mx"] /\ pend'[e]["sub"] <= pend[e]["sub"]
  <2>1. CASE pend' = [pend EXCEPT ![d][k] = @ - 1]
    <3>1. pend[d][k] - 1 \in Nat /\ pend[d][k] - 1 <= pend[d][k]
      BY <1>0, <1>2
    <3>2. /\ pend'[d][k] = pend[d][k] - 1
          /\ \A j \in Kinds : j # k => pend'[d][j] = pend[d][j]
          /\ \A e \in Domain : e # d => pend'[e] = pend[e]
          /\ pend' = [e \in Domain |-> [j \in Kinds |-> pend'[e][j]]]
      BY <1>0, <2>1
    <3>3. \A e \in Domain, j \in Kinds : pend'[e][j] \in Nat
      BY <1>0, <3>1, <3>2
    <3> QED
      BY <1>0, <3>1, <3>2, <3>3
  <2>2. CASE k # "dsn" /\ pend' = [pend EXCEPT ![d][k] = @ - left, ![d]["dsn"] = @ + 1]
    <3>1. pend[d][k] - left \in Nat /\ pend[d]["dsn"] + 1 \in Nat /\ pend[d][k] - left <= pend[d][k]
      BY <1>0, <1>2
    <3>2. /\ pend'[d][k] = pend[d][k] - left /\ pend'[d]["dsn"] = pend[d]["dsn"] + 1
          /\ \A j \in Kinds : j # k /\ j # "dsn" => pend'[d][j] = pend[d][j]
          /\ \A e \in Domain : e # d => pend'[e] = pend[e]
          /\ pend' = [e \in Domain |-> [j \in Kinds |-> pend'[e][j]]]
      BY <1>0, <2>2
    <3>3. \A e \in Domain, j \in Kinds : pend'[e][j] \in Nat
      BY <1>0, <3>1, <3>2
    <3> QED
      BY <1>0, <3>1, <3>2, <3>3
  <2> QED
    BY <1>2, <2>1, <2>2
<1>4. AdmissionTypeOK'
  BY <1>1, <1>3 DEF AdmissionInv, AdmissionTypeOK
<1>5. reopened \subseteq reopened' /\ \A e \in Domain \ reopened' : dom'[e].limit = dom[e].limit
  BY <1>1
<1> QED
  BY <1>1, <1>3, <1>4, <1>5, SessionsRest DEF AdmissionInv

\* Sessions that a crash ends leave what they have charged to be lost
LEMMA OperatorsKeep == ASSUME AdmissionBounds, AdmissionInv, Operators PROVE AdmissionInv'
<1>1. UNCHANGED <<pend, bounces, usage, accepted, told>>
  BY DEF Operators
<1>2. CASE SetDraining \/ DiskChanges \/ UpdateAccount \/ NextMonth \/ \E d \in Domain : UpdateDomain(d)
  <2>1. UNCHANGED <<conn, crashes, lost>>
    BY <1>2 DEF SetDraining, DiskChanges, UpdateAccount, NextMonth, UpdateDomain
  <2>2. UNCHANGED slots
    BY <2>1 DEF Operators
  <2>3. /\ draining' \in BOOLEAN /\ lowDisk' \in BOOLEAN /\ account' \in BOOLEAN /\ month' \in Month
        /\ dom' \in [Domain -> [on : BOOLEAN, limit : Limits]] /\ reopened' \in SUBSET Domain
        /\ reopened \subseteq reopened' /\ \A d \in Domain \ reopened' : dom'[d].limit = dom[d].limit
    <3>0. /\ draining \in BOOLEAN /\ lowDisk \in BOOLEAN /\ account \in BOOLEAN /\ month \in Month
          /\ dom \in [Domain -> [on : BOOLEAN, limit : Limits]] /\ MaxMonth \in Nat
          /\ reopened \in SUBSET Domain
      BY DEF AdmissionInv, AdmissionTypeOK, AdmissionBounds
    <3>1. CASE SetDraining
      BY <3>0, <3>1 DEF SetDraining
    <3>2. CASE DiskChanges
      BY <3>0, <3>2 DEF DiskChanges
    <3>3. CASE UpdateAccount
      BY <3>0, <3>3 DEF UpdateAccount
    <3>4. CASE NextMonth
      BY <3>0, <3>4 DEF NextMonth, Month
    <3>5. ASSUME NEW d \in Domain, UpdateDomain(d)
          PROVE  /\ UNCHANGED <<draining, lowDisk, account, month>>
                 /\ dom' \in [Domain -> [on : BOOLEAN, limit : Limits]] /\ reopened' \in SUBSET Domain
                 /\ reopened \subseteq reopened'
                 /\ \A e \in Domain \ reopened' : dom'[e].limit = dom[e].limit
      <4>1. CASE (\E l \in Limits : dom' = [dom EXCEPT ![d].limit = l]) /\ reopened' = reopened \union {d}
        BY <3>0, <3>5, <4>1 DEF UpdateDomain
      <4>2. CASE dom' = [dom EXCEPT ![d].on = ~@] /\ UNCHANGED reopened
        BY <3>0, <3>5, <4>2 DEF UpdateDomain
      <4> QED
        BY <3>5, <4>1, <4>2 DEF UpdateDomain
    <3> QED
      <4>1. CASE \E d \in Domain : UpdateDomain(d)
        BY <3>0, <3>5, <4>1
      <4> QED
        BY <1>2, <3>1, <3>2, <3>3, <3>4, <4>1
  <2>4. AdmissionTypeOK'
    BY <1>1, <2>1, <2>2, <2>3 DEF AdmissionInv, AdmissionTypeOK
  <2>5. /\ pend' \in [Domain -> [Kinds -> Nat]]
        /\ \A d \in Domain : pend'[d]["mx"] <= pend[d]["mx"] /\ pend'[d]["sub"] <= pend[d]["sub"]
    BY <1>1 DEF AdmissionInv, AdmissionTypeOK, Kinds
  <2> QED
    BY <1>1, <2>1, <2>2, <2>3, <2>4, <2>5, SessionsRest DEF AdmissionInv
<1>3. CASE Crash
  <2>0. /\ crashes' = crashes + 1 /\ crashes < MaxCrashes /\ crashes \in 0..MaxCrashes /\ MaxCrashes \in Nat
        /\ lost' = [d \in Domain |-> [k \in Month |-> lost[d][k] + Cardinality(Charged(d, k))]]
        /\ conn' = [c \in Conn |-> Free] /\ draining' = FALSE /\ UNCHANGED <<lowDisk, dom, account, month, reopened>>
    BY <1>3 DEF Crash, AdmissionInv, AdmissionTypeOK, AdmissionBounds
  <2>1. crashes' # crashes /\ crashes' \in 0..MaxCrashes
    BY <2>0
  <2>2. slots' = [p \in Ports |-> 0]
    BY <2>1 DEF Operators
  <2>3. Free \in SessionRecord /\ Free.at = "free" /\ Free.n = 0
    BY DEF Free, SessionRecord, Stages, AdmissionBounds, Month
  <2>4. /\ conn' \in [Conn -> SessionRecord] /\ \A c \in Conn : conn'[c] = Free
    BY <2>0, <2>3
  <2>5. \A d \in Domain, k \in Month : /\ Cardinality(Charged(d, k)) \in Nat /\ lost[d][k] \in Nat
                                       /\ lost'[d][k] = lost[d][k] + Cardinality(Charged(d, k))
    <3>1. \A d \in Domain, k \in Month : Cardinality(Charged(d, k)) \in Nat
      BY FiniteCharges DEF AdmissionInv
    <3> QED
      BY <2>0, <3>1 DEF AdmissionInv, AdmissionTypeOK, Counter
  <2>6. lost' \in Counter
    BY <2>0, <2>5 DEF Counter
  <2>7. AdmissionTypeOK'
    <3>1. slots' \in [Ports -> Nat]
      BY <2>2
    <3> QED
      BY <1>1, <2>0, <2>1, <2>4, <2>6, <3>1 DEF AdmissionInv, AdmissionTypeOK
  <2>8. StageInv'
    BY <2>3, <2>4 DEF StageInv, Fits
  <2>9. SlotInv'
    <3>1. \A p \in Ports : Taken(p)' = {}
      BY <2>3, <2>4 DEF Taken, Busy
    <3>2. Cardinality({}) = 0
      BY FS_EmptySet
    <3>3. \A p \in Ports : slots'[p] = 0 /\ 0 <= Slots[p]
      <4>1. Slots \in [Ports -> Nat]
        BY DEF AdmissionBounds
      <4> QED
        BY <2>2, <4>1
    <3> QED
      BY <3>1, <3>2, <3>3 DEF SlotInv, SlotsAreConnections
  <2>10. QueueInv'
    <3>1. Underway' = {} /\ Cardinality({}) = 0
      BY <2>3, <2>4, FS_EmptySet DEF Underway
    <3>2. InQueue({"mx", "sub"})' = InQueue({"mx", "sub"})
      BY <1>1 DEF InQueue, Waiting
    <3>3. InQueue({"mx", "sub"}) < MaxMessages + Cardinality(AllSlots)
      <4>1. /\ InQueue({"mx", "sub"}) + Cardinality(Underway) < MaxMessages + Cardinality(AllSlots)
            /\ MaxMessages \in Nat
        BY DEF AdmissionInv, QueueInv, AdmissionBounds
      <4> QED
        BY <4>1, SlotsCount, FiniteSessions
    <3>4. InQueue({"mx", "sub"})' + 0 < MaxMessages + Cardinality(AllSlots)
      BY <3>2, <3>3, SlotsCount
    <3> QED
      BY <3>1, <3>4 DEF QueueInv, AllSlots
  <2>11. CapInv'
    <3>1. SUFFICES ASSUME "mx" \in Ports, NEW d \in Domain
                   PROVE pend[d]["mx"] + Cardinality(Arriving(d)') < Cap + Slots["mx"]
      BY <1>1 DEF CapInv
    <3>2. Arriving(d)' = {} /\ Cardinality({}) = 0
      BY <2>3, <2>4, FS_EmptySet DEF Arriving
    <3>3. pend[d]["mx"] + Cardinality(Arriving(d)) < Cap + Slots["mx"] /\ Cardinality(Arriving(d)) \in Nat
      BY <3>1, FiniteSessions DEF AdmissionInv, CapInv
    <3>4. Cap \in Nat /\ Slots["mx"] \in Nat /\ pend[d]["mx"] \in Nat
      <4>1. Slots \in [Ports -> Nat] /\ Cap \in Nat
        BY DEF AdmissionBounds
      <4> QED
        BY <3>1, <4>1 DEF AdmissionInv, AdmissionTypeOK, Kinds
    <3>5. Cardinality(Arriving(d)') = 0
      BY <3>2
    <3> QED
      BY <3>3, <3>4, <3>5
  <2>12. UsageInv'
    <3>1. ASSUME NEW d \in Domain, NEW k \in Month
          PROVE usage'[d][k] = accepted'[d][k] + Cardinality(Charged(d, k)') + lost'[d][k]
      <4>1. Charged(d, k)' = {}
        BY <2>3, <2>4 DEF Charged, Reserving
      <4>2. Cardinality(Charged(d, k)') = 0
        BY <4>1, FS_EmptySet
      <4>3. /\ usage[d][k] = accepted[d][k] + Cardinality(Charged(d, k)) + lost[d][k]
            /\ accepted[d][k] \in Nat
        BY DEF AdmissionInv, UsageInv, UsageIsAccounted, AdmissionTypeOK, Counter
      <4>4. Cardinality(Charged(d, k)) \in Nat /\ lost[d][k] \in Nat /\ lost'[d][k] = lost[d][k] + Cardinality(Charged(d, k))
        BY <2>5
      <4> QED
        BY <1>1, <4>2, <4>3, <4>4
    <3> QED
      BY <1>1, <3>1 DEF AdmissionInv, UsageInv, UsageIsAccounted
  <2>13. TellInv'
    <3>1. \A c \in Conn, d \in Domain, k \in Month : ~Tells(c, d, k)'
      BY <2>3, <2>4 DEF Tells
    <3> QED
      BY <1>1, <2>0, <3>1 DEF AdmissionInv, TellInv
  <2> QED
    BY <2>7, <2>8, <2>9, <2>10, <2>11, <2>12, <2>13 DEF AdmissionInv
<1> QED
  BY <1>2, <1>3 DEF Operators

-----------------------------------------------------------------------------
(* The theorems.                                                           *)

\* The invariant holds when the listeners start.
LEMMA InitAdmission == AdmissionBounds /\ AdmissionInit => AdmissionInv
<1> SUFFICES ASSUME AdmissionBounds, AdmissionInit PROVE AdmissionInv
  OBVIOUS
<1>0. /\ Free \in SessionRecord /\ Free.at = "free" /\ Free.n = 0
      /\ conn = [c \in Conn |-> Free] /\ \A c \in Conn : conn[c] = Free
      /\ slots = [p \in Ports |-> 0] /\ Slots \in [Ports -> Nat]
  BY DEF AdmissionInit, Free, SessionRecord, Stages, AdmissionBounds, Month
<1>c. {MaxMessages, MaxBytes, Cap, MaxRcpts, MaxMonth} \subseteq Nat \ {0} /\ {MaxBounces, MaxCrashes} \subseteq Nat
  BY DEF AdmissionBounds
<1>e. Cardinality({}) = 0
  BY FS_EmptySet
<1>1. AdmissionTypeOK
  <2>1. Zero \in Counter
    BY DEF Zero, Counter
  <2>2. [d \in Domain |-> [k \in Kinds |-> 0]] \in [Domain -> [Kinds -> Nat]]
    OBVIOUS
  <2>3. 0 \in 0..MaxBounces /\ 0 \in 0..MaxCrashes /\ 1 \in Month
    BY <1>c DEF Month
  <2>4. dom \in [Domain -> [on : BOOLEAN, limit : Limits]]
    BY DEF AdmissionInit
  <2> QED
    <3>1. conn \in [Conn -> SessionRecord] /\ slots \in [Ports -> Nat]
      BY <1>0
    <3>2. /\ draining \in BOOLEAN /\ lowDisk \in BOOLEAN /\ account \in BOOLEAN
          /\ pend \in [Domain -> [Kinds -> Nat]] /\ bounces \in 0..MaxBounces
          /\ month \in Month /\ crashes \in 0..MaxCrashes /\ reopened \in SUBSET Domain
      BY <2>2, <2>3 DEF AdmissionInit
    <3>3. usage \in Counter /\ accepted \in Counter /\ told \in Counter /\ lost \in Counter
      BY <2>1 DEF AdmissionInit
    <3> QED
      BY <2>4, <3>1, <3>2, <3>3 DEF AdmissionTypeOK
<1>2. StageInv
  BY <1>0 DEF StageInv, Fits
<1>3. SlotInv
  <2>1. \A p \in Ports : Taken(p) = {}
    BY <1>0 DEF Taken, Busy
  <2> QED
    BY <1>0, <1>e, <2>1 DEF SlotInv, SlotsAreConnections
<1>4. QueueInv
  <2>1. Underway = {}
    BY <1>0 DEF Underway
  <2>2. InQueue({"mx", "sub"}) = 0
    <3>1. \A w \in Domain \X {"mx", "sub"} : pend[w[1]][w[2]] = 0
      BY DEF AdmissionInit, Kinds
    <3>2. \A w \in Domain \X {"mx", "sub"} : {w} \X (1..pend[w[1]][w[2]]) = {}
      BY <3>1
    <3>3. Waiting({"mx", "sub"}) = {}
      BY <3>2 DEF Waiting
    <3> QED
      BY <1>e, <3>3 DEF InQueue
  <2>3. Cardinality(AllSlots) \in Nat
    BY <1>1, <1>2, <1>3, SlotsBound
  <2>4. MaxMessages \in Nat /\ MaxMessages > 0
    BY <1>c
  <2> QED
    BY <1>e, <2>1, <2>2, <2>3, <2>4 DEF QueueInv
<1>5. CapInv
  <2> SUFFICES ASSUME "mx" \in Ports, NEW d \in Domain
               PROVE  pend[d]["mx"] + Cardinality(Arriving(d)) < Cap + Slots["mx"]
    BY DEF CapInv
  <2>1. Arriving(d) = {}
    BY <1>0 DEF Arriving
  <2>2. pend[d]["mx"] = 0 /\ Slots["mx"] \in Nat /\ Cap \in Nat /\ Cap > 0
    <3>1. pend[d]["mx"] = 0
      BY DEF AdmissionInit, Kinds
    <3>2. Slots["mx"] \in Nat
      BY <1>0
    <3> QED
      BY <1>c, <3>1, <3>2
  <2> QED
    BY <1>e, <2>1, <2>2
<1>6. UsageInv
  <2> SUFFICES ASSUME NEW d \in Domain, NEW k \in Month
               PROVE  /\ usage[d][k] = accepted[d][k] + Cardinality(Charged(d, k)) + lost[d][k]
                      /\ usage[d][k] <= Max(Limits)
    BY DEF UsageInv, UsageIsAccounted
  <2>1. usage[d][k] = 0 /\ accepted[d][k] = 0 /\ lost[d][k] = 0
    BY DEF AdmissionInit, Zero
  <2>2. Charged(d, k) = {}
    BY <1>0 DEF Charged, Reserving
  <2> QED
    BY <1>e, <2>1, <2>2, Limited
<1>7. TellInv
  <2>1. \A d \in Domain, k \in Month : told[d][k] = 0 /\ \A c \in Conn : ~Tells(c, d, k)
    BY <1>0 DEF AdmissionInit, Zero, Tells
  <2> QED
    BY <1>0, <2>1 DEF TellInv
<1> QED
  BY <1>1, <1>2, <1>3, <1>4, <1>5, <1>6, <1>7 DEF AdmissionInv

\* The invariant is kept by every step.
LEMMA NextAdmission ==
  AdmissionBounds /\ AdmissionInv /\ [AdmissionNext]_vars => AdmissionInv'
<1> SUFFICES ASSUME AdmissionBounds, AdmissionInv, [AdmissionNext]_vars PROVE AdmissionInv'
  OBVIOUS
<1>1. CASE \E c \in Conn : Session(c)
  BY <1>1, SessionKeeps
<1>2. CASE \E d \in Domain, k \in Kinds : Deliver(d, k) \/ Bounce(d, k)
  BY <1>2, QueueMoves
<1>3. CASE Operators
  BY <1>3, OperatorsKeep
<1>4. CASE UNCHANGED vars
  <2>1. /\ UNCHANGED <<conn, slots, usage, accepted, told, lost, reopened>> /\ pend' = pend
        /\ UNCHANGED <<draining, lowDisk, dom, account, month, crashes, bounces>>
    BY <1>4 DEF vars
  <2>2. AdmissionTypeOK'
    BY <2>1 DEF AdmissionInv, AdmissionTypeOK
  <2>3. /\ pend' \in [Domain -> [Kinds -> Nat]]
        /\ \A d \in Domain : pend'[d]["mx"] <= pend[d]["mx"] /\ pend'[d]["sub"] <= pend[d]["sub"]
    BY <2>1 DEF AdmissionInv, AdmissionTypeOK, Kinds
  <2> QED
    BY <2>1, <2>2, <2>3, SessionsRest DEF AdmissionInv
<1> QED
  BY <1>1, <1>2, <1>3, <1>4 DEF AdmissionNext

\* The sessions, the counters and the queues keep their types, and what the code
\* relies on without looking holds at every stage: a message is charged, queued or
\* told of only by a session that holds a token, has a recipient and a domain
\* (smtpd.go, submission.go: Mail, Rcpt, Data; netlimit.go)
THEOREM AdmissionInvariant == AdmissionBounds => (AdmissionSpec => []AdmissionInv)
<1> SUFFICES ASSUME AdmissionBounds PROVE AdmissionSpec => []AdmissionInv
  OBVIOUS
<1>1. AdmissionInit => AdmissionInv
  BY InitAdmission
<1>2. AdmissionInv /\ [AdmissionNext]_vars => AdmissionInv'
  BY NextAdmission
<1> QED
  BY <1>1, <1>2, PTL DEF AdmissionSpec

\* The limits that are checked at MAIL and RCPT and used up at the end of DATA are
\* passed by less than the sessions that can be open, and the tokens that bound the
\* sessions are the connections that are open, however often one is closed and
\* whatever the other sessions do in between (smtpd.go, submission.go; netlimit.go)
THEOREM OvershootBounded == AdmissionBounds => (AdmissionSpec => []OvershootIsBounded)
<1> SUFFICES ASSUME AdmissionBounds PROVE AdmissionSpec => []OvershootIsBounded
  OBVIOUS
<1>1. AdmissionInv => OvershootIsBounded
  <2> SUFFICES ASSUME AdmissionInv PROVE OvershootIsBounded
    OBVIOUS
  <2>1. SlotsAreConnections
    BY DEF AdmissionInv, SlotInv
  <2>2. QueueOvershootIsBounded
    <3>1. InQueue({"mx", "sub"}) + Cardinality(Underway) < MaxMessages + Cardinality(AllSlots) /\ MaxMessages \in Nat
      BY DEF AdmissionInv, QueueInv, AdmissionBounds
    <3>2. Cardinality(Underway) \in Nat
      BY FiniteSessions
    <3> QED
      BY <3>1, <3>2, SlotsCount DEF QueueOvershootIsBounded
  <2>3. CapOvershootIsBounded
    <3> SUFFICES ASSUME "mx" \in Ports, NEW d \in Domain PROVE pend[d]["mx"] < Cap + Slots["mx"]
      BY DEF CapOvershootIsBounded
    <3>1. pend[d]["mx"] + Cardinality(Arriving(d)) < Cap + Slots["mx"] /\ Cardinality(Arriving(d)) \in Nat
      BY FiniteSessions DEF AdmissionInv, CapInv
    <3>2. Slots \in [Ports -> Nat] /\ Cap \in Nat /\ pend[d]["mx"] \in Nat
      BY DEF AdmissionBounds, AdmissionInv, AdmissionTypeOK, Kinds
    <3> QED
      BY <3>1, <3>2
  <2> QED
    BY <2>1, <2>2, <2>3 DEF OvershootIsBounded
<1> QED
  BY <1>1, AdmissionInvariant, PTL

\* No interleaving of submissions, of crashes and of changes of the limits gets more
\* recipients accepted in a month than the highest limit set; the counter is what was
\* queued, what is about to be, and what a crash or a failed release left behind; and
\* the limit is reported once (ReserveSends, ReleaseSends; submission.go, Data)
THEOREM SendsAccounted == AdmissionBounds => (AdmissionSpec => []SendsAreAccounted)
<1> SUFFICES ASSUME AdmissionBounds PROVE AdmissionSpec => []SendsAreAccounted
  OBVIOUS
<1>1. AdmissionInv => SendsAreAccounted
  <2> SUFFICES ASSUME AdmissionInv PROVE SendsAreAccounted
    OBVIOUS
  <2>1. UsageIsAccounted
    BY DEF AdmissionInv, UsageInv
  <2>2. LimitHolds
    <3> SUFFICES ASSUME NEW d \in Domain, NEW k \in Month PROVE accepted[d][k] <= Max(Limits)
      BY DEF LimitHolds
    <3>1. /\ usage[d][k] = accepted[d][k] + Cardinality(Charged(d, k)) + lost[d][k]
          /\ usage[d][k] <= Max(Limits)
      BY DEF AdmissionInv, UsageInv, UsageIsAccounted
    <3>2. accepted[d][k] \in Nat /\ lost[d][k] \in Nat
      BY DEF AdmissionInv, AdmissionTypeOK, Counter
    <3>3. Cardinality(Charged(d, k)) \in Nat
      BY FiniteCharges DEF AdmissionInv
    <3>4. Max(Limits) \in Nat
      BY Limited
    <3> QED
      BY <3>1, <3>2, <3>3, <3>4
  <2>3. ToldOnce
    BY DEF ToldOnce, AdmissionInv, TellInv
  <2> QED
    BY <2>1, <2>2, <2>3 DEF SendsAreAccounted
<1> QED
  BY <1>1, AdmissionInvariant, PTL
==============================================================================
