------------------------------- MODULE Routing -------------------------------
(***************************************************************************)
(* Per-destination routes: the handlers of api/outbound.go, RouteFor of    *)
(* store/outbound.go, and the delivery loop that picks the path of an      *)
(* attempt.  A destination is the sequence of its labels; a pattern with a *)
(* leading dot (sub) matches the destinations below its labels.            *)
(***************************************************************************)
EXTENDS Naturals, Sequences, FiniteSets, SequencesExt

CONSTANTS Id,          \* ids of routes, never reused
          Label,       \* labels of names
          Pattern,     \* what routes may be configured for
          Path,        \* relays, and "direct"
          Global,      \* the path of the global outbound settings
          Admin,       \* administrators with a PATCH under way
          Mail,        \* submitted messages
          Envelopes,   \* envelopes they may have: sequences of destinations
          MaxChanges,  \* bound: changes to the table
          MaxErrors    \* bound: reads of the table that fail

RoutingBounds ==
    /\ Id \subseteq Nat \ {0} /\ {MaxChanges, MaxErrors} \subseteq Nat
    /\ Pattern \subseteq [sub : BOOLEAN, labels : Seq(Label) \ {<<>>}]
    /\ Envelopes \subseteq Seq(Seq(Label) \ {<<>>})

VARIABLES routes,    \* [Id -> row, or NoRoute]
          lastId,    \* AUTOINCREMENT
          patch,     \* [Admin -> the row a PATCH read, or NoRoute]
          envelope,  \* [Mail -> the destinations of its recipients]
          todo,      \* [Mail -> positions of those still to be served]
          left,      \* where recipients left: destination, path, path due, table unread
          changes, errors

vars == <<routes, lastId, patch, envelope, todo, left, changes, errors>>

NoRoute == [id |-> 0, to |-> <<>>, path |-> Global, on |-> FALSE]

RoutingInit ==
    /\ routes = [i \in Id |-> NoRoute] /\ patch = [a \in Admin |-> NoRoute]
    /\ envelope \in [Mail -> Envelopes] /\ todo = [m \in Mail |-> DOMAIN envelope[m]]
    /\ lastId = 0 /\ left = {} /\ changes = 0 /\ errors = 0

-----------------------------------------------------------------------------
(* RouteFor.                                                               *)

Rows == {routes[i] : i \in Id} \ {NoRoute}

\* routeMatches
Matches(p, dest) ==
    IF p.sub THEN IsSuffix(p.labels, dest) /\ p.labels # dest ELSE p.labels = dest

\* len of the text, with a dot between labels and in front of a subdomain pattern.
\* Patterns that match the same destination are suffixes of the same text, so
\* that counting one character for a label orders them as their lengths do.
TextLen(p) == 2 * Len(p.labels) - (IF p.sub THEN 0 ELSE 1)

Candidates(dest) == {r \in Rows : r.on /\ Matches(r.to, dest)}

\* Mutant: the shortest pattern wins
RouteForShortest(dest) ==
    IF Candidates(dest) = {} THEN NoRoute
    ELSE CHOOSE r \in Candidates(dest) : \A q \in Candidates(dest) : TextLen(r.to) <= TextLen(q.to)

\* The longest enabled pattern that matches, NoRoute when there is none.
RouteFor(dest) ==
    IF Candidates(dest) = {} THEN NoRoute
    ELSE CHOOSE r \in Candidates(dest) : \A q \in Candidates(dest) : TextLen(r.to) >= TextLen(q.to)

-----------------------------------------------------------------------------
(* Administrators.                                                         *)

Change == changes < MaxChanges /\ changes' = changes + 1
Taken(to, i) == \E r \in Rows : r.to = to /\ r.id # i

\* A second route for a destination is refused (UNIQUE).
CreateRoute(i, to, path) ==
    /\ i = lastId + 1 /\ lastId' = i
    /\ ~Taken(to, i) /\ Change
    /\ routes' = [routes EXCEPT ![i] = [id |-> i, to |-> to, path |-> path, on |-> TRUE]]
    /\ UNCHANGED <<patch, envelope, todo, left, errors>>

ReadRoute(a, i) ==
    /\ patch[a] = NoRoute /\ routes[i] # NoRoute
    /\ patch' = [patch EXCEPT ![a] = routes[i]]
    /\ UNCHANGED <<routes, lastId, envelope, todo, left, changes, errors>>

\* UpdateRoute writes every column, from the row that was read and the request;
\* it fails for a row that is gone and for a destination that is taken.
WriteRoute(a, row) ==
    /\ patch[a] # NoRoute /\ Change /\ row.id = patch[a].id
    /\ Cardinality({f \in {"to", "path", "on"} : row[f] # patch[a][f]}) = 1
    /\ routes' = IF routes[row.id] = NoRoute \/ Taken(row.to, row.id) THEN routes
                 ELSE [routes EXCEPT ![row.id] = row]
    /\ patch' = [patch EXCEPT ![a] = NoRoute]
    /\ UNCHANGED <<lastId, envelope, todo, left, errors>>

DeleteRoute(i) ==
    /\ routes[i] # NoRoute /\ Change
    /\ routes' = [routes EXCEPT ![i] = NoRoute]
    /\ UNCHANGED <<lastId, patch, envelope, todo, left, errors>>

-----------------------------------------------------------------------------
(* The delivery loop.                                                      *)

PathOf(r) == IF r = NoRoute THEN Global ELSE r.path

\* routeFor: the route of the first recipient stands for the message; when the
\* table cannot be read the global settings do.
RouteOfMail(m) == PathOf(RouteFor(envelope[m][Min(todo[m])]))

\* The path a destination should take: a route of its own, otherwise the one for
\* the nearest domain above it, otherwise the global path.
Due(dest) ==
    LET exact == {r \in Rows : r.on /\ ~r.to.sub /\ r.to.labels = dest}
        above == {r \in Rows : r.on /\ r.to.sub /\ \E k \in 2..Len(dest) :
                                  r.to.labels = SubSeq(dest, k, Len(dest))}
        nearest == {r \in above : \A q \in above : Len(q.to.labels) <= Len(r.to.labels)}
    IN IF exact # {} THEN (CHOOSE r \in exact : TRUE).path
       ELSE IF nearest # {} THEN (CHOOSE r \in nearest : TRUE).path
       ELSE Global

Leave(m, served, path, unread) ==
    /\ left' = left \union {[to |-> envelope[m][k], path |-> path, due |-> Due(envelope[m][k]),
                             unread |-> unread] : k \in served}
    /\ todo' = [todo EXCEPT ![m] = @ \ served]

\* One attempt: some of the recipients are served, the rest stays in order for
\* a later attempt.
SendOutbound(m) ==
    /\ \E served \in (SUBSET todo[m]) \ {{}} :
          \/ /\ Leave(m, served, RouteOfMail(m), FALSE) /\ UNCHANGED errors
          \/ /\ errors < MaxErrors /\ errors' = errors + 1
             /\ Leave(m, served, Global, TRUE)
    /\ UNCHANGED <<routes, lastId, patch, envelope, changes>>

RoutingNext ==
    \/ \E i \in Id : \/ \E to \in Pattern, path \in Path : CreateRoute(i, to, path)
                     \/ DeleteRoute(i)
    \/ \E a \in Admin : \/ \E i \in Id : ReadRoute(a, i)
                        \/ \E row \in [id : Id, to : Pattern, path : Path, on : BOOLEAN] : WriteRoute(a, row)
    \/ \E m \in Mail : SendOutbound(m)

RoutingSpec == RoutingInit /\ [][RoutingNext]_vars

-----------------------------------------------------------------------------
(* Properties.                                                             *)

\* What the first recipient is due, the others are due as well.
OneDestinationEach == \A e \in Envelopes : \A j, k \in DOMAIN e : e[j] = e[k]

\* Every recipient leaves on the path its own destination is due at that moment,
\* whatever routes overlap and whoever changes them, the table being readable ("A
\* route overrides the global outbound path for one destination ... The most
\* specific match wins").
OnItsRoute == \A x \in left : x.unread \/ x.path = x.due

\* No two routes are for the same destination, so that which one applies does
\* not depend on the order of the table.
OneRouteEach == \A q, r \in Rows : q.to = r.to => q = r

-----------------------------------------------------------------------------
(* Invariant.                                                              *)

Route == [id : Id, to : Pattern, path : Path, on : BOOLEAN]

RoutingTypeOK ==
    /\ routes \in [Id -> Route \union {NoRoute}] /\ patch \in [Admin -> Route \union {NoRoute}]
    /\ envelope \in [Mail -> Envelopes]
    /\ \A m \in Mail : todo[m] \subseteq DOMAIN envelope[m]

\* A row stands under its own id.
RoutingInv ==
    /\ RoutingTypeOK
    /\ \A i \in Id : routes[i] # NoRoute => routes[i].id = i
    /\ OneRouteEach
    /\ OneDestinationEach => OnItsRoute
==============================================================================
