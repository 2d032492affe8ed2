------------------------------- MODULE Filters -------------------------------
(***************************************************************************)
(* Content filters: the filters table and its handlers (api/filters.go,    *)
(* store/filters.go), the set of rules in memory (filter/filter.go), which *)
(* requests and the sweep reload, and the sessions of port 25 that walk    *)
(* through it.  A pattern is the set of messages it matches: one that does *)
(* not compile is skipped by Load, as the empty set is.                    *)
(***************************************************************************)
EXTENDS Naturals, Sequences, FiniteSets

CONSTANTS Id,          \* ids of filters, never reused
          Pattern,     \* sets of messages
          Action,      \* subset of {"reject", "quarantine", "allow"}
          Priority,
          Admin,       \* administrators with a request under way
          Session,     \* messages being received
          Sweep,       \* the goroutine of Run
          MaxChanges,  \* bound: changes to the table
          MaxRestarts, \* bound: restarts
          MaxFails     \* bound: reads of the table that fail

FiltersBounds ==
    /\ Sweep \notin Admin /\ Id \subseteq Nat /\ Priority \subseteq Nat
    /\ IsFiniteSet(Id) /\ IsFiniteSet(Session)

VARIABLES table,    \* [Id -> row, or NoFilter]
          matches,  \* [Id -> match_count]
          lastId,   \* AUTOINCREMENT
          rules,    \* Set.rules
          load,     \* [Admin, Sweep -> the rules a Load has read]
          req,      \* [Admin -> where the request is, and the row and count it read]
          walk,     \* [Session -> the evaluation of its message]
          tables,   \* the tables there have been, in order
          inForce,  \* the index of the table the rules are from, 0 after a start
          changes, restarts, fails

reqVars == <<load, req>>
bounds == <<changes, restarts, fails>>
vars == <<table, matches, lastId, rules, reqVars, walk, tables, inForce, bounds>>

Loaders == Admin \union {Sweep}
NoFilter == [id |-> 0, prio |-> 0, match |-> {}, action |-> "none", on |-> FALSE]
NoLoad == [at |-> "no", rules |-> <<>>, of |-> 0]
NoReq == [at |-> "no", row |-> NoFilter, count |-> 0]
NoWalk == [at |-> "no", rules |-> <<>>, of |-> 0, next |-> 1, verdict |-> NoFilter]

FiltersInit ==
    /\ table = [i \in Id |-> NoFilter] /\ lastId = 0 /\ rules = <<>>
    /\ matches = [i \in Id |-> 0]
    /\ load = [l \in Loaders |-> NoLoad] /\ req = [a \in Admin |-> NoReq]
    /\ walk = [s \in Session |-> NoWalk]
    /\ tables = <<table>> /\ inForce = 0
    /\ changes = 0 /\ restarts = 0 /\ fails = 0

-----------------------------------------------------------------------------
(* The table.                                                              *)

Filter == [id : Id, prio : Priority, match : Pattern, action : Action, on : BOOLEAN]

Before(f, g) == f.prio < g.prio \/ (f.prio = g.prio /\ f.id < g.id)

Active(t) == {f \in {t[i] : i \in Id} : f # NoFilter /\ f.on}

\* ListFilters and the loop of Load: enabled rows by priority and id.
Compiled(t) == CHOOSE s \in [1..Cardinality(Active(t)) -> Active(t)] :
                   \A i, j \in DOMAIN s : i < j => Before(s[i], s[j])

Save(t) ==
    /\ changes < MaxChanges /\ changes' = changes + 1
    /\ table' = t /\ tables' = Append(tables, t)
    /\ UNCHANGED <<rules, walk, inForce, restarts, fails>>

\* Every handler that has saved reloads the set before it answers.
Saved(a) == /\ req' = [req EXCEPT ![a] = [NoReq EXCEPT !.at = "saved"]]
            /\ load' = [load EXCEPT ![a] = [NoLoad EXCEPT !.at = "list"]]

CreateFilter(a, i, f) ==
    /\ req[a].at \in {"no", "answered"} /\ i = lastId + 1 /\ lastId' = i
    /\ f.id = i /\ Save([table EXCEPT ![i] = f]) /\ Saved(a)
    /\ UNCHANGED matches

\* handleUpdateFilter reads the row, and writes every column of it back with
\* the changes of the request, but for the count of its matches.
ReadFilter(a, i) ==
    /\ req[a].at \in {"no", "answered"} /\ table[i] # NoFilter
    /\ req' = [req EXCEPT ![a] = [at |-> "read", row |-> table[i], count |-> matches[i]]]
    /\ UNCHANGED <<table, matches, lastId, rules, load, walk, tables, inForce, bounds>>

UpdateFilter(a, f) ==
    /\ req[a].at = "read" /\ f.id = req[a].row.id /\ table[f.id] # NoFilter
    /\ Save([table EXCEPT ![f.id] = f]) /\ Saved(a)
    /\ UNCHANGED <<matches, lastId>>

\* The row is gone by now: the request fails, and does not reload.
UpdateMissing(a) ==
    /\ req[a].at = "read" /\ table[req[a].row.id] = NoFilter
    /\ req' = [req EXCEPT ![a] = NoReq]
    /\ UNCHANGED <<table, matches, lastId, rules, load, walk, tables, inForce, bounds>>

DeleteFilter(a, i) ==
    /\ req[a].at \in {"no", "answered"} /\ table[i] # NoFilter
    /\ Save([table EXCEPT ![i] = NoFilter]) /\ Saved(a)
    /\ UNCHANGED <<matches, lastId>>

-----------------------------------------------------------------------------
(* Load: the table is read first, the rules are replaced later.            *)

ListFilters(l) ==
    /\ load[l].at = "list"
    /\ load' = [load EXCEPT ![l] = [at |-> "install", rules |-> Compiled(table), of |-> Len(tables)]]
    /\ UNCHANGED <<table, matches, lastId, rules, req, walk, tables, inForce, bounds>>

\* A request whose reload fails is answered as well; the sweep tries again.
Answer(l) == IF l = Sweep THEN req ELSE [req EXCEPT ![l].at = "answered"]

ListFails(l) ==
    /\ load[l].at = "list" /\ fails < MaxFails /\ fails' = fails + 1
    /\ load' = [load EXCEPT ![l] = NoLoad] /\ req' = Answer(l)
    /\ UNCHANGED <<table, matches, lastId, rules, walk, tables, inForce, changes, restarts>>

Install(l) ==
    /\ load[l].at = "install"
    /\ rules' = load[l].rules /\ inForce' = load[l].of
    /\ load' = [load EXCEPT ![l] = NoLoad] /\ req' = Answer(l)
    /\ UNCHANGED <<table, matches, lastId, walk, tables, bounds>>

\* Mutant: the sweep loads only what is empty
TickOnce ==
    /\ load[Sweep].at = "no" /\ rules = <<>>
    /\ load' = [load EXCEPT ![Sweep] = [NoLoad EXCEPT !.at = "list"]]
    /\ UNCHANGED <<table, matches, lastId, rules, req, walk, tables, inForce, bounds>>

\* Run loads at the start and on every tick of its 30 seconds.
Tick ==
    /\ load[Sweep].at = "no"
    /\ load' = [load EXCEPT ![Sweep] = [NoLoad EXCEPT !.at = "list"]]
    /\ UNCHANGED <<table, matches, lastId, rules, req, walk, tables, inForce, bounds>>

\* The listeners do not wait for the first load.
Restart ==
    /\ restarts < MaxRestarts /\ restarts' = restarts + 1
    /\ rules' = <<>> /\ inForce' = 0
    /\ load' = [l \in Loaders |-> NoLoad] /\ req' = [a \in Admin |-> NoReq]
    /\ walk' = [s \in Session |-> IF walk[s].at = "done" THEN walk[s] ELSE NoWalk]
    /\ UNCHANGED <<table, matches, lastId, tables, changes, fails>>

-----------------------------------------------------------------------------
(* Evaluate: the slice is taken under the lock, and walked without it.     *)

BeginWalk(s) ==
    /\ walk[s].at = "no"
    /\ walk' = [walk EXCEPT ![s] = [NoWalk EXCEPT !.at = "walk", !.rules = rules, !.of = inForce]]
    /\ UNCHANGED <<table, matches, lastId, rules, reqVars, tables, inForce, bounds>>

\* Mutant: a session walks through the rules of the moment
RuleOfNow(s) == rules

RulesOf(s) == walk[s].rules

Step(s) ==
    /\ walk[s].at = "walk"
    /\ LET n == walk[s].next IN
       walk' = [walk EXCEPT ![s] =
          IF n > Len(RulesOf(s)) THEN [@ EXCEPT !.at = "done"]
          ELSE IF s \in RulesOf(s)[n].match
               THEN [@ EXCEPT !.at = IF RulesOf(s)[n].action = "allow" THEN "done" ELSE "count",
                              !.verdict = RulesOf(s)[n]]
          ELSE [@ EXCEPT !.next = n + 1]]
    /\ UNCHANGED <<table, matches, lastId, rules, reqVars, tables, inForce, bounds>>

\* RecordFilterMatch, for what was refused or held; the filter may be gone.
RecordFilterMatch(s) ==
    /\ walk[s].at = "count"
    /\ LET i == walk[s].verdict.id IN
       matches' = IF table[i] = NoFilter THEN matches ELSE [matches EXCEPT ![i] = @ + 1]
    /\ walk' = [walk EXCEPT ![s].at = "done"]
    /\ UNCHANGED <<table, lastId, rules, reqVars, tables, inForce, bounds>>

FiltersNext ==
    \/ \E a \in Admin : \/ \E f \in Filter : UpdateFilter(a, f) \/ CreateFilter(a, f.id, f)
                        \/ \E i \in Id : ReadFilter(a, i) \/ DeleteFilter(a, i)
                        \/ UpdateMissing(a)
    \/ \E l \in Loaders : ListFilters(l) \/ ListFails(l) \/ Install(l)
    \/ Tick \/ Restart
    \/ \E s \in Session : BeginWalk(s) \/ Step(s) \/ RecordFilterMatch(s)

FiltersSpec == FiltersInit /\ [][FiltersNext]_vars

\* What is fair, besides Tick: a load that has begun goes on.
Loads(l) == ListFilters(l) \/ Install(l)

-----------------------------------------------------------------------------
(* Properties.                                                             *)

\* The row of a table that decides about a message: of those that match it the
\* one with the least priority, of several the oldest.
Decides(t, s) ==
    LET m == {f \in Active(t) : s \in f.match} IN
    IF m = {} THEN NoFilter ELSE CHOOSE f \in m : \A g \in m : g = f \/ Before(f, g)

\* A verdict is that of one table as it was when the rules in force at the
\* beginning of the evaluation were read, never a mixture of two, although the
\* rules are replaced while sessions walk through them.
VerdictsAreOfOneTable ==
    \A s \in Session : walk[s].at \in {"count", "done"} =>
        walk[s].verdict = IF walk[s].of = 0 THEN NoFilter ELSE Decides(tables[walk[s].of], s)

\* Matches are not lost when filters are edited while mail is received: the count
\* of a filter is the number of messages it has refused or held.
MatchesAreCounted ==
    \A i \in Id : table[i] # NoFilter =>
        matches[i] = Cardinality({s \in Session : walk[s].at = "done" /\ walk[s].verdict.id = i
                                                        /\ walk[s].verdict.action # "allow"})

\* A verdict of the filters is that of one table, although the rules are replaced
\* while sessions walk through them, and no match is lost when filters are edited
\* while mail is received (filter.go, Evaluate, Load; UpdateFilter).
FiltersAreConsistent == VerdictsAreOfOneTable /\ MatchesAreCounted

\* Whatever loads overtake each other or fail, and after a restart, the filters in
\* force settle on the table once nobody changes it any more.
FiltersSettle == <>[](rules = Compiled(table))

-----------------------------------------------------------------------------
(* Why they hold: the inductive invariant of the safety properties.        *)

Row == Filter \union {NoFilter}
FilterTypes ==
    /\ table \in [Id -> Row] /\ matches \in [Id -> Nat] /\ lastId \in Nat
    /\ tables \in Seq([Id -> Row]) /\ tables # <<>> /\ table = tables[Len(tables)]
    /\ inForce \in 0..Len(tables)
    /\ load \in [Loaders -> [at : {"no", "list", "install"}, rules : Seq(Row), of : Nat]]
    /\ walk \in [Session -> [at : {"no", "walk", "count", "done"}, rules : Seq(Row), of : Nat,
                             next : Nat, verdict : Row]]

\* An id is that of one row for ever, in every table there has been.
KeysInv == \A k \in DOMAIN tables, i \in Id :
               tables[k][i] # NoFilter => tables[k][i].id = i /\ i \in 1..lastId

\* What is in force, what a Load has read and what a session walks through are the
\* rules of one table each.
RulesOfTable(ts, k) == IF k = 0 THEN <<>> ELSE Compiled(ts[k])
LoadInv ==
    /\ rules = RulesOfTable(tables, inForce)
    /\ \A l \in Loaders : load[l].at = "install" =>
          load[l].of \in DOMAIN tables /\ load[l].rules = RulesOfTable(tables, load[l].of)

\* The rules before the next one do not match, and the verdict is one that does.
WalkInv ==
    \A s \in Session : walk[s].at # "no" =>
        LET w == walk[s] IN
        /\ w.of \in 0..Len(tables) /\ w.rules = RulesOfTable(tables, w.of) /\ w.next \in 1..(Len(w.rules) + 1)
        /\ w.at = "walk" => w.verdict = NoFilter /\ \A n \in 1..(w.next - 1) : s \notin w.rules[n].match
        /\ w.verdict # NoFilter => w.verdict.id \in 1..lastId
        /\ w.at = "count" => w.verdict # NoFilter /\ w.verdict.action # "allow"

\* Nothing is counted yet for an id that was not given.
CountInv == \A i \in Id : i > lastId => matches[i] = 0

FilterInv == /\ FilterTypes /\ KeysInv /\ LoadInv /\ WalkInv /\ CountInv
             /\ VerdictsAreOfOneTable /\ MatchesAreCounted
==============================================================================
