---------------------------- MODULE ClusterProofs ----------------------------
(***************************************************************************)
(* What synchronisation between nodes does to their configurations, for    *)
(* any nodes, domains, peers, roles and configurations to begin with.      *)
(* Rounds carry what they read through several steps; the invariants say   *)
(* of each of these steps what it still knows about the databases.         *)
(***************************************************************************)
EXTENDS Cluster, TLAPS

Ways == {"sync", "api"}
Roles == {"primary", "follower"}

-----------------------------------------------------------------------------
(* The invariants.                                                         *)

\* A row, an answer on its way, the call it is part of and a round; a node that
\* calls itself primary has been one.
RowOf(m, r) ==
  /\ r = [role |-> r.role, hash |-> r.hash, age |-> r.age]
  /\ r.role \in Roles /\ r.age \in 0..2
  /\ r.role = "primary" => m \in led

CallTo(m, k) ==
  \/ k = [at |-> "none"] \/ k = [at |-> "sent"]
  \/ k = [at |-> "answered", row |-> k.row] /\ RowOf(m, k.row)

RoundInv(r) ==
  /\ r = [at |-> r.at, self |-> r.self, calls |-> r.calls, from |-> r.from]
  /\ r.at \in {"idle", "greet", "pull", "import"}
  /\ r.calls = [m \in Node |-> r.calls[m]]
  /\ \A m \in Node : CallTo(m, r.calls[m])
  /\ r.at = "pull" => r.from \in Node /\ r.from \in led

\* A plan: what it may contain, where its hosts come from, and that a domain it
\* updates by its id is there unless it was deleted.
PlanTypes(p) ==
  /\ p = [at |-> p.at, doc |-> p.doc, create |-> p.create, update |-> p.update, rcpt |-> p.rcpt,
          mk |-> p.mk, enable |-> p.enable, gone |-> p.gone, clean |-> p.clean]
  /\ p.at \in {"idle", "apply", "applied"}
  /\ DOMAIN p.create \subseteq Domain /\ \A d \in DOMAIN p.create : p.create[d] \in DomainRow
  /\ DOMAIN p.update \subseteq Domain /\ \A d \in DOMAIN p.update : p.update[d] \in DomainRow
  /\ DOMAIN p.rcpt \subseteq Domain /\ \A d \in DOMAIN p.rcpt : p.rcpt[d] \subseteq Address
  /\ p.mk \subseteq Account
  /\ DOMAIN p.enable \subseteq Account /\ \A u \in DOMAIN p.enable : p.enable[u] \in {"on", "off"}
  /\ p.clean \in BOOLEAN

PlanFits(p, c) == \A d \in DOMAIN p.update \ p.gone : c.dom[d] # Nothing

PlanHosts(p, S) ==
  /\ \A d \in DOMAIN p.create : p.create[d].host \in S
  /\ \A d \in DOMAIN p.update : p.update[d].host \in S

\* What a plan has left to do and what the database has make up the document.
Settings(x, e) == x.host = e.host /\ e.limit \in {Omitted, x.limit}

WillHold(p, c, d) ==
  LET e == p.doc.dom[d] IN
  /\ d \in Domain
  /\ d \in DOMAIN p.create \/ c.dom[d] # Nothing
  /\ d \in DOMAIN p.create => d \notin DOMAIN p.update /\ Settings(p.create[d], e)
  /\ d \in DOMAIN p.update => Settings(p.update[d], e)
  /\ d \notin DOMAIN p.create \union DOMAIN p.update => Settings(c.dom[d], e)
  /\ d \in DOMAIN p.rcpt => p.rcpt[d] = e.rcpt
  /\ d \notin DOMAIN p.rcpt => e.rcpt \in {Omitted, IF d \in DOMAIN p.create THEN p.create[d].rcpt ELSE c.dom[d].rcpt}

PlanLeft(p, c) ==
  p.at # "idle" /\ p.clean =>
    /\ \A d \in DOMAIN p.create \union DOMAIN p.update \union DOMAIN p.rcpt : d \in DOMAIN p.doc.dom
    /\ \A d \in DOMAIN p.doc.dom : WillHold(p, c, d)
    /\ p.at = "applied" => DOMAIN p.create = {} /\ DOMAIN p.update = {} /\ DOMAIN p.rcpt = {}

PlanInv(p, c, S) == PlanTypes(p) /\ PlanFits(p, c) /\ PlanHosts(p, S) /\ PlanLeft(p, c)

\* A database: its types and its hosts
ConfInv(c, S) == c \in Conf /\ \A d \in Domain : c.dom[d] # Nothing => c.dom[d].host \in S

RowsInv ==
  /\ rows = [n \in Node |-> [m \in Node |-> rows[n][m]]]
  /\ \A n, m \in Node : rows[n][m] = Nothing \/ RowOf(m, rows[n][m])
RolesInv ==
  /\ role \in [Node -> Roles] /\ led \subseteq Node
  /\ \A n \in Node : role[n] = "primary" => n \in led
RoundsInv == round = [n \in Node |-> round[n]] /\ \A n \in Node : RoundInv(round[n])
ConfsInv == conf = [n \in Node |-> conf[n]] /\ \A n \in Node : ConfInv(conf[n], {n} \union led)
ImportsInv ==
  /\ imp = [n \in Node |-> [w \in Ways |-> imp[n][w]]]
  /\ \A n \in Node, w \in Ways : PlanInv(imp[n][w], conf[n], {n} \union led)
BoundsInv == edits \in 0..MaxEdits /\ faults \in 0..MaxFaults

ClusterInv == RowsInv /\ RolesInv /\ RoundsInv /\ ConfsInv /\ ImportsInv /\ BoundsInv

-----------------------------------------------------------------------------
(* Plans.                                                                  *)

\* A stage of applyImport is reached when those before it are through
LEMMA Stages ==
  ASSUME NEW p
  PROVE  /\ Left(p) = "update" => DOMAIN p.create = {}
         /\ Left(p) = "rcpt" => DOMAIN p.create = {} /\ DOMAIN p.update = {}
         /\ Left(p) \in {"mk", "enable", "done"} =>
              DOMAIN p.create = {} /\ DOMAIN p.update = {} /\ DOMAIN p.rcpt = {}
<1>1. DOMAIN <<>> = {}
  OBVIOUS
<1>2. Left(p) # "create" => p.create = <<>>
  BY DEF Left
<1>3. Left(p) \notin {"create", "update"} => p.update = <<>>
  BY DEF Left
<1>4. Left(p) \notin {"create", "update", "rcpt"} => p.rcpt = <<>>
  BY DEF Left
<1> QED
  BY <1>1, <1>2, <1>3, <1>4

\* A function without one of its arguments.
LEMMA Removed ==
  ASSUME NEW f, NEW x
  PROVE  DOMAIN Without(f, x) = DOMAIN f \ {x} /\ \A y \in DOMAIN f \ {x} : Without(f, x)[y] = f[y]
BY DEF Without, Restrict

\* No plan fits any database.
LEMMA NoPlanFits ==
  ASSUME NEW c, NEW S
  PROVE  PlanInv(NoPlan, c, S)
<1>1. DOMAIN <<>> = {}
  OBVIOUS
<1> QED
  BY <1>1 DEF PlanInv, PlanTypes, PlanFits, PlanHosts, PlanLeft, NoPlan

\* A larger set of hosts
LEMMA MoreHosts ==
  ASSUME NEW p, NEW c, NEW S, NEW T, S \subseteq T
  PROVE  (PlanInv(p, c, S) => PlanInv(p, c, T)) /\ (ConfInv(c, S) => ConfInv(c, T))
BY DEF PlanInv, PlanHosts, ConfInv

\* The plan of an import after somebody else wrote
LEMMA OthersWrote ==
  ASSUME NEW p, NEW c, NEW c2, NEW S, NEW gone, PlanInv(p, c, S), p.gone \subseteq gone,
         \A d \in Domain : c.dom[d] # Nothing => c2.dom[d] # Nothing \/ d \in gone,
         NEW q, q = [at |-> p.at, doc |-> p.doc, create |-> p.create, update |-> p.update, rcpt |-> p.rcpt,
                     mk |-> p.mk, enable |-> p.enable, gone |-> gone, clean |-> FALSE]
  PROVE  PlanInv(q, c2, S)
<1>1. PlanTypes(p)
  BY DEF PlanInv
<1>2. /\ q.at = p.at /\ q.doc = p.doc /\ q.create = p.create /\ q.update = p.update /\ q.rcpt = p.rcpt
      /\ q.mk = p.mk /\ q.enable = p.enable /\ q.gone = gone /\ q.clean = FALSE
  OBVIOUS
<1>3. PlanTypes(q)
  BY <1>1, <1>2 DEF PlanTypes
<1>4. PlanFits(q, c2)
  BY <1>1, <1>2 DEF PlanInv, PlanTypes, PlanFits
<1>5. PlanHosts(q, S) /\ PlanLeft(q, c2)
  BY <1>2 DEF PlanInv, PlanHosts, PlanLeft
<1> QED
  BY <1>3, <1>4, <1>5 DEF PlanInv

\* planImport, from the document of a database
LEMMA PlanIsRight ==
  ASSUME NEW c1, NEW S1, ConfInv(c1, S1), NEW c, NEW S, ConfInv(c, S), S1 \subseteq S,
         NEW doc, doc.dom = Export(c1).dom, doc.acct = Export(c1).acct, Nothing \notin DomainRow
  PROVE  PlanInv(PlanImport(doc, c), c, S)
<1> DEFINE p == PlanImport(doc, c)
           D == Domains(c1)
           known == D \intersect Domains(c)
<1>1. c1 \in Conf /\ c \in Conf
  BY DEF ConfInv
<1>2. /\ DOMAIN doc.dom = D /\ DOMAIN doc.acct = Accounts(c1)
      /\ \A u \in Accounts(c1) : doc.acct[u] = c1.acct[u]
      /\ \A d \in D : /\ doc.dom[d].host = c1.dom[d].host
                      /\ doc.dom[d].limit = IF c1.dom[d].limit = NoLimit THEN Omitted ELSE c1.dom[d].limit
                      /\ doc.dom[d].rcpt = IF c1.dom[d].rcpt = {} THEN Omitted ELSE c1.dom[d].rcpt
  BY DEF Export
<1>3. D \subseteq Domain /\ \A d \in D : c1.dom[d] \in DomainRow /\ c1.dom[d].host \in S
  BY <1>1 DEF Domains, Conf, ConfInv
<1>4. \A d \in Domains(c) : d \in Domain /\ c.dom[d] \in DomainRow /\ c.dom[d].host \in S /\ c.dom[d] # Nothing
  BY <1>1 DEF Domains, Conf, ConfInv
<1>5. \A d \in Domain \ Domains(c) : c.dom[d] = Nothing
  BY DEF Domains
<1>6. /\ p.at = "apply" /\ p.doc = doc /\ p.gone = {} /\ p.clean = TRUE
      /\ DOMAIN p.create = D \ known
      /\ \A d \in D \ known : p.create[d] = DomainFromRequest(doc.dom[d], Nothing)
      /\ DOMAIN p.update = {d \in known : d \in NewRecipients(doc, c)
                              \/ DomainFromRequest(doc.dom[d], c.dom[d]) # c.dom[d]}
      /\ \A d \in DOMAIN p.update : p.update[d] = DomainFromRequest(doc.dom[d], c.dom[d])
      /\ DOMAIN p.rcpt = NewRecipients(doc, c)
      /\ \A d \in NewRecipients(doc, c) : p.rcpt[d] = doc.dom[d].rcpt
      /\ p.mk = (IF doc.password THEN DOMAIN doc.acct \ Accounts(c) ELSE {})
      /\ DOMAIN p.enable = {u \in DOMAIN doc.acct \intersect Accounts(c) : c.acct[u] # doc.acct[u]}
      /\ \A u \in DOMAIN p.enable : p.enable[u] = doc.acct[u]
      /\ p = [at |-> p.at, doc |-> p.doc, create |-> p.create, update |-> p.update, rcpt |-> p.rcpt,
              mk |-> p.mk, enable |-> p.enable, gone |-> p.gone, clean |-> p.clean]
  <2> DEFINE lists == NewRecipients(doc, c)
             made == [d \in D \ known |-> DomainFromRequest(doc.dom[d], Nothing)]
             changed == [d \in {d \in known : d \in lists \/ DomainFromRequest(doc.dom[d], c.dom[d]) # c.dom[d]}
                           |-> DomainFromRequest(doc.dom[d], c.dom[d])]
             rcpts == [d \in lists |-> doc.dom[d].rcpt]
             new == IF doc.password THEN DOMAIN doc.acct \ Accounts(c) ELSE {}
             switched == [u \in {u \in DOMAIN doc.acct \intersect Accounts(c) : c.acct[u] # doc.acct[u]}
                            |-> doc.acct[u]]
  <2>1. p = [NoPlan EXCEPT !.at = "apply", !.doc = doc, !.create = made, !.update = changed, !.rcpt = rcpts,
                           !.mk = new, !.enable = switched]
    BY <1>2 DEF PlanImport
  <2> HIDE DEF p, lists, made, changed, rcpts, new, switched
  <2>2. p = [at |-> "apply", doc |-> doc, create |-> made, update |-> changed, rcpt |-> rcpts,
             mk |-> new, enable |-> switched, gone |-> {}, clean |-> TRUE]
    BY <2>1 DEF NoPlan
  <2>3. /\ p.at = "apply" /\ p.doc = doc /\ p.create = made /\ p.update = changed /\ p.rcpt = rcpts
        /\ p.mk = new /\ p.enable = switched /\ p.gone = {} /\ p.clean = TRUE
    BY <2>2
  <2>4. /\ DOMAIN made = D \ known /\ \A d \in D \ known : made[d] = DomainFromRequest(doc.dom[d], Nothing)
        /\ DOMAIN changed = {d \in known : d \in NewRecipients(doc, c)
                                \/ DomainFromRequest(doc.dom[d], c.dom[d]) # c.dom[d]}
        /\ \A d \in DOMAIN changed : changed[d] = DomainFromRequest(doc.dom[d], c.dom[d])
        /\ DOMAIN rcpts = NewRecipients(doc, c)
        /\ \A d \in NewRecipients(doc, c) : rcpts[d] = doc.dom[d].rcpt
        /\ new = (IF doc.password THEN DOMAIN doc.acct \ Accounts(c) ELSE {})
        /\ DOMAIN switched = {u \in DOMAIN doc.acct \intersect Accounts(c) : c.acct[u] # doc.acct[u]}
        /\ \A u \in DOMAIN switched : switched[u] = doc.acct[u]
    BY DEF made, changed, lists, rcpts, new, switched
  <2> QED
    BY <2>2, <2>3, <2>4
<1> HIDE DEF p
<1>7. \A d \in D \ known :
         LET x == DomainFromRequest(doc.dom[d], Nothing) IN
         x \in DomainRow /\ Settings(x, doc.dom[d]) /\ x.host \in S /\ x.rcpt = {}
  <2> SUFFICES ASSUME NEW d \in D
               PROVE  LET x == DomainFromRequest(doc.dom[d], Nothing) IN
                      x \in DomainRow /\ Settings(x, doc.dom[d]) /\ x.host \in S /\ x.rcpt = {}
    OBVIOUS
  <2> QED
    BY <1>2, <1>3 DEF DomainFromRequest, DomainRow, Settings, NoLimit
<1>8. \A d \in known :
         LET x == DomainFromRequest(doc.dom[d], c.dom[d]) IN
         x \in DomainRow /\ Settings(x, doc.dom[d]) /\ x.host \in S /\ x.rcpt = c.dom[d].rcpt
  <2> SUFFICES ASSUME NEW d \in known
               PROVE  LET x == DomainFromRequest(doc.dom[d], c.dom[d]) IN
                      x \in DomainRow /\ Settings(x, doc.dom[d]) /\ x.host \in S /\ x.rcpt = c.dom[d].rcpt
    OBVIOUS
  <2>1. c.dom[d] # Nothing /\ c.dom[d] \in DomainRow
    BY <1>4
  <2> QED
    BY <1>2, <1>3, <2>1 DEF DomainFromRequest, DomainRow, Settings, NoLimit
<1>9. /\ NewRecipients(doc, c) \subseteq D
      /\ \A d \in D : d \notin NewRecipients(doc, c) =>
           doc.dom[d].rcpt \in {Omitted, IF d \in known THEN c.dom[d].rcpt ELSE {}}
      /\ \A d \in NewRecipients(doc, c) : doc.dom[d].rcpt \subseteq Address
  <2>1. \A d \in D : (d \in known) <=> c.dom[d] # Nothing
    BY <1>3, <1>4, <1>5
  <2> QED
    BY <1>2, <1>3, <2>1 DEF NewRecipients, DomainRow
<1>10. PlanTypes(p)
  <2>1. \A d \in DOMAIN p.create : d \in Domain /\ p.create[d] \in DomainRow
    BY <1>3, <1>6, <1>7
  <2>2. \A d \in DOMAIN p.update : d \in Domain /\ p.update[d] \in DomainRow
    BY <1>3, <1>6, <1>8
  <2>3. \A d \in DOMAIN p.rcpt : d \in Domain /\ p.rcpt[d] \subseteq Address
    BY <1>3, <1>6, <1>9
  <2>4. p.mk \subseteq Account
    BY <1>2, <1>6 DEF Accounts
  <2>5. \A u \in DOMAIN p.enable : u \in Account /\ p.enable[u] \in {"on", "off"}
    BY <1>1, <1>2, <1>6 DEF Accounts, Conf
  <2> QED
    BY <1>6, <2>1, <2>2, <2>3, <2>4, <2>5 DEF PlanTypes
<1>11. PlanFits(p, c)
  BY <1>4, <1>6 DEF PlanFits
<1>12. PlanHosts(p, S)
  BY <1>6, <1>7, <1>8 DEF PlanHosts
<1>13. \A d \in D : WillHold(p, c, d)
  <2> SUFFICES ASSUME NEW d \in D PROVE WillHold(p, c, d)
    OBVIOUS
  <2>1. CASE d \in known
    <3>1. d \in Domain /\ d \notin DOMAIN p.create /\ c.dom[d] # Nothing
      BY <2>1, <1>3, <1>4, <1>6
    <3>2. d \in DOMAIN p.update => Settings(p.update[d], doc.dom[d])
      BY <1>6, <1>8
    <3>3. d \notin DOMAIN p.update => c.dom[d] = DomainFromRequest(doc.dom[d], c.dom[d])
      BY <2>1, <1>6
    <3>4. d \notin DOMAIN p.update => Settings(c.dom[d], doc.dom[d])
      BY <2>1, <3>3, <1>8
    <3> QED
      BY <2>1, <3>1, <3>2, <3>4, <1>6, <1>9 DEF WillHold
  <2>2. CASE d \notin known
    <3>1. d \in Domain /\ d \in DOMAIN p.create /\ d \notin DOMAIN p.update
      BY <2>2, <1>3, <1>6
    <3>2. Settings(p.create[d], doc.dom[d]) /\ p.create[d].rcpt = {}
      BY <2>2, <1>6, <1>7
    <3> QED
      BY <2>2, <3>1, <3>2, <1>6, <1>9 DEF WillHold
  <2> QED
    BY <2>1, <2>2
<1>14. PlanLeft(p, c)
  BY <1>2, <1>6, <1>9, <1>13 DEF PlanLeft
<1>15. PlanInv(p, c, S)
  BY <1>10, <1>11, <1>12, <1>14 DEF PlanInv
<1> QED
  BY <1>15 DEF p

\* A plan with other fields
LEMMA CreateFields ==
  ASSUME NEW p, PlanTypes(p), NEW x, NEW y
  PROVE  [p EXCEPT !.create = x, !.gone = y] =
           [at |-> p.at, doc |-> p.doc, create |-> x, update |-> p.update, rcpt |-> p.rcpt,
            mk |-> p.mk, enable |-> p.enable, gone |-> y, clean |-> p.clean]
<1> DEFINE R == [at |-> p.at, doc |-> p.doc, create |-> p.create, update |-> p.update, rcpt |-> p.rcpt,
            mk |-> p.mk, enable |-> p.enable, gone |-> p.gone, clean |-> p.clean]
<1>0. p = R
  BY DEF PlanTypes
<1> HIDE DEF R
<1>1. [p EXCEPT !.create = x, !.gone = y] = [R EXCEPT !.create = x, !.gone = y]
  BY <1>0
<1>2. [R EXCEPT !.create = x, !.gone = y] =
         [at |-> p.at, doc |-> p.doc, create |-> x, update |-> p.update, rcpt |-> p.rcpt,
          mk |-> p.mk, enable |-> p.enable, gone |-> y, clean |-> p.clean]
  <2> DEFINE Q == [R EXCEPT !.create = x]
  <2>1. Q = [at |-> p.at, doc |-> p.doc, create |-> x, update |-> p.update, rcpt |-> p.rcpt,
             mk |-> p.mk, enable |-> p.enable, gone |-> p.gone, clean |-> p.clean]
    BY DEF R
  <2> HIDE DEF Q
  <2>2. [Q EXCEPT !.gone = y] =
          [at |-> p.at, doc |-> p.doc, create |-> x, update |-> p.update, rcpt |-> p.rcpt,
           mk |-> p.mk, enable |-> p.enable, gone |-> y, clean |-> p.clean]
    BY <2>1
  <2> QED
    BY <2>2 DEF Q
<1> QED
  BY <1>1, <1>2, Zenon

\* A plan with another field, all of it.
LEMMA PlanFields ==
  ASSUME NEW p, PlanTypes(p), NEW x
  PROVE  /\ [p EXCEPT !.update = x] =
           [at |-> p.at, doc |-> p.doc, create |-> p.create, update |-> x, rcpt |-> p.rcpt,
            mk |-> p.mk, enable |-> p.enable, gone |-> p.gone, clean |-> p.clean]
        /\ [p EXCEPT !.rcpt = x] =
           [at |-> p.at, doc |-> p.doc, create |-> p.create, update |-> p.update, rcpt |-> x,
            mk |-> p.mk, enable |-> p.enable, gone |-> p.gone, clean |-> p.clean]
        /\ [p EXCEPT !.mk = x] =
           [at |-> p.at, doc |-> p.doc, create |-> p.create, update |-> p.update, rcpt |-> p.rcpt,
            mk |-> x, enable |-> p.enable, gone |-> p.gone, clean |-> p.clean]
        /\ [p EXCEPT !.enable = x] =
           [at |-> p.at, doc |-> p.doc, create |-> p.create, update |-> p.update, rcpt |-> p.rcpt,
            mk |-> p.mk, enable |-> x, gone |-> p.gone, clean |-> p.clean]
        /\ [p EXCEPT !.at = "applied"] =
           [at |-> "applied", doc |-> p.doc, create |-> p.create, update |-> p.update, rcpt |-> p.rcpt,
            mk |-> p.mk, enable |-> p.enable, gone |-> p.gone, clean |-> p.clean]
<1> DEFINE R == [at |-> p.at, doc |-> p.doc, create |-> p.create, update |-> p.update, rcpt |-> p.rcpt,
            mk |-> p.mk, enable |-> p.enable, gone |-> p.gone, clean |-> p.clean]
<1>1. p = R
  BY DEF PlanTypes
<1> HIDE DEF R
<1>3. [p EXCEPT !.update = x] =
           [at |-> p.at, doc |-> p.doc, create |-> p.create, update |-> x, rcpt |-> p.rcpt,
            mk |-> p.mk, enable |-> p.enable, gone |-> p.gone, clean |-> p.clean]
  <2>1. [p EXCEPT !.update = x] = [R EXCEPT !.update = x]
    BY <1>1
  <2>2. [R EXCEPT !.update = x] =
           [at |-> p.at, doc |-> p.doc, create |-> p.create, update |-> x, rcpt |-> p.rcpt,
            mk |-> p.mk, enable |-> p.enable, gone |-> p.gone, clean |-> p.clean]
    BY DEF R
  <2> QED
    BY <2>1, <2>2, Zenon
<1>4. [p EXCEPT !.rcpt = x] =
           [at |-> p.at, doc |-> p.doc, create |-> p.create, update |-> p.update, rcpt |-> x,
            mk |-> p.mk, enable |-> p.enable, gone |-> p.gone, clean |-> p.clean]
  <2>1. [p EXCEPT !.rcpt = x] = [R EXCEPT !.rcpt = x]
    BY <1>1
  <2>2. [R EXCEPT !.rcpt = x] =
           [at |-> p.at, doc |-> p.doc, create |-> p.create, update |-> p.update, rcpt |-> x,
            mk |-> p.mk, enable |-> p.enable, gone |-> p.gone, clean |-> p.clean]
    BY DEF R
  <2> QED
    BY <2>1, <2>2, Zenon
<1>5. [p EXCEPT !.mk = x] =
           [at |-> p.at, doc |-> p.doc, create |-> p.create, update |-> p.update, rcpt |-> p.rcpt,
            mk |-> x, enable |-> p.enable, gone |-> p.gone, clean |-> p.clean]
  <2>1. [p EXCEPT !.mk = x] = [R EXCEPT !.mk = x]
    BY <1>1
  <2>2. [R EXCEPT !.mk = x] =
           [at |-> p.at, doc |-> p.doc, create |-> p.create, update |-> p.update, rcpt |-> p.rcpt,
            mk |-> x, enable |-> p.enable, gone |-> p.gone, clean |-> p.clean]
    BY DEF R
  <2> QED
    BY <2>1, <2>2, Zenon
<1>6. [p EXCEPT !.enable = x] =
           [at |-> p.at, doc |-> p.doc, create |-> p.create, update |-> p.update, rcpt |-> p.rcpt,
            mk |-> p.mk, enable |-> x, gone |-> p.gone, clean |-> p.clean]
  <2>1. [p EXCEPT !.enable = x] = [R EXCEPT !.enable = x]
    BY <1>1
  <2>2. [R EXCEPT !.enable = x] =
           [at |-> p.at, doc |-> p.doc, create |-> p.create, update |-> p.update, rcpt |-> p.rcpt,
            mk |-> p.mk, enable |-> x, gone |-> p.gone, clean |-> p.clean]
    BY DEF R
  <2> QED
    BY <2>1, <2>2, Zenon
<1>7. [p EXCEPT !.at = "applied"] =
           [at |-> "applied", doc |-> p.doc, create |-> p.create, update |-> p.update, rcpt |-> p.rcpt,
            mk |-> p.mk, enable |-> p.enable, gone |-> p.gone, clean |-> p.clean]
  <2>1. [p EXCEPT !.at = "applied"] = [R EXCEPT !.at = "applied"]
    BY <1>1
  <2>2. [R EXCEPT !.at = "applied"] =
           [at |-> "applied", doc |-> p.doc, create |-> p.create, update |-> p.update, rcpt |-> p.rcpt,
            mk |-> p.mk, enable |-> p.enable, gone |-> p.gone, clean |-> p.clean]
    BY DEF R
  <2> QED
    BY <2>1, <2>2, Zenon
<1> QED
  BY <1>3, <1>4, <1>5, <1>6, <1>7, Zenon

\* A database with another row
LEMMA RowChanges ==
  ASSUME NEW c \in Conf, NEW d \in Domain, NEW x, x \in DomainRow \union {Nothing}
  PROVE  LET c2 == [c EXCEPT !.dom[d] = x] IN
         /\ c2 \in Conf /\ c2.dom[d] = x /\ c2.acct = c.acct
         /\ \A e \in Domain \ {d} : c2.dom[e] = c.dom[e]
BY DEF Conf

\* A database with another account.
LEMMA AccountChanges ==
  ASSUME NEW c \in Conf, NEW u \in Account, NEW x, x \in {"none", "on", "off"}
  PROVE  LET c2 == [c EXCEPT !.acct[u] = x] IN c2 \in Conf /\ c2.dom = c.dom
BY DEF Conf

-----------------------------------------------------------------------------
(* The statements of applyImport, for a plan and the database.             *)

\* CreateDomain: the database has the row the plan had, and an update by id will not meet it.
LEMMA CreateKeeps ==
  ASSUME NEW p, NEW c, NEW S, NEW d, PlanInv(p, c, S), ConfInv(c, S), d \in DOMAIN p.create,
         Nothing \notin DomainRow, p.at = "apply"
  PROVE  LET q == [p EXCEPT !.create = Without(@, d), !.gone = @ \ {d}]
             c2 == [c EXCEPT !.dom[d] = p.create[d]]
         IN  PlanInv(q, c2, S) /\ ConfInv(c2, S) /\ \A e \in Domain : c.dom[e] # Nothing => c2.dom[e] # Nothing
<1> DEFINE q == [p EXCEPT !.create = Without(p.create, d), !.gone = p.gone \ {d}]
           c2 == [c EXCEPT !.dom[d] = p.create[d]]
<1>1. PlanTypes(p) /\ PlanFits(p, c) /\ PlanHosts(p, S) /\ PlanLeft(p, c) /\ c \in Conf
  BY DEF PlanInv, ConfInv
<1>2. q = [at |-> p.at, doc |-> p.doc, create |-> Without(p.create, d), update |-> p.update, rcpt |-> p.rcpt,
           mk |-> p.mk, enable |-> p.enable, gone |-> p.gone \ {d}, clean |-> p.clean]
  <2> DEFINE x == Without(p.create, d)
             y == p.gone \ {d}
  <2>1. q = [p EXCEPT !.create = x, !.gone = y]
    OBVIOUS
  <2> HIDE DEF q, x, y
  <2>2. [p EXCEPT !.create = x, !.gone = y] =
          [at |-> p.at, doc |-> p.doc, create |-> x, update |-> p.update, rcpt |-> p.rcpt,
           mk |-> p.mk, enable |-> p.enable, gone |-> y, clean |-> p.clean]
    BY <1>1, CreateFields, Zenon
  <2> QED
    BY <2>1, <2>2, Zenon DEF x, y
<1>3. d \in Domain /\ p.create[d] \in DomainRow /\ p.create[d] # Nothing /\ p.create[d].host \in S
  BY <1>1 DEF PlanTypes, PlanHosts
<1>4. /\ c2 \in Conf /\ c2.dom[d] = p.create[d]
      /\ \A e \in Domain \ {d} : c2.dom[e] = c.dom[e]
  BY <1>1, <1>3, RowChanges
<1> HIDE DEF q
<1>5. /\ DOMAIN q.create = DOMAIN p.create \ {d} /\ \A e \in DOMAIN q.create : q.create[e] = p.create[e]
      /\ q.at = p.at /\ q.doc = p.doc /\ q.update = p.update /\ q.rcpt = p.rcpt /\ q.mk = p.mk
      /\ q.enable = p.enable /\ q.gone = p.gone \ {d} /\ q.clean = p.clean
      /\ q = [at |-> q.at, doc |-> q.doc, create |-> q.create, update |-> q.update, rcpt |-> q.rcpt,
              mk |-> q.mk, enable |-> q.enable, gone |-> q.gone, clean |-> q.clean]
  <2>1. DOMAIN Without(p.create, d) = DOMAIN p.create \ {d} /\ \A e \in DOMAIN p.create \ {d} : Without(p.create, d)[e] = p.create[e]
    BY Removed, Zenon
  <2> QED
    BY <1>2, <2>1
<1> HIDE DEF c2
<1>6. PlanTypes(q)
  BY <1>1, <1>5 DEF PlanTypes
<1>7. PlanFits(q, c2)
  BY <1>1, <1>3, <1>4, <1>5 DEF PlanFits, PlanTypes
<1>8. PlanHosts(q, S)
  BY <1>1, <1>5 DEF PlanHosts
<1>9. PlanLeft(q, c2)
  <2> SUFFICES ASSUME p.clean
               PROVE  /\ \A e \in DOMAIN q.create \union DOMAIN q.update \union DOMAIN q.rcpt : e \in DOMAIN q.doc.dom
                      /\ \A e \in DOMAIN q.doc.dom : WillHold(q, c2, e)
    BY <1>5 DEF PlanLeft
  <2>1. /\ \A e \in DOMAIN p.create \union DOMAIN p.update \union DOMAIN p.rcpt : e \in DOMAIN p.doc.dom
        /\ \A e \in DOMAIN p.doc.dom : WillHold(p, c, e)
    BY <1>1 DEF PlanLeft
  <2>2. ASSUME NEW e \in DOMAIN p.doc.dom PROVE WillHold(q, c2, e)
    <3>1. WillHold(p, c, e)
      BY <2>1
    <3>2. CASE e = d
      BY <3>1, <3>2, <1>3, <1>4, <1>5 DEF WillHold
    <3>3. CASE e # d
      BY <3>1, <3>3, <1>4, <1>5 DEF WillHold
    <3> QED
      BY <3>2, <3>3
  <2> QED
    BY <2>1, <2>2, <1>5
<1>10. ConfInv(c2, S)
  BY <1>3, <1>4 DEF ConfInv
<1>11. \A e \in Domain : c.dom[e] # Nothing => c2.dom[e] # Nothing
  BY <1>3, <1>4
<1>12. PlanInv(q, c2, S)
  BY <1>6, <1>7, <1>8, <1>9 DEF PlanInv
<1> QED
  BY <1>10, <1>11, <1>12 DEF q, c2

\* UpdateDomain: the row has the plan's settings and keeps its recipients.
LEMMA UpdateKeeps ==
  ASSUME NEW p, NEW c, NEW S, NEW d, PlanInv(p, c, S), ConfInv(c, S), d \in DOMAIN p.update \ p.gone,
         Nothing \notin DomainRow, p.at = "apply", Left(p) = "update"
  PROVE  LET q == [p EXCEPT !.update = Without(@, d)]
             c2 == [c EXCEPT !.dom[d] = [p.update[d] EXCEPT !.rcpt = c.dom[d].rcpt]]
         IN  PlanInv(q, c2, S) /\ ConfInv(c2, S) /\ \A e \in Domain : c.dom[e] # Nothing => c2.dom[e] # Nothing
<1> DEFINE q == [p EXCEPT !.update = Without(p.update, d)]
           x == [p.update[d] EXCEPT !.rcpt = c.dom[d].rcpt]
           c2 == [c EXCEPT !.dom[d] = x]
<1>1. PlanTypes(p) /\ PlanFits(p, c) /\ PlanHosts(p, S) /\ PlanLeft(p, c) /\ c \in Conf
  BY DEF PlanInv, ConfInv
<1>2. q = [at |-> p.at, doc |-> p.doc, create |-> p.create, update |-> Without(p.update, d), rcpt |-> p.rcpt,
           mk |-> p.mk, enable |-> p.enable, gone |-> p.gone, clean |-> p.clean]
  BY <1>1, PlanFields, Zenon
<1>3. d \in Domain /\ c.dom[d] # Nothing /\ c.dom[d] \in DomainRow /\ p.update[d] \in DomainRow
      /\ p.update[d].host \in S
  BY <1>1 DEF PlanTypes, PlanHosts, PlanFits, Conf
<1>4. /\ x \in DomainRow /\ x.host = p.update[d].host /\ x.limit = p.update[d].limit /\ x.rcpt = c.dom[d].rcpt
      /\ x # Nothing
  BY <1>3 DEF DomainRow
<1> HIDE DEF x
<1>5. /\ c2 \in Conf /\ c2.dom[d] = x
      /\ \A e \in Domain \ {d} : c2.dom[e] = c.dom[e]
  BY <1>1, <1>3, <1>4, RowChanges
<1> HIDE DEF q
<1>6. /\ DOMAIN q.update = DOMAIN p.update \ {d} /\ \A e \in DOMAIN q.update : q.update[e] = p.update[e]
      /\ q.at = p.at /\ q.doc = p.doc /\ q.create = p.create /\ q.rcpt = p.rcpt /\ q.mk = p.mk
      /\ q.enable = p.enable /\ q.gone = p.gone /\ q.clean = p.clean
      /\ q = [at |-> q.at, doc |-> q.doc, create |-> q.create, update |-> q.update, rcpt |-> q.rcpt,
              mk |-> q.mk, enable |-> q.enable, gone |-> q.gone, clean |-> q.clean]
  <2>1. DOMAIN Without(p.update, d) = DOMAIN p.update \ {d} /\ \A e \in DOMAIN p.update \ {d} : Without(p.update, d)[e] = p.update[e]
    BY Removed, Zenon
  <2> QED
    BY <1>2, <2>1
<1>7. DOMAIN p.create = {}
  BY Stages
<1> HIDE DEF c2
<1>8. PlanTypes(q)
  BY <1>1, <1>6 DEF PlanTypes
<1>9. PlanFits(q, c2)
  BY <1>1, <1>4, <1>5, <1>6 DEF PlanFits, PlanTypes
<1>10. PlanHosts(q, S)
  BY <1>1, <1>6 DEF PlanHosts
<1>11. PlanLeft(q, c2)
  <2> SUFFICES ASSUME p.clean
               PROVE  /\ \A e \in DOMAIN q.create \union DOMAIN q.update \union DOMAIN q.rcpt : e \in DOMAIN q.doc.dom
                      /\ \A e \in DOMAIN q.doc.dom : WillHold(q, c2, e)
    BY <1>6 DEF PlanLeft
  <2>1. /\ \A e \in DOMAIN p.create \union DOMAIN p.update \union DOMAIN p.rcpt : e \in DOMAIN p.doc.dom
        /\ \A e \in DOMAIN p.doc.dom : WillHold(p, c, e)
    BY <1>1 DEF PlanLeft
  <2>2. ASSUME NEW e \in DOMAIN p.doc.dom PROVE WillHold(q, c2, e)
    <3>1. WillHold(p, c, e)
      BY <2>1
    <3>2. CASE e = d
      <4>1. Settings(x, p.doc.dom[e])
        BY <3>1, <3>2, <1>4 DEF WillHold, Settings
      <4> QED
        BY <3>1, <3>2, <4>1, <1>3, <1>4, <1>5, <1>6, <1>7 DEF WillHold
    <3>3. CASE e # d
      BY <3>1, <3>3, <1>5, <1>6 DEF WillHold
    <3> QED
      BY <3>2, <3>3
  <2> QED
    BY <2>1, <2>2, <1>6
<1>12. ConfInv(c2, S)
  BY <1>3, <1>4, <1>5 DEF ConfInv
<1>13. \A e \in Domain : c.dom[e] # Nothing => c2.dom[e] # Nothing
  BY <1>4, <1>5
<1>14. PlanInv(q, c2, S)
  BY <1>8, <1>9, <1>10, <1>11 DEF PlanInv
<1> QED
  BY <1>12, <1>13, <1>14 DEF q, c2, x

\* SetDomainRecipients: the row has the list of the plan.
LEMMA RecipientsKeep ==
  ASSUME NEW p, NEW c, NEW S, NEW d, PlanInv(p, c, S), ConfInv(c, S), d \in DOMAIN p.rcpt, c.dom[d] # Nothing,
         Nothing \notin DomainRow, p.at = "apply", Left(p) = "rcpt"
  PROVE  LET q == [p EXCEPT !.rcpt = Without(@, d)]
             c2 == [c EXCEPT !.dom[d].rcpt = p.rcpt[d]]
         IN  PlanInv(q, c2, S) /\ ConfInv(c2, S) /\ \A e \in Domain : c.dom[e] # Nothing => c2.dom[e] # Nothing
<1> DEFINE q == [p EXCEPT !.rcpt = Without(p.rcpt, d)]
           x == [c.dom[d] EXCEPT !.rcpt = p.rcpt[d]]
           c2 == [c EXCEPT !.dom[d] = x]
<1>1. PlanTypes(p) /\ PlanFits(p, c) /\ PlanHosts(p, S) /\ PlanLeft(p, c) /\ c \in Conf
  BY DEF PlanInv, ConfInv
<1>2. q = [at |-> p.at, doc |-> p.doc, create |-> p.create, update |-> p.update, rcpt |-> Without(p.rcpt, d),
           mk |-> p.mk, enable |-> p.enable, gone |-> p.gone, clean |-> p.clean]
  <2> DEFINE y == Without(p.rcpt, d)
  <2>1. q = [p EXCEPT !.rcpt = y]
    OBVIOUS
  <2> HIDE DEF q, y
  <2>2. [p EXCEPT !.rcpt = y] =
          [at |-> p.at, doc |-> p.doc, create |-> p.create, update |-> p.update, rcpt |-> y,
           mk |-> p.mk, enable |-> p.enable, gone |-> p.gone, clean |-> p.clean]
    BY <1>1, PlanFields, Zenon
  <2> QED
    BY <2>1, <2>2, Zenon DEF y
<1>3. d \in Domain /\ c.dom[d] \in DomainRow /\ p.rcpt[d] \subseteq Address /\ c.dom[d].host \in S
  BY <1>1 DEF PlanTypes, Conf, ConfInv
<1>4. /\ x \in DomainRow /\ x.host = c.dom[d].host /\ x.limit = c.dom[d].limit /\ x.rcpt = p.rcpt[d]
      /\ x # Nothing
  BY <1>3 DEF DomainRow
<1> HIDE DEF x
<1>5. /\ c2 \in Conf /\ c2.dom[d] = x
      /\ \A e \in Domain \ {d} : c2.dom[e] = c.dom[e]
  BY <1>1, <1>3, <1>4, RowChanges
<1> HIDE DEF q
<1>6. /\ DOMAIN q.rcpt = DOMAIN p.rcpt \ {d} /\ \A e \in DOMAIN q.rcpt : q.rcpt[e] = p.rcpt[e]
      /\ q.at = p.at /\ q.doc = p.doc /\ q.create = p.create /\ q.update = p.update /\ q.mk = p.mk
      /\ q.enable = p.enable /\ q.gone = p.gone /\ q.clean = p.clean
      /\ q = [at |-> q.at, doc |-> q.doc, create |-> q.create, update |-> q.update, rcpt |-> q.rcpt,
              mk |-> q.mk, enable |-> q.enable, gone |-> q.gone, clean |-> q.clean]
  <2>1. DOMAIN Without(p.rcpt, d) = DOMAIN p.rcpt \ {d} /\ \A e \in DOMAIN p.rcpt \ {d} : Without(p.rcpt, d)[e] = p.rcpt[e]
    BY Removed, Zenon
  <2> QED
    BY <1>2, <2>1
<1>7. DOMAIN p.create = {} /\ DOMAIN p.update = {}
  BY Stages
<1> HIDE DEF c2
<1>8. PlanTypes(q)
  BY <1>1, <1>6 DEF PlanTypes
<1>9. PlanFits(q, c2) /\ PlanHosts(q, S)
  BY <1>6, <1>7 DEF PlanFits, PlanHosts
<1>11. PlanLeft(q, c2)
  <2> SUFFICES ASSUME p.clean
               PROVE  /\ \A e \in DOMAIN q.create \union DOMAIN q.update \union DOMAIN q.rcpt : e \in DOMAIN q.doc.dom
                      /\ \A e \in DOMAIN q.doc.dom : WillHold(q, c2, e)
    BY <1>6 DEF PlanLeft
  <2>1. /\ \A e \in DOMAIN p.create \union DOMAIN p.update \union DOMAIN p.rcpt : e \in DOMAIN p.doc.dom
        /\ \A e \in DOMAIN p.doc.dom : WillHold(p, c, e)
    BY <1>1 DEF PlanLeft
  <2>2. ASSUME NEW e \in DOMAIN p.doc.dom PROVE WillHold(q, c2, e)
    <3>1. WillHold(p, c, e)
      BY <2>1
    <3>2. CASE e = d
      <4>1. Settings(x, p.doc.dom[e]) /\ x.rcpt = p.doc.dom[e].rcpt
        BY <3>1, <3>2, <1>4, <1>7 DEF WillHold, Settings
      <4> QED
        BY <3>1, <3>2, <4>1, <1>3, <1>4, <1>5, <1>6, <1>7 DEF WillHold
    <3>3. CASE e # d
      BY <3>1, <3>3, <1>5, <1>6 DEF WillHold
    <3> QED
      BY <3>2, <3>3
  <2> QED
    BY <2>1, <2>2, <1>6
<1>12. ConfInv(c2, S)
  BY <1>3, <1>4, <1>5 DEF ConfInv
<1>13. \A e \in Domain : c.dom[e] # Nothing => c2.dom[e] # Nothing
  BY <1>4, <1>5
<1>14. PlanInv(q, c2, S)
  BY <1>8, <1>9, <1>11 DEF PlanInv
<1>15. c2 = [c EXCEPT !.dom[d].rcpt = p.rcpt[d]]
  BY <1>1, <1>3 DEF c2, x, Conf
<1> QED
  BY <1>12, <1>13, <1>14, <1>15 DEF q

\* Plans and databases whose domains and plans for domains are the same
LEMMA SameDomains ==
  ASSUME NEW p, NEW q, NEW c, NEW c2, NEW S, PlanInv(p, c, S), PlanTypes(q), c2.dom = c.dom,
         q.create = p.create, q.update = p.update, q.rcpt = p.rcpt, q.gone = p.gone, q.clean = p.clean,
         q.doc = p.doc, p.at # "idle",
         q.at = "applied" => DOMAIN p.create = {} /\ DOMAIN p.update = {} /\ DOMAIN p.rcpt = {}
  PROVE  PlanInv(q, c2, S)
<1>1. PlanFits(q, c2) /\ PlanHosts(q, S)
  BY DEF PlanInv, PlanFits, PlanHosts
<1>2. \A d : WillHold(p, c, d) => WillHold(q, c2, d)
  BY DEF WillHold
<1>3. PlanLeft(q, c2)
  BY <1>2 DEF PlanInv, PlanLeft
<1> QED
  BY <1>1, <1>3 DEF PlanInv

\* CreateSMTPUser: no domain changes.
LEMMA NewAccountKeeps ==
  ASSUME NEW p, NEW c, NEW S, PlanInv(p, c, S), ConfInv(c, S), p.at = "apply", NEW u \in p.mk
  PROVE  LET q == [p EXCEPT !.mk = @ \ {u}]
             c2 == [c EXCEPT !.acct[u] = "on"]
         IN  PlanInv(q, c2, S) /\ ConfInv(c2, S) /\ \A e \in Domain : c.dom[e] # Nothing => c2.dom[e] # Nothing
<1>0. PlanTypes(p) /\ c \in Conf
  BY DEF PlanInv, ConfInv
<1> DEFINE q == [p EXCEPT !.mk = p.mk \ {u}]
           c2 == [c EXCEPT !.acct[u] = "on"]
<1>1. q = [at |-> p.at, doc |-> p.doc, create |-> p.create, update |-> p.update, rcpt |-> p.rcpt,
           mk |-> p.mk \ {u}, enable |-> p.enable, gone |-> p.gone, clean |-> p.clean]
  BY <1>0, PlanFields, Zenon
<1>2. c2 \in Conf /\ c2.dom = c.dom
  BY <1>0, AccountChanges DEF PlanTypes
<1> HIDE DEF q, c2
<1>3. PlanTypes(q)
  BY <1>0, <1>1 DEF PlanTypes
<1>4. PlanInv(q, c2, S)
  BY <1>1, <1>2, <1>3, SameDomains
<1>5. ConfInv(c2, S)
  BY <1>2 DEF ConfInv
<1> QED
  BY <1>2, <1>4, <1>5 DEF q, c2

\* SetSMTPUserEnabled: no domain changes.
LEMMA EnabledKeeps ==
  ASSUME NEW p, NEW c, NEW S, PlanInv(p, c, S), ConfInv(c, S), p.at = "apply", NEW u \in DOMAIN p.enable
  PROVE  LET q == [p EXCEPT !.enable = Without(@, u)]
             c2 == [c EXCEPT !.acct[u] = p.enable[u]]
         IN  PlanInv(q, c2, S) /\ ConfInv(c2, S) /\ \A e \in Domain : c.dom[e] # Nothing => c2.dom[e] # Nothing
<1>0. PlanTypes(p) /\ c \in Conf
  BY DEF PlanInv, ConfInv
<1> DEFINE q == [p EXCEPT !.enable = Without(p.enable, u)]
           c2 == [c EXCEPT !.acct[u] = p.enable[u]]
<1>1. q = [at |-> p.at, doc |-> p.doc, create |-> p.create, update |-> p.update, rcpt |-> p.rcpt,
           mk |-> p.mk, enable |-> Without(p.enable, u), gone |-> p.gone, clean |-> p.clean]
  BY <1>0, PlanFields, Zenon
<1>2. c2 \in Conf /\ c2.dom = c.dom
  <2>1. u \in Account /\ p.enable[u] \in {"none", "on", "off"}
    BY <1>0 DEF PlanTypes
  <2> QED
    BY <2>1, <1>0, AccountChanges
<1> HIDE DEF q
<1>3. DOMAIN q.enable = DOMAIN p.enable \ {u} /\ \A y \in DOMAIN q.enable : q.enable[y] = p.enable[y]
  <2>1. DOMAIN Without(p.enable, u) = DOMAIN p.enable \ {u}
        /\ \A y \in DOMAIN p.enable \ {u} : Without(p.enable, u)[y] = p.enable[y]
    BY Removed, Zenon
  <2> QED
    BY <1>1, <2>1
<1> HIDE DEF c2
<1>4. PlanTypes(q)
  BY <1>0, <1>1, <1>3 DEF PlanTypes
<1>5. PlanInv(q, c2, S)
  BY <1>1, <1>2, <1>4, SameDomains
<1>6. ConfInv(c2, S)
  BY <1>2 DEF ConfInv
<1> QED
  BY <1>2, <1>5, <1>6 DEF q, c2

\* Nothing is left to do, so the database has what the document says.
LEMMA DoneKeeps ==
  ASSUME NEW p, NEW c, NEW S, PlanInv(p, c, S), p.at = "apply", Left(p) = "done"
  PROVE  PlanInv([p EXCEPT !.at = "applied"], c, S)
<1>0. PlanTypes(p)
  BY DEF PlanInv
<1> DEFINE q == [p EXCEPT !.at = "applied"]
<1>1. q = [at |-> "applied", doc |-> p.doc, create |-> p.create, update |-> p.update, rcpt |-> p.rcpt,
           mk |-> p.mk, enable |-> p.enable, gone |-> p.gone, clean |-> p.clean]
  BY <1>0, PlanFields, Zenon
<1> HIDE DEF q
<1>2. PlanTypes(q)
  BY <1>0, <1>1 DEF PlanTypes
<1>3. DOMAIN p.create = {} /\ DOMAIN p.update = {} /\ DOMAIN p.rcpt = {}
  BY Stages
<1>4. PlanInv(q, c, S)
  BY <1>1, <1>2, <1>3, SameDomains
<1> QED
  BY <1>4 DEF q

-----------------------------------------------------------------------------
(* Parts of the state that a step leaves alone, or changes in one place.   *)

\* What a step leaves alone still holds when more nodes have been primary.
LEMMA Untouched ==
  ASSUME ClusterInv, led \subseteq led', led' \subseteq Node
  PROVE  /\ rows' = rows => RowsInv'
         /\ round' = round => RoundsInv'
         /\ role' = role => RolesInv'
         /\ conf' = conf => ConfsInv'
         /\ conf' = conf /\ imp' = imp => ImportsInv'
<1>1. RowsInv /\ RoundsInv /\ RolesInv /\ ConfsInv /\ ImportsInv
  BY DEF ClusterInv
<1>2. ASSUME rows' = rows PROVE RowsInv'
  BY <1>1, <1>2 DEF RowsInv, RowOf
<1>3. ASSUME round' = round PROVE RoundsInv'
  BY <1>1, <1>3 DEF RoundsInv, RoundInv, CallTo, RowOf
<1>4. ASSUME role' = role PROVE RolesInv'
  BY <1>1, <1>4 DEF RolesInv
<1>5. ASSUME conf' = conf PROVE ConfsInv'
  BY <1>1, <1>5 DEF ConfsInv, ConfInv
<1>6. ASSUME conf' = conf, imp' = imp PROVE ImportsInv'
  <2>1. \A n \in Node, w \in Ways : PlanInv(imp[n][w], conf[n], {n} \union led')
    <3> SUFFICES ASSUME NEW n \in Node, NEW w \in Ways PROVE PlanInv(imp[n][w], conf[n], {n} \union led')
      OBVIOUS
    <3>1. PlanInv(imp[n][w], conf[n], {n} \union led)
      BY <1>1 DEF ImportsInv
    <3>2. {n} \union led \subseteq {n} \union led'
      OBVIOUS
    <3> QED
      BY <3>1, <3>2, MoreHosts
  <2>2. imp' = [n \in Node |-> [w \in Ways |-> imp'[n][w]]]
    BY <1>1, <1>6 DEF ImportsInv
  <2>3. \A n \in Node, w \in Ways : PlanInv(imp'[n][w], conf'[n], {n} \union led')
    BY <2>1, <1>6
  <2> QED
    BY <2>2, <2>3 DEF ImportsInv, PlanInv, PlanTypes, PlanFits, PlanHosts, PlanLeft, WillHold, Settings
<1> QED
  BY <1>2, <1>3, <1>4, <1>5, <1>6

\* One row of a table of peers, or the old ones
LEMMA RowPut ==
  ASSUME RowsInv, led' = led, NEW n \in Node, NEW m \in Node, NEW x, x = Nothing \/ RowOf(m, x), UpsertNode(n, m, x)
  PROVE  RowsInv'
<1>1. \A k, l \in Node : rows'[k][l] = IF k = n /\ l = m THEN x ELSE rows[k][l]
  BY DEF RowsInv, UpsertNode
<1>2. rows' = [k \in Node |-> [l \in Node |-> rows'[k][l]]]
  BY DEF RowsInv, UpsertNode
<1>3. \A k, l \in Node : rows'[k][l] = Nothing \/ RowOf(l, rows'[k][l])
  BY <1>1 DEF RowsInv
<1> QED
  BY <1>2, <1>3 DEF RowsInv, RowOf

\* Rows that are forgotten leave the others.
LEMMA StaleGo ==
  ASSUME RowsInv, led' = led, NEW n \in Node, ForgetStaleNodes(n)
  PROVE  RowsInv'
<1>1. \A k, l \in Node : rows'[k][l] \in {rows[k][l], Nothing}
  BY DEF RowsInv, ForgetStaleNodes
<1>2. rows' = [k \in Node |-> [l \in Node |-> rows'[k][l]]]
  BY DEF RowsInv, ForgetStaleNodes
<1>3. \A k, l \in Node : rows'[k][l] = Nothing \/ RowOf(l, rows'[k][l])
  BY <1>1 DEF RowsInv
<1> QED
  BY <1>2, <1>3 DEF RowsInv, RowOf

\* The round of one node, and one of its calls
LEMMA RoundPut ==
  ASSUME RoundsInv, led' = led, NEW n \in Node, NEW r, RoundInv(r), round' = [round EXCEPT ![n] = r]
  PROVE  RoundsInv'
<1>1. \A m \in Node : round'[m] = IF m = n THEN r ELSE round[m]
  BY DEF RoundsInv
<1>2. round' = [m \in Node |-> round'[m]]
  BY DEF RoundsInv
<1>3. \A m \in Node : RoundInv(round'[m])
  BY <1>1 DEF RoundsInv
<1>4. \A m, k : RowOf(m, k) => (RowOf(m, k))'
  BY DEF RowOf
<1>5. \A m, k : CallTo(m, k) => (CallTo(m, k))'
  BY <1>4 DEF CallTo
<1>6. ASSUME NEW q, RoundInv(q) PROVE RoundInv(q)'
  BY <1>5, <1>6 DEF RoundInv
<1>7. (\A m \in Node : RoundInv(round[m]))'
  BY <1>3, <1>6
<1> QED
  BY <1>2, <1>7 DEF RoundsInv

\* A node between two rounds.
LEMMA Rests == RoundInv(Resting)
<1> DEFINE C == [m \in Node |-> NoCall]
<1>1. Resting.at = "idle" /\ Resting.calls = C /\ Resting.self = Nothing /\ Resting.from = Nothing
      /\ Resting = [at |-> "idle", self |-> Nothing, calls |-> C, from |-> Nothing]
  BY DEF Resting
<1>2. \A m : CallTo(m, NoCall)
  BY DEF CallTo, NoCall
<1>3. C = [m \in Node |-> C[m]] /\ \A m \in Node : C[m] = NoCall
  OBVIOUS
<1> HIDE DEF C
<1>4. Resting = [at |-> Resting.at, self |-> Resting.self, calls |-> Resting.calls, from |-> Resting.from]
  BY <1>1
<1> QED
  BY <1>1, <1>2, <1>3, <1>4 DEF RoundInv

\* One call of a round goes on.
LEMMA CallPut ==
  ASSUME RoundsInv, led' = led, NEW n \in Node, NEW m \in Node, NEW k, CallTo(m, k),
         round' = [round EXCEPT ![n].calls[m] = k]
  PROVE  RoundsInv'
<1> DEFINE r == round[n]
           calls == [r.calls EXCEPT ![m] = k]
           R == [at |-> r.at, self |-> r.self, calls |-> calls, from |-> r.from]
<1>1. RoundInv(r)
  BY DEF RoundsInv
<1>2. calls = [l \in Node |-> calls[l]] /\ \A l \in Node : CallTo(l, calls[l])
  BY <1>1 DEF RoundInv
<1>3. r = [at |-> r.at, self |-> r.self, calls |-> r.calls, from |-> r.from]
  BY <1>1 DEF RoundInv
<1>4. round' = [round EXCEPT ![n] = R]
  <2>1. round' = [round EXCEPT ![n] = [r EXCEPT !.calls = calls]]
    OBVIOUS
  <2> HIDE DEF r, calls
  <2>2. [r EXCEPT !.calls = calls] = R
    BY <1>3
  <2> QED
    BY <2>1, <2>2
<1> HIDE DEF calls
<1>5. RoundInv(R)
  BY <1>1, <1>2 DEF RoundInv
<1> HIDE DEF R
<1> QED
  BY <1>4, <1>5, RoundPut

\* The database and the imports of one node
LEMMA NodePut ==
  ASSUME ConfsInv, ImportsInv, led \subseteq led', NEW n \in Node, NEW c2, NEW P,
         conf' = [conf EXCEPT ![n] = c2], imp' = [imp EXCEPT ![n] = P], P = [w \in Ways |-> P[w]],
         ConfInv(c2, {n} \union led'), \A w \in Ways : PlanInv(P[w], c2, {n} \union led')
  PROVE  ConfsInv' /\ ImportsInv'
<1>1. \A m \in Node : conf'[m] = IF m = n THEN c2 ELSE conf[m]
  BY DEF ConfsInv
<1>2. \A m \in Node : imp'[m] = IF m = n THEN P ELSE imp[m]
  BY DEF ImportsInv
<1>3. conf' = [m \in Node |-> conf'[m]] /\ imp' = [m \in Node |-> [w \in Ways |-> imp'[m][w]]]
  BY DEF ConfsInv, ImportsInv
<1>4. \A m \in Node : ConfInv(conf'[m], {m} \union led')
  <2> SUFFICES ASSUME NEW m \in Node, m # n PROVE ConfInv(conf[m], {m} \union led')
    BY <1>1
  <2>1. ConfInv(conf[m], {m} \union led) /\ {m} \union led \subseteq {m} \union led'
    BY DEF ConfsInv
  <2> QED
    BY <2>1, MoreHosts
<1>5. \A m \in Node, w \in Ways : PlanInv(imp'[m][w], conf'[m], {m} \union led')
  <2> SUFFICES ASSUME NEW m \in Node, NEW w \in Ways, m # n PROVE PlanInv(imp[m][w], conf[m], {m} \union led')
    BY <1>1, <1>2
  <2>1. PlanInv(imp[m][w], conf[m], {m} \union led) /\ {m} \union led \subseteq {m} \union led'
    BY DEF ImportsInv
  <2> QED
    BY <2>1, MoreHosts
<1>6. ConfsInv'
  BY <1>3, <1>4 DEF ConfsInv, ConfInv
<1>7. ImportsInv'
  BY <1>3, <1>5 DEF ImportsInv, PlanInv, PlanTypes, PlanFits, PlanHosts, PlanLeft, WillHold, Settings
<1> QED
  BY <1>6, <1>7

-----------------------------------------------------------------------------
(* Rounds.                                                                 *)

\* The invariant holds when the nodes start.
LEMMA InitInv == ClusterBounds /\ ClusterInit => ClusterInv
<1> SUFFICES ASSUME ClusterBounds, ClusterInit PROVE ClusterInv
  OBVIOUS
<1>1. PICK leaders \in Leaders :
        /\ conf \in Start
        /\ rows = [n \in Node |-> [m \in Node |-> Nothing]]
        /\ role = [n \in Node |-> IF n \in leaders THEN "primary" ELSE "follower"]
        /\ round = [n \in Node |-> Resting]
        /\ imp = [n \in Node |-> [w \in {"sync", "api"} |-> NoPlan]]
        /\ led = leaders
        /\ edits = 0 /\ faults = 0
  BY DEF ClusterInit
<1>2. RowsInv
  BY <1>1 DEF RowsInv
<1>3. RolesInv
  BY <1>1 DEF RolesInv, Roles, ClusterBounds
<1>4. RoundsInv
  BY <1>1, Rests DEF RoundsInv
<1>5. ConfsInv
  BY <1>1 DEF ConfsInv, ConfInv, ClusterBounds
<1>6. ImportsInv
  <2>1. \A n \in Node, w \in Ways : imp[n][w] = NoPlan
    BY <1>1 DEF Ways
  <2>2. imp = [n \in Node |-> [w \in Ways |-> imp[n][w]]]
    BY <1>1 DEF Ways
  <2> QED
    BY <2>1, <2>2, NoPlanFits DEF ImportsInv
<1>7. BoundsInv
  BY <1>1 DEF BoundsInv, ClusterBounds
<1> QED
  BY <1>2, <1>3, <1>4, <1>5, <1>6, <1>7 DEF ClusterInv

\* What a node says of itself
LEMMA OwnRow ==
  ASSUME RolesInv, NEW n \in Node, NEW h
  PROVE  RowOf(n, Row(role[n], h))
BY DEF RolesInv, RowOf, Row

\* BeginRound: the node writes its own row and calls its peers.
LEMMA BeginRoundKeeps ==
  ASSUME ClusterInv, NEW n \in Node, BeginRound(n)
  PROVE  ClusterInv'
<1> DEFINE C == [m \in Node |-> [at |-> IF m \in Peers[n] THEN "sent" ELSE "none"]]
           h == ConfigHash(conf[n])
           r == [at |-> "greet", self |-> h, calls |-> C, from |-> Nothing]
<1>1. UNCHANGED <<conf, role, imp, led, edits, faults>> /\ UpsertNode(n, n, Row(role[n], h))
      /\ round' = [round EXCEPT ![n] = [Resting EXCEPT !.at = "greet", !.self = h, !.calls = C]]
  BY DEF BeginRound
<1>2. round' = [round EXCEPT ![n] = r]
  <2> DEFINE N == [m \in Node |-> NoCall]
  <2>1. Resting = [at |-> "idle", self |-> Nothing, calls |-> N, from |-> Nothing]
    BY DEF Resting
  <2> HIDE DEF C, h, N
  <2> DEFINE A == [Resting EXCEPT !.at = "greet"]
             B == [A EXCEPT !.self = h]
  <2>2. round' = [round EXCEPT ![n] = [B EXCEPT !.calls = C]]
    BY <1>1
  <2>3. A = [at |-> "greet", self |-> Nothing, calls |-> N, from |-> Nothing]
    BY <2>1
  <2> HIDE DEF A
  <2>4. B = [at |-> "greet", self |-> h, calls |-> N, from |-> Nothing]
    BY <2>3
  <2> HIDE DEF B
  <2>5. [B EXCEPT !.calls = C] = r
    BY <2>4
  <2> QED
    BY <2>2, <2>5
<1>3. C = [m \in Node |-> C[m]] /\ \A m \in Node : C[m] = [at |-> "none"] \/ C[m] = [at |-> "sent"]
  OBVIOUS
<1> HIDE DEF C, h
<1>4. RoundInv(r)
  BY <1>3 DEF RoundInv, CallTo
<1> HIDE DEF r
<1>5. RowsInv /\ RolesInv /\ RoundsInv /\ BoundsInv /\ led \subseteq Node
  BY DEF ClusterInv, RolesInv
<1>6. RowsInv'
  BY <1>1, <1>5, OwnRow, RowPut
<1>7. RoundsInv'
  BY <1>1, <1>2, <1>4, <1>5, RoundPut
<1>8. RolesInv' /\ ConfsInv' /\ ImportsInv'
  BY <1>1, <1>5, Untouched
<1>9. BoundsInv'
  BY <1>1, <1>5 DEF BoundsInv
<1> QED
  BY <1>6, <1>7, <1>8, <1>9 DEF ClusterInv

\* HandleHeartbeat: the peer records the caller's role and answers with its own.
LEMMA HeartbeatKeeps ==
  ASSUME ClusterInv, NEW n \in Node, NEW m \in Node, HandleHeartbeat(n, m)
  PROVE  ClusterInv'
<1>1. RowsInv /\ RolesInv /\ RoundsInv /\ BoundsInv /\ led \subseteq Node
  BY DEF ClusterInv, RolesInv
<1>2. UNCHANGED <<conf, role, imp, led, edits, faults>>
  BY DEF HandleHeartbeat
<1>3. RowsInv'
  <2>1. UpsertNode(m, n, Row(role[n], round[n].self))
    BY DEF HandleHeartbeat
  <2> QED
    BY <1>1, <1>2, <2>1, OwnRow, RowPut
<1>4. RoundsInv'
  <2> DEFINE x == Row(role[m], ConfigHash(conf[m]))
             k == [at |-> "answered", row |-> x]
  <2>1. round' = [round EXCEPT ![n].calls[m] = k]
    BY DEF HandleHeartbeat
  <2>2. RowOf(m, x)
    BY <1>1, OwnRow
  <2> HIDE DEF x
  <2>3. CallTo(m, k)
    BY <2>2 DEF CallTo
  <2> HIDE DEF k
  <2> QED
    BY <1>1, <1>2, <2>1, <2>3, CallPut
<1>5. RolesInv' /\ ConfsInv' /\ ImportsInv'
  BY <1>1, <1>2, Untouched
<1>6. BoundsInv'
  BY <1>1, <1>2 DEF BoundsInv
<1> QED
  BY <1>3, <1>4, <1>5, <1>6 DEF ClusterInv

\* TakeAnswer: the caller records what the peer said of itself.
LEMMA AnswerKeeps ==
  ASSUME ClusterInv, NEW n \in Node, NEW m \in Node, TakeAnswer(n, m)
  PROVE  ClusterInv'
<1>1. RowsInv /\ RolesInv /\ RoundsInv /\ BoundsInv /\ led \subseteq Node
  BY DEF ClusterInv, RolesInv
<1>2. UNCHANGED <<conf, role, imp, led, edits, faults>>
  BY DEF TakeAnswer
<1>3. RowsInv'
  <2>1. CallTo(m, round[n].calls[m]) /\ round[n].calls[m].at = "answered"
    BY <1>1 DEF RoundsInv, RoundInv, TakeAnswer
  <2>2. RowOf(m, round[n].calls[m].row)
    BY <2>1 DEF CallTo
  <2>3. UpsertNode(n, m, round[n].calls[m].row)
    BY DEF TakeAnswer
  <2> QED
    BY <1>1, <1>2, <2>2, <2>3, RowPut
<1>4. RoundsInv'
  <2>1. round' = [round EXCEPT ![n].calls[m] = NoCall] /\ CallTo(m, NoCall)
    BY DEF TakeAnswer, CallTo, NoCall
  <2> QED
    BY <1>1, <1>2, <2>1, CallPut
<1>5. RolesInv' /\ ConfsInv' /\ ImportsInv'
  BY <1>1, <1>2, Untouched
<1>6. BoundsInv'
  BY <1>1, <1>2 DEF BoundsInv
<1> QED
  BY <1>3, <1>4, <1>5, <1>6 DEF ClusterInv

\* Steps that may fail are counted
LEMMA Counted ==
  ASSUME ClusterBounds, BoundsInv
  PROVE  /\ Fault /\ edits' = edits => BoundsInv'
         /\ \A n, op : Edit(n, op) /\ faults' = faults => BoundsInv'
BY DEF ClusterBounds, BoundsInv, Fault, Edit

\* A call that is lost changes the round only.
LEMMA CallFailsKeeps ==
  ASSUME ClusterBounds, ClusterInv, NEW n \in Node, NEW m \in Node, CallFails(n, m)
  PROVE  ClusterInv'
<1>1. RowsInv /\ RolesInv /\ RoundsInv /\ BoundsInv /\ led \subseteq Node
  BY DEF ClusterInv, RolesInv
<1>2. UNCHANGED <<conf, rows, role, imp, led, edits>> /\ Fault
  BY DEF CallFails
<1>3. RoundsInv'
  <2>1. round' = [round EXCEPT ![n].calls[m] = NoCall] /\ CallTo(m, NoCall)
    BY DEF CallFails, CallTo, NoCall
  <2> QED
    BY <1>1, <1>2, <2>1, CallPut
<1>4. RowsInv' /\ RolesInv' /\ ConfsInv' /\ ImportsInv'
  BY <1>1, <1>2, Untouched
<1>5. BoundsInv'
  BY <1>1, <1>2, Counted
<1> QED
  BY <1>3, <1>4, <1>5 DEF ClusterInv

\* The end of a round
LEMMA EndKeeps ==
  ASSUME RowsInv, RoundsInv, led' = led, NEW n \in Node, EndRound(n)
  PROVE  RowsInv' /\ RoundsInv'
<1>1. RowsInv'
  BY StaleGo DEF EndRound
<1>2. RoundsInv'
  BY Rests, RoundPut DEF EndRound
<1> QED
  BY <1>1, <1>2

\* A pull is from a primary
LEMMA SyncKeeps ==
  ASSUME ClusterInv, NEW n \in Node, SyncConfig(n)
  PROVE  ClusterInv'
<1> DEFINE sources == {p \in Primaries(n) : rows[n][p].hash # round[n].self}
           p == CHOOSE p \in sources : TRUE
           r == round[n]
           R == [at |-> "pull", self |-> r.self, calls |-> r.calls, from |-> p]
<1>1. RowsInv /\ RolesInv /\ RoundsInv /\ BoundsInv /\ led \subseteq Node
  BY DEF ClusterInv, RolesInv
<1>2. UNCHANGED <<conf, role, imp, led, edits, faults>>
  BY DEF SyncConfig
<1>3. \/ EndRound(n)
      \/ sources # {} /\ rows' = rows /\ round' = [round EXCEPT ![n].at = "pull", ![n].from = p]
  BY DEF SyncConfig
<1>4. CASE EndRound(n)
  <2>1. RowsInv' /\ RoundsInv'
    BY <1>1, <1>2, <1>4, EndKeeps
  <2>2. RolesInv' /\ ConfsInv' /\ ImportsInv' /\ BoundsInv'
    BY <1>1, <1>2, Untouched DEF BoundsInv
  <2> QED
    BY <2>1, <2>2 DEF ClusterInv
<1>5. CASE sources # {} /\ rows' = rows /\ round' = [round EXCEPT ![n].at = "pull", ![n].from = p]
  <2>1. p \in Node /\ rows[n][p] # Nothing /\ rows[n][p].role = "primary"
    <3>1. p \in sources
      BY <1>5
    <3> QED
      BY <3>1 DEF Primaries, Healthy
  <2>2. p \in led
    BY <1>1, <2>1 DEF RowsInv, RowOf
  <2> HIDE DEF p
  <2>3. RoundInv(r)
    BY <1>1 DEF RoundsInv
  <2>4. r = [at |-> r.at, self |-> r.self, calls |-> r.calls, from |-> r.from]
    BY <2>3 DEF RoundInv
  <2>5. round' = [round EXCEPT ![n] = R]
    <3> DEFINE Q == [r EXCEPT !.at = "pull"]
    <3>1. round' = [round EXCEPT ![n] = [Q EXCEPT !.from = p]]
      BY <1>1, <1>5 DEF RoundsInv
    <3> HIDE DEF r
    <3>2. Q = [at |-> "pull", self |-> r.self, calls |-> r.calls, from |-> r.from]
      BY <2>4
    <3> HIDE DEF Q
    <3>3. [Q EXCEPT !.from = p] = R
      BY <3>2
    <3> QED
      BY <3>1, <3>3
  <2> HIDE DEF r
  <2>6. RoundInv(R)
    BY <2>1, <2>2, <2>3 DEF RoundInv
  <2> HIDE DEF R
  <2>7. RoundsInv'
    BY <1>1, <1>2, <2>5, <2>6, RoundPut
  <2>8. RowsInv' /\ RolesInv' /\ ConfsInv' /\ ImportsInv' /\ BoundsInv'
    BY <1>1, <1>2, <1>5, Untouched DEF BoundsInv
  <2> QED
    BY <2>7, <2>8 DEF ClusterInv
<1> QED
  BY <1>3, <1>4, <1>5

\* One plan of a node is replaced, and its database stays
LEMMA PlanPut ==
  ASSUME ConfsInv, ImportsInv, led' \subseteq Node, led \subseteq led', conf' = conf, NEW n \in Node, NEW w \in Ways, NEW q,
         PlanInv(q, conf[n], {n} \union led'), imp' = [imp EXCEPT ![n][w] = q]
  PROVE  ImportsInv'
<1> DEFINE P == [v \in Ways |-> IF v = w THEN q ELSE imp[n][v]]
<1>1. imp' = [imp EXCEPT ![n] = P]
  <2>1. imp' = [imp EXCEPT ![n] = [imp[n] EXCEPT ![w] = q]]
    OBVIOUS
  <2>2. imp[n] = [v \in Ways |-> imp[n][v]]
    BY DEF ImportsInv
  <2>3. [imp[n] EXCEPT ![w] = q] = P
    BY <2>2
  <2> QED
    BY <2>1, <2>3
<1>2. P = [v \in Ways |-> P[v]]
  OBVIOUS
<1>3. {n} \union led \subseteq {n} \union led'
  OBVIOUS
<1>4. \A v \in Ways : PlanInv(P[v], conf[n], {n} \union led')
  BY <1>3, MoreHosts DEF ImportsInv
<1>5. ConfInv(conf[n], {n} \union led')
  BY <1>3, MoreHosts DEF ConfsInv
<1>6. conf' = [conf EXCEPT ![n] = conf[n]]
  BY DEF ConfsInv
<1> HIDE DEF P
<1> QED
  BY <1>1, <1>2, <1>4, <1>5, <1>6, NodePut

\* Pull: the plan is made from the document of a node that has been primary.
LEMMA PullKeeps ==
  ASSUME ClusterBounds, ClusterInv, NEW n \in Node, Pull(n)
  PROVE  ClusterInv'
<1> DEFINE p == round[n].from
           doc == Export(conf[p])
           q == PlanImport(doc, conf[n])
           r == round[n]
           R == [at |-> "import", self |-> r.self, calls |-> r.calls, from |-> r.from]
<1>1. RowsInv /\ RolesInv /\ RoundsInv /\ BoundsInv /\ ConfsInv /\ ImportsInv /\ led \subseteq Node
  BY DEF ClusterInv, RolesInv
<1>2. UNCHANGED <<conf, role, led, edits, faults>>
  BY DEF Pull
<1>3. \/ EndRound(n) /\ imp' = imp
      \/ rows' = rows /\ imp' = [imp EXCEPT ![n]["sync"] = q] /\ round' = [round EXCEPT ![n].at = "import"]
  BY DEF Pull
<1>4. CASE EndRound(n) /\ imp' = imp
  <2>1. RowsInv' /\ RoundsInv'
    BY <1>1, <1>2, <1>4, EndKeeps
  <2>2. RolesInv' /\ ConfsInv' /\ ImportsInv' /\ BoundsInv'
    BY <1>1, <1>2, <1>4, Untouched DEF BoundsInv
  <2> QED
    BY <2>1, <2>2 DEF ClusterInv
<1>5. CASE rows' = rows /\ imp' = [imp EXCEPT ![n]["sync"] = q] /\ round' = [round EXCEPT ![n].at = "import"]
  <2>1. RoundInv(r) /\ r.at = "pull"
    BY <1>1 DEF RoundsInv, Pull
  <2>2. p \in Node /\ p \in led
    BY <2>1 DEF RoundInv
  <2>3. PlanInv(q, conf[n], {n} \union led)
    <3>1. ConfInv(conf[p], {p} \union led) /\ ConfInv(conf[n], {n} \union led)
      BY <1>1, <2>2 DEF ConfsInv
    <3>2. {p} \union led \subseteq {n} \union led /\ Nothing \notin DomainRow
      BY <2>2 DEF ClusterBounds
    <3> QED
      BY <3>1, <3>2, PlanIsRight
  <2> HIDE DEF q
  <2>4. ImportsInv'
    BY <1>1, <1>2, <1>5, <2>3, PlanPut DEF Ways
  <2>5. r = [at |-> r.at, self |-> r.self, calls |-> r.calls, from |-> r.from]
    BY <2>1 DEF RoundInv
  <2>6. round' = [round EXCEPT ![n] = R]
    <3>1. round' = [round EXCEPT ![n] = [r EXCEPT !.at = "import"]]
      BY <1>5
    <3> HIDE DEF r
    <3>2. [r EXCEPT !.at = "import"] = R
      BY <2>5
    <3> QED
      BY <3>1, <3>2
  <2> HIDE DEF r
  <2>7. RoundInv(R)
    BY <2>1 DEF RoundInv
  <2> HIDE DEF R
  <2>8. RoundsInv'
    BY <1>1, <1>2, <2>6, <2>7, RoundPut
  <2>9. RowsInv' /\ RolesInv' /\ ConfsInv' /\ BoundsInv'
    BY <1>1, <1>2, <1>5, Untouched DEF BoundsInv
  <2> QED
    BY <2>4, <2>8, <2>9 DEF ClusterInv
<1> QED
  BY <1>3, <1>4, <1>5

\* A pull that fails ends the round.
LEMMA PullFailsKeeps ==
  ASSUME ClusterBounds, ClusterInv, NEW n \in Node, PullFails(n)
  PROVE  ClusterInv'
<1>1. RowsInv /\ RoundsInv /\ BoundsInv /\ led \subseteq Node
  BY DEF ClusterInv, RolesInv
<1>2. UNCHANGED <<conf, role, imp, led, edits>> /\ Fault /\ EndRound(n)
  BY DEF PullFails
<1>3. RowsInv' /\ RoundsInv'
  BY <1>1, <1>2, EndKeeps
<1>4. RolesInv' /\ ConfsInv' /\ ImportsInv'
  BY <1>1, <1>2, Untouched
<1>5. BoundsInv'
  BY <1>1, <1>2, Counted
<1> QED
  BY <1>3, <1>4, <1>5 DEF ClusterInv

\* An import of the round is over.
LEMMA ImportReturnsKeeps ==
  ASSUME ClusterInv, NEW n \in Node, ImportReturns(n)
  PROVE  ClusterInv'
<1>1. RowsInv /\ RoundsInv /\ BoundsInv /\ ConfsInv /\ ImportsInv /\ led \subseteq Node
  BY DEF ClusterInv, RolesInv
<1>2. /\ UNCHANGED <<conf, role, led, edits, faults>> /\ EndRound(n)
      /\ imp' = [imp EXCEPT ![n]["sync"] = NoPlan]
  BY DEF ImportReturns
<1>3. RowsInv' /\ RoundsInv'
  BY <1>1, <1>2, EndKeeps
<1>4. RolesInv' /\ ConfsInv'
  BY <1>1, <1>2, Untouched
<1>5. ImportsInv'
  BY <1>1, <1>2, NoPlanFits, PlanPut DEF Ways
<1>6. BoundsInv'
  BY <1>1, <1>2 DEF BoundsInv
<1> QED
  BY <1>3, <1>4, <1>5, <1>6 DEF ClusterInv

\* An import through the API is over.
LEMMA ApiReturnsKeeps ==
  ASSUME ClusterInv, NEW n \in Node, ApiReturns(n)
  PROVE  ClusterInv'
<1>1. RowsInv /\ RoundsInv /\ BoundsInv /\ ConfsInv /\ ImportsInv /\ led \subseteq Node
  BY DEF ClusterInv, RolesInv
<1>2. /\ UNCHANGED <<conf, rows, role, round, led, edits, faults>>
      /\ imp' = [imp EXCEPT ![n]["api"] = NoPlan]
  BY DEF ApiReturns
<1>3. RowsInv' /\ RoundsInv' /\ RolesInv' /\ ConfsInv'
  BY <1>1, <1>2, Untouched
<1>4. ImportsInv'
  BY <1>1, <1>2, NoPlanFits, PlanPut DEF Ways
<1>5. BoundsInv'
  BY <1>1, <1>2 DEF BoundsInv
<1> QED
  BY <1>3, <1>4, <1>5 DEF ClusterInv

-----------------------------------------------------------------------------
(* Imports and administrators.                                             *)

\* The plans of a node after somebody wrote to its database
LEMMA Disturbs ==
  ASSUME ImportsInv, NEW n \in Node, NEW c2, NEW S, {n} \union led \subseteq S, NEW v \in Ways, NEW by, v # by,
         \A d \in Domain : conf[n].dom[d] # Nothing => c2.dom[d] # Nothing
  PROVE  PlanInv(Disturbed(n, by)[v], c2, S)
<1> DEFINE p == imp[n][v]
<1>1. PlanInv(p, conf[n], S)
  BY MoreHosts DEF ImportsInv
<1>2. Disturbed(n, by)[v] = IF p = NoPlan THEN p ELSE [p EXCEPT !.clean = FALSE]
  BY DEF Disturbed, Ways
<1>3. CASE p = NoPlan
  BY <1>2, <1>3, NoPlanFits
<1>4. CASE p # NoPlan
  <2> DEFINE Q == [p EXCEPT !.clean = FALSE]
  <2>1. p = [at |-> p.at, doc |-> p.doc, create |-> p.create, update |-> p.update, rcpt |-> p.rcpt,
             mk |-> p.mk, enable |-> p.enable, gone |-> p.gone, clean |-> p.clean]
    BY <1>1 DEF PlanInv, PlanTypes
  <2>2. Q = [at |-> p.at, doc |-> p.doc, create |-> p.create, update |-> p.update, rcpt |-> p.rcpt,
             mk |-> p.mk, enable |-> p.enable, gone |-> p.gone, clean |-> FALSE]
    <3> DEFINE R == [at |-> p.at, doc |-> p.doc, create |-> p.create, update |-> p.update, rcpt |-> p.rcpt,
                     mk |-> p.mk, enable |-> p.enable, gone |-> p.gone, clean |-> p.clean]
    <3>1. p = R
      BY <2>1
    <3> HIDE DEF p, R
    <3>2. Q = [R EXCEPT !.clean = FALSE]
      BY <3>1
    <3> HIDE DEF Q
    <3> QED
      BY <3>2 DEF R
  <2> HIDE DEF p, Q
  <2>3. PlanInv(Q, c2, S)
    BY <1>1, <2>2, OthersWrote
  <2> QED
    BY <1>2, <1>4, <2>3 DEF Q
<1> QED
  BY <1>3, <1>4

\* A statement of an import
LEMMA Proceeds ==
  ASSUME ClusterInv, led' = led, NEW n \in Node, NEW w \in Ways, NEW c2, NEW q,
         PlanInv(q, c2, {n} \union led), ConfInv(c2, {n} \union led),
         \A d \in Domain : conf[n].dom[d] # Nothing => c2.dom[d] # Nothing,
         conf' = [conf EXCEPT ![n] = c2], Proceed(n, w, q)
  PROVE  ConfsInv' /\ ImportsInv'
<1> DEFINE P == [v \in Ways |-> IF v = w THEN q ELSE Disturbed(n, w)[v]]
<1>1. ConfsInv /\ ImportsInv
  BY DEF ClusterInv
<1>2. imp' = [imp EXCEPT ![n] = P]
  <2>1. imp' = [imp EXCEPT ![n] = [Disturbed(n, w) EXCEPT ![w] = q]]
    BY DEF Proceed
  <2>2. Disturbed(n, w) = [v \in Ways |-> Disturbed(n, w)[v]]
    BY DEF Disturbed, Ways
  <2>3. [Disturbed(n, w) EXCEPT ![w] = q] = P
    BY <2>2
  <2> QED
    BY <2>1, <2>3
<1>3. \A v \in Ways : PlanInv(P[v], c2, {n} \union led)
  BY <1>1, Disturbs
<1>4. P = [v \in Ways |-> P[v]]
  OBVIOUS
<1> HIDE DEF P
<1> QED
  BY <1>1, <1>2, <1>3, <1>4, NodePut

\* A request of an administrator
LEMMA Changes ==
  ASSUME ClusterBounds, ClusterInv, NEW n \in Node, NEW op, NEW c2, ConfInv(c2, {n} \union led),
         \A d \in Domain : conf[n].dom[d] # Nothing => c2.dom[d] # Nothing,
         Change(n, op, c2)
  PROVE  ClusterInv'
<1>1. ConfsInv /\ ImportsInv /\ BoundsInv /\ led \subseteq Node
  BY DEF ClusterInv, RolesInv
<1>2. /\ conf' = [conf EXCEPT ![n] = c2] /\ imp' = [imp EXCEPT ![n] = Disturbed(n, "nobody")]
      /\ UNCHANGED <<rows, role, round, led, faults>> /\ Edit(n, op)
  BY DEF Change
<1>3. \A v \in Ways : PlanInv(Disturbed(n, "nobody")[v], c2, {n} \union led)
  BY <1>1, Disturbs DEF Ways
<1>4. Disturbed(n, "nobody") = [v \in Ways |-> Disturbed(n, "nobody")[v]]
  BY DEF Disturbed, Ways
<1>5. ConfsInv' /\ ImportsInv'
  BY <1>1, <1>2, <1>3, <1>4, NodePut
<1>6. RowsInv' /\ RoundsInv' /\ RolesInv'
  BY <1>1, <1>2, Untouched
<1>7. BoundsInv'
  BY <1>1, <1>2, Counted
<1> QED
  BY <1>5, <1>6, <1>7 DEF ClusterInv

\* A statement that fails
LEMMA GivesUp ==
  ASSUME ClusterInv, led' = led, NEW n \in Node, NEW w \in Ways, GiveUp(n, w)
  PROVE  ConfsInv' /\ ImportsInv'
<1>1. ConfsInv /\ ImportsInv /\ led \subseteq Node
  BY DEF ClusterInv, RolesInv
<1>2. conf' = conf /\ imp' = [imp EXCEPT ![n][w] = NoPlan]
  BY DEF GiveUp
<1>3. ConfsInv'
  BY <1>1, <1>2, Untouched
<1>4. ImportsInv'
  BY <1>1, <1>2, NoPlanFits, PlanPut
<1> QED
  BY <1>3, <1>4

\* One statement of applyImport, or one that fails.
LEMMA ImportStepKeeps ==
  ASSUME ClusterBounds, ClusterInv, NEW n \in Node, NEW w \in Ways, ImportStep(n, w)
  PROVE  ClusterInv'
<1> DEFINE p == imp[n][w]
           c == conf[n]
           S == {n} \union led
<1>1. ConfsInv /\ ImportsInv /\ BoundsInv /\ led \subseteq Node /\ PlanInv(p, c, S) /\ ConfInv(c, S)
      /\ Nothing \notin DomainRow
  BY DEF ClusterInv, RolesInv, ImportsInv, ConfsInv, ClusterBounds
<1>2. UNCHANGED <<rows, role, round, led, edits, faults>>
  BY DEF ImportStep
<1>3. ASSUME NEW d \in Domain, ApplyCreate(n, w, d) PROVE ConfsInv' /\ ImportsInv'
  <2>1. CASE GiveUp(n, w)
    BY <1>2, <2>1, GivesUp
  <2>2. CASE ~GiveUp(n, w)
    <3> DEFINE q == [p EXCEPT !.create = Without(@, d), !.gone = @ \ {d}]
               c2 == [c EXCEPT !.dom[d] = p.create[d]]
    <3>1. p.at = "apply" /\ d \in DOMAIN p.create /\ conf' = [conf EXCEPT ![n].dom[d] = p.create[d]] /\ Proceed(n, w, q)
      BY <1>3, <2>2 DEF ApplyCreate, Applying
    <3>2. conf' = [conf EXCEPT ![n] = c2]
      BY <3>1
    <3>3. PlanInv(q, c2, S) /\ ConfInv(c2, S) /\ \A e \in Domain : c.dom[e] # Nothing => c2.dom[e] # Nothing
      BY <1>1, <3>1, CreateKeeps
    <3> HIDE DEF q, c2
    <3> QED
      BY <1>2, <3>1, <3>2, <3>3, Proceeds
  <2> QED
    BY <2>1, <2>2
<1>4. ASSUME NEW d \in Domain, ApplyUpdate(n, w, d) PROVE ConfsInv' /\ ImportsInv'
  <2>1. CASE GiveUp(n, w)
    BY <1>2, <2>1, GivesUp
  <2>2. CASE ~GiveUp(n, w)
    <3> DEFINE q == [p EXCEPT !.update = Without(@, d)]
               x == [p.update[d] EXCEPT !.rcpt = c.dom[d].rcpt]
               c2 == [c EXCEPT !.dom[d] = x]
    <3>1. /\ p.at = "apply" /\ Left(p) = "update" /\ d \in DOMAIN p.update \ p.gone
          /\ conf' = [conf EXCEPT ![n].dom[d] = x] /\ Proceed(n, w, q)
      BY <1>4, <2>2 DEF ApplyUpdate, Applying
    <3>2. conf' = [conf EXCEPT ![n] = c2]
      BY <3>1
    <3>3. PlanInv(q, c2, S) /\ ConfInv(c2, S) /\ \A e \in Domain : c.dom[e] # Nothing => c2.dom[e] # Nothing
      BY <1>1, <3>1, UpdateKeeps
    <3> HIDE DEF q, c2
    <3> QED
      BY <1>2, <3>1, <3>2, <3>3, Proceeds
  <2> QED
    BY <2>1, <2>2
<1>5. ASSUME NEW d \in Domain, ApplyRecipients(n, w, d) PROVE ConfsInv' /\ ImportsInv'
  <2>1. CASE GiveUp(n, w)
    BY <1>2, <2>1, GivesUp
  <2>2. CASE ~GiveUp(n, w)
    <3> DEFINE q == [p EXCEPT !.rcpt = Without(@, d)]
               c2 == [c EXCEPT !.dom[d].rcpt = p.rcpt[d]]
    <3>1. /\ p.at = "apply" /\ Left(p) = "rcpt" /\ d \in DOMAIN p.rcpt /\ c.dom[d] # Nothing
          /\ conf' = [conf EXCEPT ![n].dom[d].rcpt = p.rcpt[d]] /\ Proceed(n, w, q)
      BY <1>5, <2>2 DEF ApplyRecipients, Applying
    <3>2. conf' = [conf EXCEPT ![n] = c2]
      BY <3>1
    <3>3. PlanInv(q, c2, S) /\ ConfInv(c2, S) /\ \A e \in Domain : c.dom[e] # Nothing => c2.dom[e] # Nothing
      BY <1>1, <3>1, RecipientsKeep
    <3> HIDE DEF q, c2
    <3> QED
      BY <1>2, <3>1, <3>2, <3>3, Proceeds
  <2> QED
    BY <2>1, <2>2
<1>6. ASSUME NEW u \in Account, ApplyNewAccount(n, w, u) PROVE ConfsInv' /\ ImportsInv'
  <2>1. CASE GiveUp(n, w)
    BY <1>2, <2>1, GivesUp
  <2>2. CASE ~GiveUp(n, w)
    <3> DEFINE q == [p EXCEPT !.mk = @ \ {u}]
               c2 == [c EXCEPT !.acct[u] = "on"]
    <3>1. p.at = "apply" /\ u \in p.mk /\ conf' = [conf EXCEPT ![n].acct[u] = "on"] /\ Proceed(n, w, q)
      BY <1>6, <2>2 DEF ApplyNewAccount, Applying
    <3>2. conf' = [conf EXCEPT ![n] = c2]
      BY <3>1
    <3>3. PlanInv(q, c2, S) /\ ConfInv(c2, S) /\ \A e \in Domain : c.dom[e] # Nothing => c2.dom[e] # Nothing
      BY <1>1, <3>1, NewAccountKeeps
    <3> HIDE DEF q, c2
    <3> QED
      BY <1>2, <3>1, <3>2, <3>3, Proceeds
  <2> QED
    BY <2>1, <2>2
<1>7. ASSUME NEW u \in Account, ApplyEnabled(n, w, u) PROVE ConfsInv' /\ ImportsInv'
  <2>1. CASE GiveUp(n, w)
    BY <1>2, <2>1, GivesUp
  <2>2. CASE ~GiveUp(n, w)
    <3> DEFINE q == [p EXCEPT !.enable = Without(@, u)]
               c2 == [c EXCEPT !.acct[u] = p.enable[u]]
    <3>1. p.at = "apply" /\ u \in DOMAIN p.enable /\ conf' = [conf EXCEPT ![n].acct[u] = p.enable[u]] /\ Proceed(n, w, q)
      BY <1>7, <2>2 DEF ApplyEnabled, Applying
    <3>2. conf' = [conf EXCEPT ![n] = c2]
      BY <3>1
    <3>3. PlanInv(q, c2, S) /\ ConfInv(c2, S) /\ \A e \in Domain : c.dom[e] # Nothing => c2.dom[e] # Nothing
      BY <1>1, <3>1, EnabledKeeps
    <3> HIDE DEF q, c2
    <3> QED
      BY <1>2, <3>1, <3>2, <3>3, Proceeds
  <2> QED
    BY <2>1, <2>2
<1>8. ASSUME Applying(n, w, "done"), imp' = [imp EXCEPT ![n][w].at = "applied"], conf' = conf
      PROVE  ConfsInv' /\ ImportsInv'
  <2> DEFINE q == [p EXCEPT !.at = "applied"]
  <2>1. p.at = "apply" /\ Left(p) = "done"
    BY <1>8 DEF Applying
  <2>2. PlanInv(q, c, S)
    BY <1>1, <2>1, DoneKeeps
  <2>3. imp' = [imp EXCEPT ![n][w] = q]
    BY <1>8
  <2> HIDE DEF q
  <2>4. ImportsInv'
    BY <1>1, <1>2, <1>8, <2>2, <2>3, PlanPut
  <2>5. ConfsInv'
    BY <1>1, <1>2, <1>8, Untouched
  <2> QED
    BY <2>4, <2>5
<1>9. ConfsInv' /\ ImportsInv'
  BY <1>3, <1>4, <1>5, <1>6, <1>7, <1>8 DEF ImportStep
<1>10. RowsInv' /\ RoundsInv' /\ RolesInv' /\ BoundsInv'
  BY <1>1, <1>2, Untouched DEF BoundsInv
<1> QED
  BY <1>9, <1>10 DEF ClusterInv

\* Administrators create and change domains: their settings are of their own node.
LEMMA PutsKeep ==
  ASSUME ClusterBounds, ClusterInv, NEW n \in Node, NEW d \in Domain,
         PutDomain(n, d) \/ PutLimit(n, d) \/ \E list \in SUBSET Address : SetRecipients(n, d, list)
  PROVE  ClusterInv'
<1> DEFINE c == conf[n]
           S == {n} \union led
<1>1. ConfInv(c, S) /\ c \in Conf /\ Nothing \notin DomainRow
  BY DEF ClusterInv, ConfsInv, ConfInv, ClusterBounds
<1>2. c.dom[d] # Nothing => c.dom[d] \in DomainRow /\ c.dom[d].host \in S
  BY <1>1 DEF ConfInv, Conf
<1>3. ASSUME NEW op, NEW x \in DomainRow, x.host \in S, Change(n, op, [c EXCEPT !.dom[d] = x]) PROVE ClusterInv'
  <2> DEFINE c2 == [c EXCEPT !.dom[d] = x]
  <2>1. c2 \in Conf /\ c2.dom[d] = x /\ \A e \in Domain \ {d} : c2.dom[e] = c.dom[e]
    BY <1>1, RowChanges
  <2> HIDE DEF c2
  <2>2. ConfInv(c2, S)
    BY <1>1, <1>3, <2>1 DEF ConfInv
  <2>3. \A e \in Domain : c.dom[e] # Nothing => c2.dom[e] # Nothing
    BY <1>1, <2>1
  <2>4. Change(n, op, c2)
    BY <1>3 DEF c2
  <2> QED
    BY <2>2, <2>3, <2>4, Changes
<1>4. ASSUME PutDomain(n, d) PROVE ClusterInv'
  <2> DEFINE x == IF c.dom[d] = Nothing THEN [host |-> n, limit |-> NoLimit, rcpt |-> {}] ELSE [c.dom[d] EXCEPT !.host = n]
  <2>1. x \in DomainRow /\ x.host \in S
    BY <1>2 DEF DomainRow, NoLimit
  <2>2. Change(n, "domain", [c EXCEPT !.dom[d] = x])
    BY <1>4 DEF PutDomain
  <2> HIDE DEF x
  <2> QED
    BY <2>1, <2>2, <1>3
<1>5. ASSUME PutLimit(n, d) PROVE ClusterInv'
  <2> DEFINE x == [c.dom[d] EXCEPT !.limit = 1 - @]
  <2>1. x \in DomainRow /\ x.host \in S
    BY <1>2, <1>5 DEF DomainRow, NoLimit, PutLimit
  <2>2. [c EXCEPT !.dom[d].limit = 1 - @] = [c EXCEPT !.dom[d] = x]
    BY <1>1 DEF Conf
  <2>3. Change(n, "limit", [c EXCEPT !.dom[d].limit = 1 - @])
    BY <1>5 DEF PutLimit
  <2>4. Change(n, "limit", [c EXCEPT !.dom[d] = x])
    BY <2>2, <2>3
  <2> HIDE DEF x
  <2> QED
    BY <2>1, <2>4, <1>3
<1>6. ASSUME NEW list \in SUBSET Address, SetRecipients(n, d, list) PROVE ClusterInv'
  <2> DEFINE x == [c.dom[d] EXCEPT !.rcpt = list]
  <2>1. x \in DomainRow /\ x.host \in S
    BY <1>2, <1>6 DEF DomainRow, SetRecipients
  <2>2. [c EXCEPT !.dom[d].rcpt = list] = [c EXCEPT !.dom[d] = x]
    BY <1>1 DEF Conf
  <2>3. Change(n, "recipients", [c EXCEPT !.dom[d].rcpt = list])
    BY <1>6 DEF SetRecipients
  <2>4. Change(n, "recipients", [c EXCEPT !.dom[d] = x])
    BY <2>2, <2>3
  <2> HIDE DEF x
  <2> QED
    BY <2>1, <2>4, <1>3
<1> QED
  BY <1>4, <1>5, <1>6

\* Administrators change accounts: no domain changes.
LEMMA UsersKeep ==
  ASSUME ClusterBounds, ClusterInv, NEW n \in Node, NEW u \in Account,
         CreateSMTPUser(n, u) \/ UpdateSMTPUser(n, u) \/ DeleteSMTPUser(n, u)
  PROVE  ClusterInv'
<1> DEFINE c == conf[n]
           S == {n} \union led
           y == IF c.acct[u] = "on" THEN "off" ELSE "on"
<1>1. ConfInv(c, S) /\ c \in Conf
  BY DEF ClusterInv, ConfsInv, ConfInv
<1>2. ASSUME NEW op, NEW x \in {"none", "on", "off"}, Change(n, op, [c EXCEPT !.acct[u] = x]) PROVE ClusterInv'
  <2> DEFINE c2 == [c EXCEPT !.acct[u] = x]
  <2>1. c2 \in Conf /\ c2.dom = c.dom
    BY <1>1, AccountChanges
  <2> HIDE DEF c2
  <2>2. ConfInv(c2, S)
    BY <1>1, <2>1 DEF ConfInv
  <2>3. \A e \in Domain : c.dom[e] # Nothing => c2.dom[e] # Nothing
    BY <2>1
  <2>4. Change(n, op, c2)
    BY <1>2 DEF c2
  <2> QED
    BY <2>2, <2>3, <2>4, Changes
<1>3. CASE CreateSMTPUser(n, u)
  BY <1>2, <1>3 DEF CreateSMTPUser
<1>4. CASE UpdateSMTPUser(n, u)
  <2>1. Change(n, "enable", [c EXCEPT !.acct[u] = y])
    BY <1>4 DEF UpdateSMTPUser
  <2>2. y \in {"none", "on", "off"}
    OBVIOUS
  <2> HIDE DEF y
  <2> QED
    BY <2>1, <2>2, <1>2
<1>5. CASE DeleteSMTPUser(n, u)
  BY <1>2, <1>5 DEF DeleteSMTPUser
<1> QED
  BY <1>3, <1>4, <1>5

\* A domain that is deleted is gone for the imports that planned to update it
LEMMA DeleteKeeps ==
  ASSUME ClusterBounds, ClusterInv, NEW n \in Node, NEW d \in Domain, DeleteDomain(n, d)
  PROVE  ClusterInv'
<1> DEFINE c == conf[n]
           S == {n} \union led
           c2 == [c EXCEPT !.dom[d] = Nothing]
           Marked(p) == [p EXCEPT !.clean = FALSE, !.gone = @ \union {d}]
           P == [w \in Ways |-> IF imp[n][w] = NoPlan THEN NoPlan ELSE Marked(imp[n][w])]
<1>1. ConfsInv /\ ImportsInv /\ BoundsInv /\ led \subseteq Node /\ ConfInv(c, S) /\ c \in Conf
  BY DEF ClusterInv, RolesInv, ConfsInv, ConfInv
<1>2. conf' = [conf EXCEPT ![n] = c2] /\ imp' = [imp EXCEPT ![n] = P]
      /\ Edit(n, "delete") /\ UNCHANGED <<rows, role, round, led, faults>>
  BY DEF DeleteDomain, Ways
<1>3. c2 \in Conf /\ c2.dom[d] = Nothing /\ \A e \in Domain \ {d} : c2.dom[e] = c.dom[e]
  BY <1>1, RowChanges
<1> HIDE DEF c2
<1>4. ConfInv(c2, S)
  BY <1>1, <1>3 DEF ConfInv
<1>5. \A w \in Ways : PlanInv(P[w], c2, S)
  <2> SUFFICES ASSUME NEW w \in Ways PROVE PlanInv(P[w], c2, S)
    OBVIOUS
  <2> DEFINE p == imp[n][w]
             gone == p.gone \union {d}
  <2>1. PlanInv(p, c, S)
    BY <1>1 DEF ImportsInv
  <2>2. P[w] = IF p = NoPlan THEN NoPlan ELSE Marked(p)
    OBVIOUS
  <2>3. Marked(p) = [at |-> p.at, doc |-> p.doc, create |-> p.create, update |-> p.update, rcpt |-> p.rcpt,
                     mk |-> p.mk, enable |-> p.enable, gone |-> gone, clean |-> FALSE]
    <3> DEFINE R == [at |-> p.at, doc |-> p.doc, create |-> p.create, update |-> p.update, rcpt |-> p.rcpt,
                     mk |-> p.mk, enable |-> p.enable, gone |-> p.gone, clean |-> p.clean]
               T == [p EXCEPT !.clean = FALSE]
               Q == [R EXCEPT !.clean = FALSE]
    <3>1. p = R
      BY <2>1 DEF PlanInv, PlanTypes
    <3>2. Marked(p) = [T EXCEPT !.gone = T.gone \union {d}]
      OBVIOUS
    <3> HIDE DEF p, R, Marked, gone
    <3>3. T = Q
      BY <3>1
    <3>4. Q.gone = p.gone
      BY DEF R
    <3>5. Q = [R EXCEPT !.clean = FALSE]
      OBVIOUS
    <3> HIDE DEF Q
    <3>6. Q = [at |-> p.at, doc |-> p.doc, create |-> p.create, update |-> p.update, rcpt |-> p.rcpt,
               mk |-> p.mk, enable |-> p.enable, gone |-> p.gone, clean |-> FALSE]
      BY <3>5 DEF R
    <3> DEFINE W == [Q EXCEPT !.gone = gone]
    <3>7. W = [Q EXCEPT !.gone = gone]
      OBVIOUS
    <3> HIDE DEF W
    <3>8. W = [at |-> p.at, doc |-> p.doc, create |-> p.create, update |-> p.update, rcpt |-> p.rcpt,
               mk |-> p.mk, enable |-> p.enable, gone |-> gone, clean |-> FALSE]
      BY <3>6, <3>7
    <3> HIDE DEF T
    <3>9. Marked(p) = [Q EXCEPT !.gone = gone]
      BY <3>2, <3>3, <3>4 DEF gone
    <3> QED
      BY <3>9, <3>7, <3>8, Zenon
  <2> HIDE DEF Marked, P
  <2>4. PlanInv(Marked(p), c2, S)
    <3>1. \A e \in Domain : c.dom[e] # Nothing => c2.dom[e] # Nothing \/ e \in gone
      BY <1>3
    <3>2. p.gone \subseteq gone
      OBVIOUS
    <3> HIDE DEF p, gone
    <3> QED
      BY <2>1, <2>3, <3>1, <3>2, OthersWrote
  <2> QED
    BY <2>2, <2>4, NoPlanFits
<1>6. P = [w \in Ways |-> P[w]]
  OBVIOUS
<1> HIDE DEF P
<1>7. ConfsInv' /\ ImportsInv'
  BY <1>1, <1>2, <1>4, <1>5, <1>6, NodePut
<1>8. RowsInv' /\ RoundsInv' /\ RolesInv'
  BY <1>1, <1>2, Untouched
<1>9. BoundsInv'
  BY <1>1, <1>2, Counted
<1> QED
  BY <1>7, <1>8, <1>9 DEF ClusterInv

\* An administrator uploads the document of a node, which is recorded.
LEMMA UploadKeeps ==
  ASSUME ClusterBounds, ClusterInv, NEW n \in Node, NEW m \in Node, NEW pw \in BOOLEAN, ImportConfig(n, m, pw)
  PROVE  ClusterInv'
<1> DEFINE doc == [Export(conf[m]) EXCEPT !.password = pw]
           q == PlanImport(doc, conf[n])
<1>1. RowsInv /\ RolesInv /\ RoundsInv /\ BoundsInv /\ ConfsInv /\ ImportsInv /\ led \subseteq Node
  BY DEF ClusterInv, RolesInv
<1>2. /\ UNCHANGED <<conf, rows, role, round, faults>> /\ Edit(n, "import") /\ led' = led \union {m}
      /\ imp' = [imp EXCEPT ![n]["api"] = q]
  BY DEF ImportConfig
<1>3. doc.dom = Export(conf[m]).dom /\ doc.acct = Export(conf[m]).acct
  BY DEF Export
<1> HIDE DEF doc
<1>4. PlanInv(q, conf[n], {n} \union led')
  <2>1. ConfInv(conf[m], {m} \union led) /\ ConfInv(conf[n], {n} \union led) /\ Nothing \notin DomainRow
    BY <1>1 DEF ConfsInv, ClusterBounds
  <2>2. {m} \union led \subseteq {n} \union led' /\ {n} \union led \subseteq {n} \union led'
    BY <1>2
  <2>3. ConfInv(conf[n], {n} \union led')
    BY <2>1, <2>2, MoreHosts
  <2> QED
    BY <1>3, <2>1, <2>2, <2>3, PlanIsRight
<1> HIDE DEF q
<1>5. led \subseteq led' /\ led' \subseteq Node
  BY <1>1, <1>2
<1>6. ImportsInv'
  BY <1>1, <1>2, <1>4, <1>5, PlanPut DEF Ways
<1>7. RowsInv' /\ RoundsInv' /\ RolesInv' /\ ConfsInv'
  BY <1>2, <1>5, Untouched
<1>8. BoundsInv'
  BY <1>1, <1>2, Counted
<1> QED
  BY <1>6, <1>7, <1>8 DEF ClusterInv

\* An administrator removes a row of the table of nodes.
LEMMA ForgetKeeps ==
  ASSUME ClusterBounds, ClusterInv, NEW n \in Node, NEW m \in Node, HandleForgetNode(n, m)
  PROVE  ClusterInv'
<1>1. RowsInv /\ BoundsInv /\ led \subseteq Node
  BY DEF ClusterInv, RolesInv
<1>2. /\ UNCHANGED <<conf, role, round, imp, led, faults>> /\ Edit(n, "forget")
      /\ UpsertNode(n, m, Nothing)
  BY DEF HandleForgetNode
<1>3. RowsInv'
  BY <1>1, <1>2, RowPut
<1>4. RoundsInv' /\ RolesInv' /\ ConfsInv' /\ ImportsInv'
  BY <1>1, <1>2, Untouched
<1>5. BoundsInv'
  BY <1>1, <1>2, Counted
<1> QED
  BY <1>3, <1>4, <1>5 DEF ClusterInv

\* Nothing is heard of a node, and its row ages or goes.
LEMMA SilenceKeeps ==
  ASSUME ClusterBounds, ClusterInv, NEW n \in Node, NEW m \in Node, Silence(n, m)
  PROVE  ClusterInv'
<1> DEFINE r == rows[n][m]
<1>1. RowsInv /\ BoundsInv /\ led \subseteq Node
  BY DEF ClusterInv, RolesInv
<1>2. UNCHANGED <<conf, role, round, imp, led, edits>> /\ Fault
  BY DEF Silence
<1>3. PICK age \in 1..2 : UpsertNode(n, m, [r EXCEPT !.age = age])
  BY DEF Silence
<1>4. RowOf(m, r)
  BY <1>1 DEF RowsInv, Silence
<1>5. r = [role |-> r.role, hash |-> r.hash, age |-> r.age]
  BY <1>4 DEF RowOf
<1> HIDE DEF r
<1>6. [r EXCEPT !.age = age] = [role |-> r.role, hash |-> r.hash, age |-> age]
  BY <1>5
<1>7. RowOf(m, [r EXCEPT !.age = age])
  BY <1>4, <1>6 DEF RowOf
<1>8. RowsInv'
  BY <1>1, <1>2, <1>3, <1>7, RowPut
<1>9. RoundsInv' /\ RolesInv' /\ ConfsInv' /\ ImportsInv'
  BY <1>1, <1>2, Untouched
<1>10. BoundsInv'
  BY <1>1, <1>2, Counted
<1> QED
  BY <1>8, <1>9, <1>10 DEF ClusterInv

\* The process ends in the middle of a round and starts with any role.
LEMMA RestartKeeps ==
  ASSUME ClusterBounds, ClusterInv, NEW n \in Node, Restart(n)
  PROVE  ClusterInv'
<1> DEFINE P == [w \in Ways |-> NoPlan]
<1>1. RowsInv /\ RolesInv /\ RoundsInv /\ BoundsInv /\ ConfsInv /\ ImportsInv
  BY DEF ClusterInv
<1>2. /\ UNCHANGED <<conf, rows, edits>> /\ Fault
      /\ round' = [round EXCEPT ![n] = Resting] /\ imp' = [imp EXCEPT ![n] = P]
      /\ led' = led \union {m \in Node : role'[m] = "primary"}
  BY DEF Restart, Ways
<1>3. role' \in [Node -> Roles]
  BY <1>1 DEF Restart, RolesInv, Roles
<1>4. RolesInv' /\ led \subseteq led' /\ led' \subseteq Node
  BY <1>1, <1>2, <1>3 DEF RolesInv
<1>5. RowsInv' /\ ConfsInv'
  BY <1>2, <1>4, Untouched
<1>6. RoundsInv'
  <2>1. \A m, k : RowOf(m, k) => (RowOf(m, k))'
    BY <1>4 DEF RowOf
  <2>2. \A m, k : CallTo(m, k) => (CallTo(m, k))'
    BY <2>1 DEF CallTo
  <2>3. ASSUME NEW q, RoundInv(q) PROVE RoundInv(q)'
    BY <1>4, <2>2, <2>3 DEF RoundInv
  <2>4. \A m \in Node : RoundInv(round'[m])
    BY <1>1, <1>2, Rests DEF RoundsInv
  <2>5. round' = [m \in Node |-> round'[m]]
    BY <1>1, <1>2 DEF RoundsInv
  <2>6. (\A m \in Node : RoundInv(round[m]))'
    BY <2>3, <2>4
  <2> QED
    BY <2>5, <2>6 DEF RoundsInv
<1>7. ImportsInv'
  <2>1. conf' = [conf EXCEPT ![n] = conf[n]] /\ ConfInv(conf[n], {n} \union led')
    BY <1>1, <1>2, <1>4, MoreHosts DEF ConfsInv
  <2>2. P = [w \in Ways |-> P[w]] /\ \A w \in Ways : PlanInv(P[w], conf[n], {n} \union led')
    BY NoPlanFits
  <2> HIDE DEF P
  <2> QED
    BY <1>1, <1>2, <1>4, <2>1, <2>2, NodePut
<1>8. BoundsInv'
  BY <1>1, <1>2, Counted
<1> QED
  BY <1>4, <1>5, <1>6, <1>7, <1>8 DEF ClusterInv

-----------------------------------------------------------------------------
(* Every step, and the theorems.                                           *)

\* The invariant is kept by every step.
LEMMA NextInv == ClusterBounds /\ ClusterInv /\ [ClusterNext]_vars => ClusterInv'
<1> SUFFICES ASSUME ClusterBounds, ClusterInv, [ClusterNext]_vars PROVE ClusterInv'
  OBVIOUS
<1>1. CASE UNCHANGED vars
  <2>1. UNCHANGED <<conf, rows, role, round, imp, led, edits, faults>> /\ led \subseteq Node
    BY <1>1 DEF vars, ClusterInv, RolesInv
  <2>2. RowsInv' /\ RoundsInv' /\ RolesInv' /\ ConfsInv' /\ ImportsInv'
    BY <2>1, Untouched
  <2>3. BoundsInv'
    BY <2>1 DEF ClusterInv, BoundsInv
  <2> QED
    BY <2>2, <2>3 DEF ClusterInv
<1>2. ASSUME NEW n \in Node, Administrator(n) PROVE ClusterInv'
  <2>1. CASE \E d \in Domain : PutDomain(n, d) \/ PutLimit(n, d) \/ DeleteDomain(n, d)
    BY <2>1, PutsKeep, DeleteKeeps
  <2>2. CASE \E d \in Domain, list \in SUBSET Address : SetRecipients(n, d, list)
    BY <2>2, PutsKeep
  <2>3. CASE \E u \in Account : CreateSMTPUser(n, u) \/ UpdateSMTPUser(n, u) \/ DeleteSMTPUser(n, u)
    BY <2>3, UsersKeep
  <2>4. CASE \E m \in Node : HandleForgetNode(n, m) \/ \E pw \in BOOLEAN : ImportConfig(n, m, pw)
    BY <2>4, ForgetKeeps, UploadKeeps
  <2> QED
    BY <1>2, <2>1, <2>2, <2>3, <2>4 DEF Administrator
<1>3. ASSUME NEW n \in Node, Round(n) PROVE ClusterInv'
  <2>1. CASE BeginRound(n) \/ SyncConfig(n) \/ Pull(n) \/ ImportStep(n, "sync") \/ ImportReturns(n)
    BY <2>1, BeginRoundKeeps, SyncKeeps, PullKeeps, ImportStepKeeps, ImportReturnsKeeps DEF Ways
  <2>2. CASE \E m \in Node : HandleHeartbeat(n, m) \/ TakeAnswer(n, m)
    BY <2>2, HeartbeatKeeps, AnswerKeeps
  <2> QED
    BY <1>3, <2>1, <2>2 DEF Round
<1>4. ASSUME NEW n \in Node, Upload(n) PROVE ClusterInv'
  BY <1>4, ImportStepKeeps, ApiReturnsKeeps DEF Upload, Ways
<1>5. ASSUME NEW n \in Node, Failure(n) PROVE ClusterInv'
  BY <1>5, PullFailsKeeps, RestartKeeps, CallFailsKeeps, SilenceKeeps DEF Failure
<1> QED
  BY <1>1, <1>2, <1>3, <1>4, <1>5 DEF ClusterNext

\* The inductive invariant: every row, answer and round names as primary only nodes
\* that have been one, every plan brings hosts of such nodes only, and a plan that
\* nobody disturbed has left to do exactly what the database lacks of the document.
THEOREM ClusterInvariant == ClusterBounds => (ClusterSpec => []ClusterInv)
<1> SUFFICES ASSUME ClusterBounds PROVE ClusterSpec => []ClusterInv
  OBVIOUS
<1>1. ClusterInit => ClusterInv
  BY InitInv
<1>2. ClusterInv /\ [ClusterNext]_vars => ClusterInv'
  BY NextInv
<1> QED
  BY <1>1, <1>2, PTL DEF ClusterSpec

\* Settings travel from nodes that are or have been primary, or whose document was
\* uploaded, and from no others (cluster.go, syncConfig), for any nodes and peers.
THEOREM SpreadFromPrimaries == ClusterBounds => (ClusterSpec => []OnlyPrimariesSpread)
<1> SUFFICES ASSUME ClusterBounds PROVE ClusterSpec => []OnlyPrimariesSpread
  OBVIOUS
<1>1. ClusterInv => OnlyPrimariesSpread
  BY DEF ClusterInv, ConfsInv, ConfInv, OnlyPrimariesSpread, Domains
<1> QED
  BY <1>1, ClusterInvariant, PTL

\* Databases and rounds have their types, and an import that nobody disturbed has
\* done its work when it returns (configio.go, planImport, applyImport), for any
\* documents and databases.
THEOREM UndisturbedImportsSettle == ClusterBounds => (ClusterSpec => []ImportSettles)
<1> SUFFICES ASSUME ClusterBounds PROVE ClusterSpec => []ImportSettles
  OBVIOUS
<1>1. ClusterInv => ImportSettles
  <2> SUFFICES ASSUME ClusterInv PROVE ImportSettles
    OBVIOUS
  <2>1. ClusterTypeOK
    <3>1. conf \in [Node -> Conf]
      BY DEF ClusterInv, ConfsInv, ConfInv
    <3>2. \A n, m \in Node : rows[n][m] # Nothing => rows[n][m].role \in {"primary", "follower"} /\ rows[n][m].age \in 0..2
      BY DEF ClusterInv, RowsInv, RowOf, Roles
    <3>3. role \in [Node -> {"primary", "follower"}]
      BY DEF ClusterInv, RolesInv, Roles
    <3>4. \A n \in Node : round[n].at \in {"idle", "greet", "pull", "import"}
      BY DEF ClusterInv, RoundsInv, RoundInv
    <3>5. \A n \in Node, w \in {"sync", "api"} : imp[n][w].at \in {"idle", "apply", "applied"}
      BY DEF ClusterInv, ImportsInv, Ways, PlanInv, PlanTypes
    <3> QED
      BY <3>1, <3>2, <3>3, <3>4, <3>5 DEF ClusterTypeOK, ClusterInv, BoundsInv
  <2>2. ASSUME NEW n \in Node, NEW w \in Ways, imp[n][w].at = "applied", imp[n][w].clean
        PROVE  Holds(imp[n][w].doc, conf[n])
    <3> DEFINE p == imp[n][w]
    <3>1. PlanInv(p, conf[n], {n} \union led)
      BY DEF ClusterInv, ImportsInv
    <3> HIDE DEF p
    <3>2. /\ \A d \in DOMAIN p.doc.dom : WillHold(p, conf[n], d)
          /\ DOMAIN p.create = {} /\ DOMAIN p.update = {} /\ DOMAIN p.rcpt = {}
      BY <2>2, <3>1 DEF p, PlanInv, PlanLeft
    <3>3. Holds(p.doc, conf[n])
      BY <3>2 DEF WillHold, Settings, Holds, Domains
    <3> QED
      BY <3>3 DEF p
  <2> QED
    BY <2>1, <2>2 DEF ImportSettles, Ways
<1> QED
  BY <1>1, ClusterInvariant, PTL
=============================================================================
