------------------------------- MODULE Cluster -------------------------------
(***************************************************************************)
(* Independent nodes that describe themselves to one another and let a     *)
(* follower pull the configuration of the primary.  Every node has its own *)
(* database: its configuration (domains, known recipients, submission      *)
(* accounts) and its cluster_nodes table.  A round of Node.round is a      *)
(* snapshot, one concurrent call to every peer, and syncConfig; what a     *)
(* round read travels in its record while administrators, the rounds of    *)
(* the peers and imports through the API go on.  An import is a plan made  *)
(* of reads and then one statement at a time, as in applyImport.           *)
(***************************************************************************)
EXTENDS Integers, FiniteSets, Functions, TLC

CONSTANTS Node,        \* node ids
          Domain,      \* domain names
          Account,     \* submission accounts
          Allowed,     \* the domains an account may send for
          Address,     \* known recipients
          Omitted,     \* a key the YAML document does not have
          Nothing,     \* no row
          Peers,       \* cluster.peers of each node, its own address left out
          Leaders,     \* the roles: the sets of nodes configured as primary
          Start,       \* the configurations the nodes may begin with
          Writers,     \* nodes whose administrators change something
          Ops,         \* what those administrators do
          MaxEdits,    \* bound: changes by administrators
          MaxFaults    \* bound: restarts, lost calls, times a node hears nothing for long

VARIABLES conf,    \* the configuration in each node's database
          rows,    \* cluster_nodes of each node
          role,    \* the role in each node's configuration file
          round,   \* the heartbeat round each node is in
          imp,     \* imports in progress: of the round, and through the API
          led,     \* history: the nodes that have been primary, or whose document was uploaded
          edits, faults

vars == <<conf, rows, role, round, imp, led, edits, faults>>

AllOps == {"domain", "limit", "delete", "recipients", "account", "enable", "drop", "import", "forget", "reassign"}

NoLimit == 0
DomainRow == [host : Node, limit : {NoLimit, 1}, rcpt : SUBSET Address]
Conf == [dom : [Domain -> DomainRow \union {Nothing}], acct : [Account -> {"none", "on", "off"}]]

\* What the nodes begin with was written by their own administrators or those of
\* a primary.
ClusterBounds ==
    /\ MaxEdits \in Nat /\ MaxFaults \in Nat
    /\ Nothing \notin DomainRow
    /\ Start \subseteq [Node -> Conf] /\ Leaders \subseteq SUBSET Node
    /\ \A start \in Start, leaders \in Leaders, n \in Node, d \in Domain :
           start[n].dom[d] # Nothing => start[n].dom[d].host \in {n} \union leaders

Domains(c) == {d \in Domain : c.dom[d] # Nothing}
Accounts(c) == {a \in Account : c.acct[a] # "none"}

-----------------------------------------------------------------------------
(* The document.                                                           *)

\* ExportConfigYAML: a limit that is not set and an empty list are left out.
Export(c) ==
    [dom |-> [d \in Domains(c) |->
                 [host |-> c.dom[d].host,
                  limit |-> IF c.dom[d].limit = NoLimit THEN Omitted ELSE c.dom[d].limit,
                  rcpt |-> IF c.dom[d].rcpt = {} THEN Omitted ELSE c.dom[d].rcpt]],
     acct |-> [a \in Accounts(c) |-> c.acct[a]],
     password |-> FALSE]

\* Mutant: the hash covers the names of the domains only
HashOfNames(c) == Domains(c)

\* The hash is taken of the exported text.
ConfigHash(c) == Export(c)

\* domainFromRequest: a field the request does not have keeps its value; the
\* list of recipients is not part of it.
DomainFromRequest(cd, old) ==
    [host |-> cd.host,
     limit |-> IF cd.limit # Omitted THEN cd.limit
               ELSE IF old # Nothing THEN old.limit ELSE NoLimit,
     rcpt |-> IF old # Nothing THEN old.rcpt ELSE {}]

NewRecipients(doc, c) ==
    {d \in DOMAIN doc.dom : doc.dom[d].rcpt # Omitted
        /\ doc.dom[d].rcpt # (IF c.dom[d] = Nothing THEN {} ELSE c.dom[d].rcpt)}

\* planImport refuses the document as a whole when an account may send for a
\* domain that neither the document nor the database has.
Importable(doc, c) == \A a \in DOMAIN doc.acct : Allowed[a] \subseteq DOMAIN doc.dom \union Domains(c)

NoPlan == [at |-> "idle", doc |-> Nothing, create |-> <<>>, update |-> <<>>, rcpt |-> <<>>,
           mk |-> {}, enable |-> <<>>, gone |-> {}, clean |-> TRUE]

\* Mutant: recipients are planned for changed domains only
ListsOfChangedOnly(doc, c) ==
    LET known == DOMAIN doc.dom \intersect Domains(c)
        differs == {d \in known : DomainFromRequest(doc.dom[d], c.dom[d]) # c.dom[d]}
        made == DOMAIN doc.dom \ known
    IN [NoPlan EXCEPT
          !.at = "apply", !.doc = doc,
          !.create = [d \in made |-> DomainFromRequest(doc.dom[d], Nothing)],
          !.update = [d \in differs |-> DomainFromRequest(doc.dom[d], c.dom[d])],
          !.rcpt = [d \in NewRecipients(doc, c) \intersect (made \union differs) |-> doc.dom[d].rcpt]]

PlanImport(doc, c) ==
    LET known == DOMAIN doc.dom \intersect Domains(c)
        lists == NewRecipients(doc, c)
        differs == {d \in known : d \in lists \/ DomainFromRequest(doc.dom[d], c.dom[d]) # c.dom[d]}
    IN [NoPlan EXCEPT
          !.at = "apply", !.doc = doc,
          !.create = [d \in DOMAIN doc.dom \ known |-> DomainFromRequest(doc.dom[d], Nothing)],
          !.update = [d \in differs |-> DomainFromRequest(doc.dom[d], c.dom[d])],
          !.rcpt = [d \in lists |-> doc.dom[d].rcpt],
          !.mk = IF doc.password THEN DOMAIN doc.acct \ Accounts(c) ELSE {},
          !.enable = [a \in {a \in DOMAIN doc.acct \intersect Accounts(c) : c.acct[a] # doc.acct[a]}
                        |-> doc.acct[a]]]

-----------------------------------------------------------------------------
(* The peer table.                                                         *)

\* age stands for last_seen: 0 within three intervals, 1 silent for longer, 2
\* silent for a week.
Row(r, h) == [role |-> r, hash |-> h, age |-> 0]
Healthy(row) == row # Nothing /\ row.age = 0

UpsertNode(n, m, row) == rows' = [rows EXCEPT ![n][m] = row]

ForgetStaleNodes(n) ==
    rows' = [rows EXCEPT ![n] = [m \in Node |-> IF @[m] # Nothing /\ @[m].age = 2 THEN Nothing ELSE @[m]]]

NoCall == [at |-> "none"]
Resting == [at |-> "idle", self |-> Nothing, calls |-> [m \in Node |-> NoCall], from |-> Nothing]

EndRound(n) ==
    /\ round' = [round EXCEPT ![n] = Resting]
    /\ ForgetStaleNodes(n)

ClusterInit ==
    \E leaders \in Leaders :
        /\ conf \in Start
        /\ rows = [n \in Node |-> [m \in Node |-> Nothing]]
        /\ role = [n \in Node |-> IF n \in leaders THEN "primary" ELSE "follower"]
        /\ round = [n \in Node |-> Resting]
        /\ imp = [n \in Node |-> [w \in {"sync", "api"} |-> NoPlan]]
        /\ led = leaders
        /\ edits = 0 /\ faults = 0

-----------------------------------------------------------------------------
(* A round.                                                                *)

Fault == faults < MaxFaults /\ faults' = faults + 1

\* Snapshot, the node's own row, and a call to every peer.
BeginRound(n) ==
    LET self == ConfigHash(conf[n])
    IN /\ round[n].at = "idle"
       /\ UpsertNode(n, n, Row(role[n], self))
       /\ round' = [round EXCEPT ![n] = [Resting EXCEPT !.at = "greet", !.self = self,
                       !.calls = [m \in Node |-> [at |-> IF m \in Peers[n] THEN "sent" ELSE "none"]]]]
       /\ UNCHANGED <<conf, role, imp, led, edits, faults>>

\* The signature fits and is not too old, and the caller is somebody else.  A
\* call that is refused is one that fails.
Verify(n, m) == n # m

\* The peer records the caller and answers with a snapshot of itself.
HandleHeartbeat(n, m) ==
    /\ round[n].calls[m].at = "sent" /\ Verify(n, m)
    /\ UpsertNode(m, n, Row(role[n], round[n].self))
    /\ round' = [round EXCEPT ![n].calls[m] = [at |-> "answered", row |-> Row(role[m], ConfigHash(conf[m]))]]
    /\ UNCHANGED <<conf, role, imp, led, edits, faults>>

\* The answer arrives, perhaps after a newer heartbeat of the same peer.
TakeAnswer(n, m) ==
    /\ round[n].calls[m].at = "answered"
    /\ UpsertNode(n, m, round[n].calls[m].row)
    /\ round' = [round EXCEPT ![n].calls[m] = NoCall]
    /\ UNCHANGED <<conf, role, imp, led, edits, faults>>

\* The call times out, before or after the peer handled it.
CallFails(n, m) ==
    /\ round[n].calls[m] # NoCall
    /\ Fault
    /\ round' = [round EXCEPT ![n].calls[m] = NoCall]
    /\ UNCHANGED <<conf, rows, role, imp, led, edits>>

\* Mutant: followers pull from any node that is healthy
AnyPeer(n) == {m \in Node \ {n} : Healthy(rows[n][m])}

Primaries(n) == {m \in Node \ {n} : Healthy(rows[n][m]) /\ rows[n][m].role = "primary"}

\* syncConfig up to the call: a follower that sees one healthy primary, with
\* another hash than its own had when the round began, pulls from it.
SyncConfig(n) ==
    LET sources == {p \in Primaries(n) : rows[n][p].hash # round[n].self}
    IN /\ round[n].at = "greet" /\ \A m \in Node : round[n].calls[m] = NoCall
       /\ IF role[n] = "follower" /\ Cardinality(Primaries(n)) = 1 /\ sources # {}
          THEN /\ round' = [round EXCEPT ![n].at = "pull", ![n].from = CHOOSE p \in sources : TRUE]
               /\ UNCHANGED rows
          ELSE EndRound(n)
       /\ UNCHANGED <<conf, role, imp, led, edits, faults>>

\* The document is what the peer has by now; a bad one ends the round.
Pull(n) ==
    LET doc == Export(conf[round[n].from])
    IN /\ round[n].at = "pull"
       /\ IF Importable(doc, conf[n])
          THEN /\ imp' = [imp EXCEPT ![n]["sync"] = PlanImport(doc, conf[n])]
               /\ round' = [round EXCEPT ![n].at = "import"]
               /\ UNCHANGED rows
          ELSE EndRound(n) /\ UNCHANGED imp
       /\ UNCHANGED <<conf, role, led, edits, faults>>

PullFails(n) ==
    /\ round[n].at = "pull" /\ Fault /\ EndRound(n)
    /\ UNCHANGED <<conf, role, imp, led, edits>>

-----------------------------------------------------------------------------
(* applyImport, one statement at a time.                                   *)

Without(f, x) == Restrict(f, DOMAIN f \ {x})

\* Somebody else wrote to the database of n while an import was under way.
Disturbed(n, by) ==
    [w \in {"sync", "api"} |-> IF w = by \/ imp[n][w] = NoPlan THEN imp[n][w] ELSE [imp[n][w] EXCEPT !.clean = FALSE]]

\* Every stage runs only when the one before it is through.
Left(p) == IF p.create # <<>> THEN "create" ELSE IF p.update # <<>> THEN "update"
           ELSE IF p.rcpt # <<>> THEN "rcpt" ELSE IF p.mk # {} THEN "mk"
           ELSE IF p.enable # <<>> THEN "enable" ELSE "done"
Applying(n, w, stage) == imp[n][w].at = "apply" /\ Left(imp[n][w]) = stage

Proceed(n, w, plan) == imp' = [imp EXCEPT ![n] = [Disturbed(n, w) EXCEPT ![w] = plan]]

\* A statement that fails ends the import; what it did so far stays.
GiveUp(n, w) ==
    /\ imp' = [imp EXCEPT ![n][w] = NoPlan]
    /\ UNCHANGED conf

ApplyCreate(n, w, d) ==
    LET p == imp[n][w]
    IN /\ Applying(n, w, "create") /\ d \in DOMAIN p.create
       /\ IF conf[n].dom[d] # Nothing THEN GiveUp(n, w)
          ELSE /\ conf' = [conf EXCEPT ![n].dom[d] = p.create[d]]
               /\ Proceed(n, w, [p EXCEPT !.create = Without(@, d), !.gone = @ \ {d}])

\* By the id the plan read: a domain deleted since is not found, not even when
\* another one has taken its name.
ApplyUpdate(n, w, d) ==
    LET p == imp[n][w]
    IN /\ Applying(n, w, "update") /\ d \in DOMAIN p.update
       /\ IF d \in p.gone THEN GiveUp(n, w)
          ELSE /\ conf' = [conf EXCEPT ![n].dom[d] = [p.update[d] EXCEPT !.rcpt = conf[n].dom[d].rcpt]]
               /\ Proceed(n, w, [p EXCEPT !.update = Without(@, d)])

ApplyRecipients(n, w, d) ==
    LET p == imp[n][w]
    IN /\ Applying(n, w, "rcpt") /\ d \in DOMAIN p.rcpt
       /\ IF conf[n].dom[d] = Nothing THEN GiveUp(n, w)
          ELSE /\ conf' = [conf EXCEPT ![n].dom[d].rcpt = p.rcpt[d]]
               /\ Proceed(n, w, [p EXCEPT !.rcpt = Without(@, d)])

ApplyNewAccount(n, w, a) ==
    LET p == imp[n][w]
    IN /\ Applying(n, w, "mk") /\ a \in p.mk
       /\ IF conf[n].acct[a] # "none" THEN GiveUp(n, w)
          ELSE /\ conf' = [conf EXCEPT ![n].acct[a] = "on"]
               /\ Proceed(n, w, [p EXCEPT !.mk = @ \ {a}])

ApplyEnabled(n, w, a) ==
    LET p == imp[n][w]
    IN /\ Applying(n, w, "enable") /\ a \in DOMAIN p.enable
       /\ IF conf[n].acct[a] = "none" THEN GiveUp(n, w)
          ELSE /\ conf' = [conf EXCEPT ![n].acct[a] = p.enable[a]]
               /\ Proceed(n, w, [p EXCEPT !.enable = Without(@, a)])

ImportStep(n, w) ==
    /\ \/ \E d \in Domain : ApplyCreate(n, w, d) \/ ApplyUpdate(n, w, d) \/ ApplyRecipients(n, w, d)
       \/ \E a \in Account : ApplyNewAccount(n, w, a) \/ ApplyEnabled(n, w, a)
       \/ /\ Applying(n, w, "done")
          /\ imp' = [imp EXCEPT ![n][w].at = "applied"]
          /\ UNCHANGED conf
    /\ UNCHANGED <<rows, role, round, led, edits, faults>>

\* The import has returned, with or without an error: the round goes on.
ImportReturns(n) ==
    /\ round[n].at = "import" /\ imp[n]["sync"].at # "apply"
    /\ imp' = [imp EXCEPT ![n]["sync"] = NoPlan]
    /\ EndRound(n)
    /\ UNCHANGED <<conf, role, led, edits, faults>>

ApiReturns(n) ==
    /\ imp[n]["api"].at = "applied"
    /\ imp' = [imp EXCEPT ![n]["api"] = NoPlan]
    /\ UNCHANGED <<conf, rows, role, round, led, edits, faults>>

-----------------------------------------------------------------------------
(* Administrators, and what happens to a node.                             *)

Edit(n, op) ==
    /\ n \in Writers /\ op \in Ops /\ edits < MaxEdits
    /\ edits' = edits + 1
Change(n, op, c) ==
    /\ Edit(n, op)
    /\ conf' = [conf EXCEPT ![n] = c]
    /\ imp' = [imp EXCEPT ![n] = Disturbed(n, "nobody")]
    /\ UNCHANGED <<rows, role, round, led, faults>>

\* handleCreateDomain, and handleUpdateDomain setting another primary.  The
\* host names the administrator who wrote it.
PutDomain(n, d) ==
    /\ d \in Domains(conf[n]) => conf[n].dom[d].host # n
    /\ Change(n, "domain", [conf[n] EXCEPT !.dom[d] =
                 IF @ = Nothing THEN [host |-> n, limit |-> NoLimit, rcpt |-> {}] ELSE [@ EXCEPT !.host = n]])

\* handleUpdateDomain with a monthly limit; zero lifts it.
PutLimit(n, d) ==
    /\ conf[n].dom[d] # Nothing
    /\ Change(n, "limit", [conf[n] EXCEPT !.dom[d].limit = 1 - @])

SetRecipients(n, d, list) ==
    /\ conf[n].dom[d] # Nothing /\ conf[n].dom[d].rcpt # list
    /\ Change(n, "recipients", [conf[n] EXCEPT !.dom[d].rcpt = list])

\* The accounts that name the domain keep naming it.
DeleteDomain(n, d) ==
    /\ conf[n].dom[d] # Nothing
    /\ Edit(n, "delete")
    /\ conf' = [conf EXCEPT ![n].dom[d] = Nothing]
    /\ imp' = [imp EXCEPT ![n] = [w \in {"sync", "api"} |->
                  IF imp[n][w] = NoPlan THEN NoPlan ELSE [imp[n][w] EXCEPT !.clean = FALSE, !.gone = @ \union {d}]]]
    /\ UNCHANGED <<rows, role, round, led, faults>>

CreateSMTPUser(n, a) ==
    /\ conf[n].acct[a] = "none" /\ Allowed[a] \subseteq Domains(conf[n])
    /\ Change(n, "account", [conf[n] EXCEPT !.acct[a] = "on"])

UpdateSMTPUser(n, a) ==
    /\ conf[n].acct[a] # "none"
    /\ Change(n, "enable", [conf[n] EXCEPT !.acct[a] = IF @ = "on" THEN "off" ELSE "on"])

DeleteSMTPUser(n, a) ==
    /\ conf[n].acct[a] # "none"
    /\ Change(n, "drop", [conf[n] EXCEPT !.acct[a] = "none"])

\* handleImportConfig with what m exports now, passwords added or not.
ImportConfig(n, m, password) ==
    LET doc == [Export(conf[m]) EXCEPT !.password = password]
    IN /\ imp[n]["api"].at = "idle" /\ Importable(doc, conf[n])
       /\ Edit(n, "import")
       /\ imp' = [imp EXCEPT ![n]["api"] = PlanImport(doc, conf[n])]
       /\ led' = led \union {m}
       /\ UNCHANGED <<conf, rows, role, round, faults>>

HandleForgetNode(n, m) ==
    /\ m # n /\ rows[n][m] # Nothing
    /\ Edit(n, "forget")
    /\ UpsertNode(n, m, Nothing)
    /\ UNCHANGED <<conf, role, round, imp, led, faults>>

\* The process stops, in the middle of anything, and starts again, perhaps
\* with another primary_node_id in its file.
Restart(n) ==
    /\ Fault
    /\ role' \in {role} \union (IF "reassign" \in Ops THEN {[role EXCEPT ![n] = r] : r \in {"primary", "follower"}} ELSE {})
    /\ led' = led \union {m \in Node : role'[m] = "primary"}
    /\ round' = [round EXCEPT ![n] = Resting]
    /\ imp' = [imp EXCEPT ![n] = [w \in {"sync", "api"} |-> NoPlan]]
    /\ UNCHANGED <<conf, rows, edits>>

\* Nothing is heard of m for three intervals, or for a week.  A round is over
\* long before: cluster.timeout is shorter than three intervals.
Silence(n, m) ==
    /\ Fault
    /\ round[n].at = "idle" /\ rows[n][m] # Nothing
    /\ \E age \in 1..2 : age > rows[n][m].age /\ UpsertNode(n, m, [rows[n][m] EXCEPT !.age = age])
    /\ UNCHANGED <<conf, role, round, imp, led, edits>>

Administrator(n) ==
    \/ \E d \in Domain : PutDomain(n, d) \/ PutLimit(n, d) \/ DeleteDomain(n, d)
    \/ \E d \in Domain, list \in SUBSET Address : SetRecipients(n, d, list)
    \/ \E a \in Account : CreateSMTPUser(n, a) \/ UpdateSMTPUser(n, a) \/ DeleteSMTPUser(n, a)
    \/ \E m \in Node : HandleForgetNode(n, m) \/ \E pw \in BOOLEAN : ImportConfig(n, m, pw)

\* The goroutine of Run, and the handlers its calls reach.
Round(n) ==
    \/ BeginRound(n) \/ SyncConfig(n) \/ Pull(n) \/ ImportStep(n, "sync") \/ ImportReturns(n)
    \/ \E m \in Node : HandleHeartbeat(n, m) \/ TakeAnswer(n, m)

Upload(n) == ImportStep(n, "api") \/ ApiReturns(n)

Failure(n) == PullFails(n) \/ Restart(n) \/ \E m \in Node : CallFails(n, m) \/ Silence(n, m)

ClusterNext == \E n \in Node : Administrator(n) \/ Round(n) \/ Upload(n) \/ Failure(n)

ClusterSpec == ClusterInit /\ [][ClusterNext]_vars

-----------------------------------------------------------------------------
(* Properties.                                                             *)

\* Types of the databases and of the rounds.
ClusterTypeOK ==
    /\ conf \in [Node -> Conf]
    /\ \A n, m \in Node : rows[n][m] # Nothing => rows[n][m].role \in {"primary", "follower"} /\ rows[n][m].age \in 0..2
    /\ role \in [Node -> {"primary", "follower"}]
    /\ \A n \in Node : round[n].at \in {"idle", "greet", "pull", "import"}
    /\ \A n \in Node, w \in {"sync", "api"} : imp[n][w].at \in {"idle", "apply", "applied"}
    /\ edits \in 0..MaxEdits /\ faults \in 0..MaxFaults

\* Synchronisation carries settings from a primary to the followers and in no
\* other direction: what a node has was written by its own administrators, by
\* those of a node that has been primary or by those of one whose document an
\* administrator has uploaded to some node, however stale the table of peers is
\* when syncConfig reads it and whoever is restarted with another role.
OnlyPrimariesSpread ==
    \A n \in Node : \A d \in Domains(conf[n]) : conf[n].dom[d].host \in {n} \union led

\* A configuration has everything a document says about domains.
Holds(doc, c) ==
    \A d \in DOMAIN doc.dom :
        /\ d \in Domains(c)
        /\ c.dom[d].host = doc.dom[d].host
        /\ doc.dom[d].limit \in {Omitted, c.dom[d].limit}
        /\ doc.dom[d].rcpt \in {Omitted, c.dom[d].rcpt}

\* An import that nobody disturbed has done its work when applyImport returns:
\* the database has every domain, setting and list the document has, although
\* the plan was made before and applied one statement at a time.
ImportSettles ==
    ClusterTypeOK /\ \A n \in Node, w \in {"sync", "api"} :
        imp[n][w].at = "applied" /\ imp[n][w].clean => Holds(imp[n][w].doc, conf[n])

Followers == {n \in Node : role[n] = "follower"}
Agrees(f, p) == Holds(Export(conf[p]), conf[f])

\* When a primary's document stays one that its followers can import, every
\* follower ends up with every domain of the primary and with the settings the
\* document has for it: lost calls, overtaken answers, restarts in the middle of
\* an import and changes made on the follower only delay it.
Converges ==
    <>[](\A p \in Node \ Followers, f \in Followers : Importable(Export(conf[p]), conf[f]))
        => <>[](\A p \in Node \ Followers, f \in Followers : Agrees(f, p))

\* handleClusterState: the node's own row against a peer's.
ConfigDrift(n, m) == rows[n][n] # Nothing /\ rows[n][m] # Nothing /\ rows[n][m].hash # rows[n][n].hash

\* The fleet view comes to tell the truth: once nothing changes, a node shows
\* drift against a peer exactly when their configurations differ.
DriftIsTruthful ==
    <>[](\A n \in Node : \A m \in Peers[n] : ConfigDrift(n, m) <=> Export(conf[n]) # Export(conf[m]))
=============================================================================
