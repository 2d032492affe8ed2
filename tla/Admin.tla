--------------------------------- MODULE Admin ---------------------------------
(***************************************************************************)
(* The requests of internal/api that change the queue: retry, release and  *)
(* delete a message, delete a domain, enable or disable one.  A handler    *)
(* that reads and then writes does so in several statements, and other     *)
(* components run between them.                                            *)
(***************************************************************************)
EXTENDS QueueStore

CONSTANTS MaxRequests, \* bound: requests of administrators
          ListLimit    \* rows ListMessages returns at most (500 in the code)

ASSUME AdminAssumption == MaxRequests \in Nat /\ ListLimit \in Nat \ {0}

VARIABLES
  deleting, \* [Msg -> where handleDeleteMessage is]
  dropping, \* [Domain -> where handleDeleteDomain is]
  requests  \* requests so far

adminVars == <<deleting, dropping, requests>>

AdminTypeOK ==
  /\ deleting \in [Msg -> {"no", "row", "body"}]
  /\ dropping \in [Domain -> {"no", "bodies", "row"}]
  /\ requests \in 0..MaxRequests

AdminInit ==
  /\ deleting = [m \in Msg |-> "no"]
  /\ dropping = [d \in Domain |-> "no"]
  /\ requests = 0

Request == requests < MaxRequests /\ requests' = requests + 1

-----------------------------------------------------------------------------

RetryMessage(m) ==
  /\ Request
  /\ RetryNow(m)
  /\ UNCHANGED <<spool, domain, home, rcpts, writtenOff, faults, deleting, dropping>>

ReleaseMessage(m) ==
  /\ Request
  /\ Release(m)
  /\ UNCHANGED <<spool, domain, home, rcpts, writtenOff, faults, deleting, dropping>>

\* handleDeleteMessage refuses a row it reads as delivering ...
DeleteMessageRead(m) ==
  /\ Request
  /\ Stored(m) /\ queue[m].status # "delivering" /\ deleting[m] = "no"
  /\ deleting' = [deleting EXCEPT ![m] = "row"]
  /\ UNCHANGED <<storeVars, dropping>>

\* ... then deletes it whatever it is by now; a row that is gone, or an error,
\* ends the request ...
DeleteMessageRow(m) ==
  /\ deleting[m] = "row"
  /\ \/ /\ Stored(m) /\ NoFault
        /\ DeleteMessage(m)
        /\ deleting' = [deleting EXCEPT ![m] = "body"]
     \/ /\ (~Stored(m) /\ NoFault) \/ Fault
        /\ deleting' = [deleting EXCEPT ![m] = "no"]
        /\ UNCHANGED <<queue, writtenOff>>
  /\ UNCHANGED <<spool, domain, home, rcpts, dropping, requests>>

\* ... and then its body
DeleteMessageBody(m) ==
  /\ deleting[m] = "body"
  /\ spool' = spool \ {m}
  /\ deleting' = [deleting EXCEPT ![m] = "no"]
  /\ UNCHANGED <<queue, domain, home, rcpts, writtenOff, faults, dropping, requests>>

\* handleDeleteDomain: 409 while mail is pending, unless force is given
DeleteDomainRead(d, force) ==
  /\ Request
  /\ domain[d].exists /\ dropping[d] = "no"
  /\ force \/ PendingOf(d) = {}
  /\ dropping' = [dropping EXCEPT ![d] = "bodies"]
  /\ UNCHANGED <<storeVars, deleting>>

\* The rows ListMessages returns for a domain
Listed(d) ==
  IF Cardinality(RowsOf(d)) <= ListLimit THEN {RowsOf(d)}
  ELSE {S \in SUBSET RowsOf(d) : Cardinality(S) = ListLimit}

\* A list that cannot be read leaves the bodies where they are
DeleteDomainBodies(d) ==
  /\ dropping[d] = "bodies"
  /\ \/ /\ NoFault
        /\ \E S \in Listed(d) : /\ spool' = spool \ S
                                /\ writtenOff' = writtenOff \cup S
     \/ Fault /\ UNCHANGED <<spool, writtenOff>>
  /\ dropping' = [dropping EXCEPT ![d] = "row"]
  /\ UNCHANGED <<queue, domain, home, rcpts, deleting, requests>>

\* An error ends the request: the domain stays, its bodies are gone
DeleteDomainRow(d) ==
  /\ dropping[d] = "row"
  /\ \/ NoFault /\ DeleteDomain(d)
     \/ Fault /\ UNCHANGED <<queue, domain, writtenOff>>
  /\ dropping' = [dropping EXCEPT ![d] = "no"]
  /\ UNCHANGED <<spool, home, rcpts, deleting, requests>>

\* PATCH enabled
SetEnabled(d) ==
  /\ Request
  /\ domain[d].exists
  /\ domain' = [domain EXCEPT ![d].enabled = ~@]
  /\ UNCHANGED <<queue, spool, home, rcpts, writtenOff, faults, deleting, dropping>>

AdminStep ==
  \/ \E m \in Msg : \/ RetryMessage(m) \/ ReleaseMessage(m)
                    \/ DeleteMessageRead(m) \/ DeleteMessageRow(m) \/ DeleteMessageBody(m)
  \/ \E d \in Domain : \/ \E force \in BOOLEAN : DeleteDomainRead(d, force)
                       \/ DeleteDomainBodies(d) \/ DeleteDomainRow(d) \/ SetEnabled(d)

\* The process dies: the requests under way go no further
AdminStop ==
  /\ deleting' = [m \in Msg |-> "no"]
  /\ dropping' = [d \in Domain |-> "no"]
  /\ UNCHANGED requests
=============================================================================
