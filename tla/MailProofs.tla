------------------------------ MODULE MailProofs ------------------------------
(***************************************************************************)
(* The mail path, for every value of the constants: types; no mail is      *)
(* lost, by the invariant MailInv of Spool; and a message stays on its     *)
(* path, by the invariant PathInv.                                         *)
(***************************************************************************)
EXTENDS Spool, TLAPS

-----------------------------------------------------------------------------
(* Type correctness.                                                       *)

\* The absence of a row is a value of the table (GetMessage finding nothing)
LEMMA NoRowType == NoRow \in Row
BY BoundsAssumption DEF NoRow, Row, Pending, Settled

\* The attempts column, attempts + 1 in Reschedule and MarkFailed, stays in its range
LEMMA BumpType == \A n \in 0..MaxAttempts : Bump(n) \in 0..MaxAttempts
BY BoundsAssumption DEF Bump

\* A row keeps its type when columns are given values of their types
LEMMA RowUpdate ==
  ASSUME NEW r \in Row
  PROVE  /\ \A s \in Pending \cup Settled : [r EXCEPT !.status = s] \in Row
         /\ \A R \in SUBSET Rcpt : [r EXCEPT !.to = R] \in Row
         /\ [r EXCEPT !.quarantined = TRUE] \in Row
         /\ [r EXCEPT !.due = TRUE] \in Row
         /\ [r EXCEPT !.overdue = TRUE] \in Row
         /\ [r EXCEPT !.status = "failed", !.tries = Bump(@)] \in Row
         /\ [r EXCEPT !.status = "queued", !.due = FALSE, !.tries = Bump(@)] \in Row
         /\ [r EXCEPT !.status = "queued", !.due = TRUE] \in Row
         /\ [r EXCEPT !.quarantined = FALSE, !.status = "queued", !.due = TRUE] \in Row
<1>1. \A s \in Pending \cup Settled : [r EXCEPT !.status = s] \in Row
  BY DEF Row
<1>2. \A R \in SUBSET Rcpt : [r EXCEPT !.to = R] \in Row
  BY DEF Row
<1>3. /\ [r EXCEPT !.quarantined = TRUE] \in Row
      /\ [r EXCEPT !.due = TRUE] \in Row
      /\ [r EXCEPT !.overdue = TRUE] \in Row
  BY DEF Row
<1>4. [r EXCEPT !.status = "failed", !.tries = Bump(@)] \in Row
  BY BumpType DEF Row, Settled
<1>5. [r EXCEPT !.status = "queued", !.due = FALSE, !.tries = Bump(@)] \in Row
  BY BumpType DEF Row, Pending
<1>6. [r EXCEPT !.status = "queued", !.due = TRUE] \in Row
  BY DEF Row, Pending
<1>7. [r EXCEPT !.quarantined = FALSE, !.status = "queued", !.due = TRUE] \in Row
  BY DEF Row, Pending
<1> QED
  BY <1>1, <1>2, <1>3, <1>4, <1>5, <1>6, <1>7

\* What a statement on one row does to the columns the invariants read
RowBecomes(m, s, R) ==
  /\ queue' \in [Msg -> Row]
  /\ queue'[m].status = s /\ queue'[m].to = R
  /\ \A n \in Msg \ {m} : queue'[n] = queue[n]

\* The statements WHERE id = ? of internal/store/queue.go and filters.go touch the
\* one row they name, and leave it well typed
LEMMA StatementsOnOneRow ==
  ASSUME StoreTypeOK, NEW m \in Msg
  PROVE  /\ \A d \in Domain, R \in SUBSET Rcpt :
              Enqueue(m, d, R) => /\ RowBecomes(m, "queued", R)
                                  /\ home' \in [Msg -> Domain]
                                  /\ rcpts' \in [Msg -> SUBSET Rcpt]
         /\ MarkDelivered(m) => RowBecomes(m, "delivered", queue[m].to)
         /\ MarkFailed(m) => RowBecomes(m, "failed", queue[m].to)
         /\ Reschedule(m) => RowBecomes(m, "queued", queue[m].to)
         /\ \A R \in SUBSET Rcpt : SetRecipients(m, R) => RowBecomes(m, queue[m].status, R)
         /\ RetryNow(m) => RowBecomes(m, "queued", queue[m].to)
         /\ Quarantine(m) => RowBecomes(m, queue[m].status, queue[m].to)
         /\ Release(m) => RowBecomes(m, "queued", queue[m].to)
         /\ DeleteMessage(m) => RowBecomes(m, "absent", {})
<1> DEFINE r == queue[m]
<1>r. r \in Row
  BY DEF StoreTypeOK
<1>q. queue \in [Msg -> Row]
  BY DEF StoreTypeOK
<1>1. ASSUME NEW d \in Domain, NEW R \in SUBSET Rcpt, Enqueue(m, d, R)
      PROVE  /\ RowBecomes(m, "queued", R) /\ home' \in [Msg -> Domain]
             /\ rcpts' \in [Msg -> SUBSET Rcpt]
  <2>1. [status |-> "queued", to |-> R, quarantined |-> FALSE, due |-> TRUE,
         overdue |-> FALSE, tries |-> 0] \in Row
    BY BoundsAssumption DEF Row, Pending
  <2> QED
    BY <1>1, <1>q, <2>1 DEF Enqueue, StoreTypeOK, RowBecomes
<1>2. MarkDelivered(m) => RowBecomes(m, "delivered", r.to)
  <2>1. [r EXCEPT !.status = "delivered"] \in Row
    BY <1>r, RowUpdate DEF Settled
  <2>2. [r EXCEPT !.status = "delivered"].status = "delivered"
        /\ [r EXCEPT !.status = "delivered"].to = r.to
    BY <1>r DEF Row
  <2> QED
    BY <1>q, <2>1, <2>2 DEF MarkDelivered, RowBecomes
<1>3. MarkFailed(m) => RowBecomes(m, "failed", r.to)
  <2> DEFINE t == [r EXCEPT !.status = "failed", !.tries = Bump(@)]
  <2>1. t \in Row
    BY <1>r, RowUpdate
  <2>2. t.status = "failed" /\ t.to = r.to
    BY <1>r DEF Row
  <2>3. MarkFailed(m) => queue' = [queue EXCEPT ![m] = t]
    BY DEF MarkFailed
  <2> HIDE DEF t
  <2> QED
    BY <1>q, <2>1, <2>2, <2>3 DEF RowBecomes
<1>4. Reschedule(m) => RowBecomes(m, "queued", r.to)
  <2> DEFINE t == [r EXCEPT !.status = "queued", !.due = FALSE, !.tries = Bump(@)]
  <2>1. t \in Row
    BY <1>r, RowUpdate
  <2>2. t.status = "queued" /\ t.to = r.to
    BY <1>r DEF Row
  <2>3. Reschedule(m) => queue' = [queue EXCEPT ![m] = t]
    BY DEF Reschedule
  <2> HIDE DEF t
  <2> QED
    BY <1>q, <2>1, <2>2, <2>3 DEF RowBecomes
<1>5. ASSUME NEW R \in SUBSET Rcpt, SetRecipients(m, R)
      PROVE  RowBecomes(m, r.status, R)
  <2>1. [r EXCEPT !.to = R] \in Row
    BY <1>r, RowUpdate
  <2>2. [r EXCEPT !.to = R].status = r.status /\ [r EXCEPT !.to = R].to = R
    BY <1>r DEF Row
  <2> QED
    BY <1>5, <1>q, <2>1, <2>2 DEF SetRecipients, RowBecomes
<1>6. RetryNow(m) => RowBecomes(m, "queued", r.to)
  <2> DEFINE t == [r EXCEPT !.status = "queued", !.due = TRUE]
  <2>1. t \in Row
    BY <1>r, RowUpdate
  <2>2. t.status = "queued" /\ t.to = r.to
    BY <1>r DEF Row
  <2>3. RetryNow(m) => queue' = [queue EXCEPT ![m] = t]
    BY DEF RetryNow
  <2> HIDE DEF t
  <2> QED
    BY <1>q, <2>1, <2>2, <2>3 DEF RowBecomes
<1>7. Quarantine(m) => RowBecomes(m, r.status, r.to)
  <2>1. [r EXCEPT !.quarantined = TRUE] \in Row
    BY <1>r, RowUpdate
  <2>2. [r EXCEPT !.quarantined = TRUE].status = r.status
        /\ [r EXCEPT !.quarantined = TRUE].to = r.to
    BY <1>r DEF Row
  <2> QED
    BY <1>q, <2>1, <2>2 DEF Quarantine, RowBecomes
<1>8. Release(m) => RowBecomes(m, "queued", r.to)
  <2> DEFINE t == [r EXCEPT !.quarantined = FALSE, !.status = "queued", !.due = TRUE]
  <2>1. t \in Row
    BY <1>r, RowUpdate
  <2>2. t.status = "queued" /\ t.to = r.to
    BY <1>r DEF Row
  <2>3. Release(m) => queue' = [queue EXCEPT ![m] = t]
    BY DEF Release
  <2> HIDE DEF t
  <2> QED
    BY <1>q, <2>1, <2>2, <2>3 DEF RowBecomes
<1>9. DeleteMessage(m) => RowBecomes(m, "absent", {})
  <2>1. NoRow.status = "absent" /\ NoRow.to = {}
    BY DEF NoRow
  <2> QED
    BY <1>q, <2>1, NoRowType DEF DeleteMessage, RowBecomes
<1> QED
  BY <1>1, <1>2, <1>3, <1>4, <1>5, <1>6, <1>7, <1>8, <1>9

\* What a statement on the rows in S does: their status becomes s
RowsBecome(S, s) ==
  /\ queue' \in [Msg -> Row]
  /\ \A n \in Msg \cap S : queue'[n].status = s /\ queue'[n].to = queue[n].to
  /\ \A n \in Msg \ S : queue'[n] = queue[n]

\* The rows in S are deleted
RowsGo(S) ==
  /\ queue' \in [Msg -> Row]
  /\ \A n \in Msg \cap S : queue'[n].status = "absent"
  /\ \A n \in Msg \ S : queue'[n] = queue[n]

\* The statements on sets of rows (claim, expiry, recovery of claims, purge, domain
\* deletion) touch the rows they select, and leave them well typed
LEMMA StatementsOnRows ==
  ASSUME StoreTypeOK
  PROVE  /\ \A S \in SUBSET Msg : Claim(S) => RowsBecome(S, "delivering")
         /\ ExpireOverdue => RowsBecome(Overdue, "expired") /\ writtenOff' \subseteq Msg
         /\ \A S \in SUBSET Msg : ReleaseOrphanedClaims(S) => RowsBecome(S, "queued")
         /\ \A S \in SUBSET Msg : PurgeDelivered(S) => RowsGo(S)
         /\ \A d \in Domain : DeleteDomain(d) =>
              /\ RowsGo(RowsOf(d)) /\ writtenOff' \subseteq Msg
              /\ domain' \in [Domain -> DomainRow]
<1>q. queue \in [Msg -> Row]
  BY DEF StoreTypeOK
<1>s. \A n \in Msg, s \in Pending \cup Settled :
         /\ [queue[n] EXCEPT !.status = s] \in Row
         /\ [queue[n] EXCEPT !.status = s].status = s
         /\ [queue[n] EXCEPT !.status = s].to = queue[n].to
  <2> TAKE n \in Msg, s \in Pending \cup Settled
  <2>1. queue[n] \in Row
    BY <1>q
  <2> QED
    BY <2>1, RowUpdate DEF Row
<1>n. NoRow \in Row /\ NoRow.status = "absent"
  BY NoRowType DEF NoRow
<1>1. ASSUME NEW S \in SUBSET Msg, Claim(S) PROVE RowsBecome(S, "delivering")
  BY <1>1, <1>q, <1>s DEF Claim, RowsBecome, Pending
<1>2. ASSUME ExpireOverdue
      PROVE  RowsBecome(Overdue, "expired") /\ writtenOff' \subseteq Msg
  <2>1. Overdue \subseteq Msg
    BY DEF Overdue
  <2> QED
    BY <1>2, <1>q, <1>s, <2>1 DEF ExpireOverdue, RowsBecome, Settled, StoreTypeOK
<1>3. ASSUME NEW S \in SUBSET Msg, ReleaseOrphanedClaims(S) PROVE RowsBecome(S, "queued")
  BY <1>3, <1>q, <1>s DEF ReleaseOrphanedClaims, RowsBecome, Pending
<1>4. ASSUME NEW S \in SUBSET Msg, PurgeDelivered(S) PROVE RowsGo(S)
  BY <1>4, <1>q, <1>n DEF PurgeDelivered, RowsGo
<1>5. ASSUME NEW d \in Domain, DeleteDomain(d)
      PROVE  /\ RowsGo(RowsOf(d)) /\ writtenOff' \subseteq Msg
             /\ domain' \in [Domain -> DomainRow]
  <2>1. RowsOf(d) \subseteq Msg
    BY DEF RowsOf
  <2>2. RowsGo(RowsOf(d)) /\ writtenOff' \subseteq Msg
    BY <1>5, <1>q, <1>n, <2>1 DEF DeleteDomain, RowsGo, StoreTypeOK
  <2>3. domain' \in [Domain -> DomainRow]
    BY <1>5 DEF DeleteDomain, StoreTypeOK, DomainRow
  <2> QED
    BY <2>2, <2>3
<1> QED
  BY <1>1, <1>2, <1>3, <1>4, <1>5

-----------------------------------------------------------------------------

\* session.Data of both listeners preserves the types
LEMMA IntakeTypes == TypeOK /\ IntakeNext => TypeOK'
<1> SUFFICES ASSUME TypeOK, IntakeNext PROVE TypeOK'
  OBVIOUS
<1> USE DEF TypeOK, IntakeTypeOK, Session
<1>0. UNCHANGED <<senderVars, adminVars, stops>> /\ StoreTypeOK
  BY DEF IntakeNext
<1>s. (SenderTypeOK /\ AdminTypeOK)' /\ stops' \in 0..MaxStops
  BY <1>0 DEF SenderTypeOK, AdminTypeOK, senderVars, adminVars
<1> PICK m \in Msg :
      \/ SpoolBody(m)
      \/ RefuseBody(m)
      \/ \E d \in Domain, R \in (SUBSET Rcpt) \ {{}}, h \in BOOLEAN : Accept(m, d, R, h)
      \/ HoldMessage(m)
  BY DEF IntakeNext, IntakeStep
<1>1. CASE SpoolBody(m)
  BY <1>1, <1>s DEF SpoolBody, StoreTypeOK
<1>2. CASE RefuseBody(m)
  BY <1>2, <1>s DEF RefuseBody, StoreTypeOK
<1>3. ASSUME NEW d \in Domain, NEW R \in (SUBSET Rcpt) \ {{}}, NEW h \in BOOLEAN,
             Accept(m, d, R, h)
      PROVE  TypeOK'
  <2>1. StoreTypeOK'
    BY <1>3, <1>0, StatementsOnOneRow DEF Accept, StoreTypeOK, RowBecomes
  <2>2. IntakeTypeOK'
    BY <1>3 DEF Accept
  <2> QED
    BY <2>1, <2>2, <1>s
<1>4. CASE HoldMessage(m)
  <2>1. StoreTypeOK'
    BY <1>4, <1>0, BoundsAssumption, StatementsOnOneRow
    DEF HoldMessage, StoreTypeOK, RowBecomes, NoFault, Fault
  <2>2. IntakeTypeOK'
    BY <1>4 DEF HoldMessage
  <2> QED
    BY <2>1, <2>2, <1>s
<1> QED
  BY <1>1, <1>2, <1>3, <1>4

\* The API handlers on messages and domains preserve the types
LEMMA AdminTypes == TypeOK /\ AdminNext => TypeOK'
<1> SUFFICES ASSUME TypeOK, AdminNext PROVE TypeOK'
  OBVIOUS
<1> USE DEF TypeOK, AdminTypeOK
<1>0. UNCHANGED <<intakeVars, senderVars, stops>> /\ StoreTypeOK /\ AdminStep
  BY DEF AdminNext
<1>s. (SenderTypeOK /\ IntakeTypeOK)' /\ stops' \in 0..MaxStops
  BY <1>0 DEF SenderTypeOK, IntakeTypeOK, senderVars, intakeVars
<1>r. Request => requests' \in 0..MaxRequests
  BY AdminAssumption DEF Request
<1>f. NoFault \/ Fault => faults' \in 0..MaxFaults
  BY <1>0, BoundsAssumption DEF NoFault, Fault, StoreTypeOK
<1>1. ASSUME NEW m \in Msg, RetryMessage(m) \/ ReleaseMessage(m) PROVE TypeOK'
  <2>1. queue' \in [Msg -> Row]
    BY <1>1, <1>0, StatementsOnOneRow DEF RetryMessage, ReleaseMessage, RowBecomes
  <2> QED
    BY <1>1, <1>s, <1>r, <2>1 DEF RetryMessage, ReleaseMessage, StoreTypeOK
<1>2. ASSUME NEW m \in Msg, DeleteMessageRead(m) PROVE TypeOK'
  BY <1>2, <1>s, <1>r DEF DeleteMessageRead, storeVars, StoreTypeOK
<1>3. ASSUME NEW m \in Msg, DeleteMessageRow(m) PROVE TypeOK'
  <2>1. queue' \in [Msg -> Row]
    BY <1>3, <1>0, StatementsOnOneRow DEF DeleteMessageRow, RowBecomes, StoreTypeOK
  <2>2. writtenOff' \subseteq Msg
    BY <1>3 DEF DeleteMessageRow, DeleteMessage, StoreTypeOK
  <2> QED
    BY <1>3, <1>s, <1>f, <2>1, <2>2 DEF DeleteMessageRow, StoreTypeOK
<1>4. ASSUME NEW m \in Msg, DeleteMessageBody(m) PROVE TypeOK'
  BY <1>4, <1>s DEF DeleteMessageBody, StoreTypeOK
<1>5. ASSUME NEW d \in Domain, NEW force \in BOOLEAN, DeleteDomainRead(d, force)
      PROVE  TypeOK'
  BY <1>5, <1>s, <1>r DEF DeleteDomainRead, storeVars, StoreTypeOK
<1>6. ASSUME NEW d \in Domain, DeleteDomainBodies(d) PROVE TypeOK'
  <2>1. \A S \in Listed(d) : S \subseteq Msg
    BY DEF Listed, RowsOf
  <2> QED
    BY <1>6, <1>s, <1>f, <2>1 DEF DeleteDomainBodies, StoreTypeOK
<1>7. ASSUME NEW d \in Domain, DeleteDomainRow(d) PROVE TypeOK'
  <2>1. queue' \in [Msg -> Row] /\ writtenOff' \subseteq Msg
        /\ domain' \in [Domain -> DomainRow]
    BY <1>7, <1>0, StatementsOnRows DEF DeleteDomainRow, RowsGo, StoreTypeOK
  <2> QED
    BY <1>7, <1>s, <1>f, <2>1 DEF DeleteDomainRow, StoreTypeOK
<1>8. ASSUME NEW d \in Domain, SetEnabled(d) PROVE TypeOK'
  <2>1. domain' \in [Domain -> DomainRow]
    BY <1>8 DEF SetEnabled, StoreTypeOK, DomainRow
  <2> QED
    BY <1>8, <1>s, <1>r, <2>1 DEF SetEnabled, StoreTypeOK
<1> QED
  BY <1>0, <1>1, <1>2, <1>3, <1>4, <1>5, <1>6, <1>7, <1>8 DEF AdminStep

\* The delivery loop, its workers and maintenance preserve the types
LEMMA SenderTypes == TypeOK /\ SenderNext => TypeOK'
<1> SUFFICES ASSUME TypeOK, SenderNext PROVE TypeOK'
  OBVIOUS
<1>0. /\ UNCHANGED <<intakeVars, adminVars, stops>> /\ SenderStep
      /\ StoreTypeOK /\ SenderTypeOK
  BY DEF SenderNext, TypeOK
<1>s. (IntakeTypeOK /\ AdminTypeOK)' /\ stops' \in 0..MaxStops
  BY <1>0 DEF TypeOK, IntakeTypeOK, AdminTypeOK, intakeVars, adminVars
<1> SUFFICES StoreTypeOK' /\ SenderTypeOK'
  BY <1>s DEF TypeOK
<1>f. /\ Succeeds => faults' \in 0..MaxFaults
      /\ Fails => faults' \in 0..MaxFaults
      /\ NoFault => faults' \in 0..MaxFaults
      /\ Fault => faults' \in 0..MaxFaults
  BY <1>0, BoundsAssumption DEF Succeeds, Fails, NoFault, Fault, StoreTypeOK
<1>a. \A m \in Msg, how \in Outcome, p \in Parts :
        AfterBounce(m, how, p) \in Job /\ ToBounce(m, how, p) \in Job
  BY DEF AfterBounce, ToBounce, Job
<1>p. NoParts \in Parts /\ "temporary" \in Outcome /\ "permanent" \in Outcome
      /\ "lost" \in Outcome /\ "parts" \in Outcome /\ "expired" \in Outcome
      /\ "none" \in Outcome
  BY DEF NoParts, Parts, Outcome
<1>l. \A S : \A T \in Limited(S) : T \subseteq S
  BY DEF Limited
<1>1. CASE Start
  <2>1. queue' \in [Msg -> Row]
    <3>1. Delivering \in SUBSET Msg
      BY DEF Delivering
    <3> QED
      BY <1>1, <1>0, <3>1, StatementsOnRows DEF Start, RowsBecome, StoreTypeOK
  <2> QED
    BY <1>1, <1>0, <1>f, <2>1 DEF Start, StoreTypeOK, SenderTypeOK, historyVars, Loop
<1>2. CASE Wake \/ BatchDone \/ ExpireDone
  BY <1>2, <1>0 DEF Wake, BatchDone, ExpireDone, StoreTypeOK, SenderTypeOK, storeVars,
                    historyVars, Loop
<1>c. ASSUME NEW S \in SUBSET Msg, ClaimRows(S)
      PROVE  /\ queue' \in [Msg -> Row] /\ batch' \subseteq Msg
             /\ held' \in [Msg -> SUBSET Rcpt]
  <2>1. queue' \in [Msg -> Row]
    BY <1>c, <1>0, StatementsOnRows DEF ClaimRows, RowsBecome
  <2>2. \A m \in Msg : queue[m].to \in SUBSET Rcpt
    BY <1>0 DEF StoreTypeOK, Row
  <2> QED
    BY <1>c, <1>0, <2>1, <2>2 DEF ClaimRows, SenderTypeOK
<1>3. CASE ClaimInbound
  <2>1. queue' \in [Msg -> Row] /\ batch' \subseteq Msg /\ held' \in [Msg -> SUBSET Rcpt]
    <3>1. CASE \E S \in Limited({m \in Msg : Claimable(m)}) : ClaimRows(S)
      BY <3>1, <1>c, <1>l
    <3>2. CASE UNCHANGED <<queue, batch, held>>
      BY <3>2, <1>0 DEF StoreTypeOK, SenderTypeOK
    <3> QED
      BY <1>3, <3>1, <3>2 DEF ClaimInbound
  <2> QED
    BY <1>3, <1>0, <1>f, <2>1 DEF ClaimInbound, StoreTypeOK, SenderTypeOK, historyVars, Loop
<1>4. CASE ClaimOutbound
  <2>1. queue' \in [Msg -> Row] /\ batch' \subseteq Msg /\ held' \in [Msg -> SUBSET Rcpt]
    <3>1. CASE \E S \in Limited({m \in Msg : ClaimableOutbound(m, ~OutboundEnabled)}) :
                 ClaimRows(S)
      BY <3>1, <1>c, <1>l
    <3>2. CASE UNCHANGED <<queue, batch, held>>
      BY <3>2, <1>0 DEF StoreTypeOK, SenderTypeOK
    <3> QED
      BY <1>4, <3>1, <3>2 DEF ClaimOutbound
  <2>2. loop' \in Loop
    BY <1>4 DEF ClaimOutbound, Loop
  <2>3. faults' \in 0..MaxFaults
    BY <1>4, <1>0, <1>f DEF ClaimOutbound, StoreTypeOK
  <2> QED
    BY <1>4, <1>0, <2>1, <2>2, <2>3 DEF ClaimOutbound, StoreTypeOK, SenderTypeOK, historyVars
<1>5. CASE MaintainExpire
  <2>1. Overdue \subseteq Msg
    BY DEF Overdue
  <2>2. queue' \in [Msg -> Row] /\ writtenOff' \subseteq Msg /\ batch' \subseteq Msg
    BY <1>5, <1>0, <2>1, StatementsOnRows
    DEF MaintainExpire, RowsBecome, StoreTypeOK, SenderTypeOK
  <2> QED
    BY <1>5, <1>0, <1>f, <2>2 DEF MaintainExpire, StoreTypeOK, SenderTypeOK, historyVars, Loop
<1>6. CASE MaintainRelease
  <2>1. queue' \in [Msg -> Row]
    BY <1>6, <1>0, StatementsOnRows DEF MaintainRelease, Delivering, RowsBecome, StoreTypeOK
  <2> QED
    BY <1>6, <1>0, <1>f, <2>1 DEF MaintainRelease, StoreTypeOK, SenderTypeOK, historyVars, Loop
<1>7. CASE MaintainPurge
  <2>1. queue' \in [Msg -> Row]
    BY <1>7, <1>0, StatementsOnRows DEF MaintainPurge, History, RowsGo, StoreTypeOK
  <2> QED
    BY <1>7, <1>0, <1>f, <2>1 DEF MaintainPurge, StoreTypeOK, SenderTypeOK, historyVars, Loop
<1>8. ASSUME NEW m \in Msg, Abandon(m) PROVE StoreTypeOK' /\ SenderTypeOK'
  BY <1>8, <1>0 DEF Abandon, StoreTypeOK, SenderTypeOK, storeVars
<1>9. ASSUME NEW m \in Msg, Attempt(m) PROVE StoreTypeOK' /\ SenderTypeOK'
  <2>1. CASE Begin(m)
    BY <2>1, <1>0, <1>f, <1>p DEF Begin, Take, StoreTypeOK, SenderTypeOK, historyVars, Job
  <2>e. ASSUME NEW how \in Outcome, NEW p \in Parts, Ending(m, how, p)
        PROVE  StoreTypeOK' /\ outcome' \in [Msg -> Outcome] /\ parts' \in [Msg -> Parts]
    BY <2>e, <1>0 DEF Ending, StoreTypeOK, SenderTypeOK, storeVars
  <2>r. ASSUME NEW T \in SUBSET Rcpt, Reach(m, T)
        PROVE  reached' \in [Msg -> SUBSET Rcpt] /\ twice' \in [Msg -> SUBSET Rcpt]
    BY <2>r, <1>0 DEF Reach, SenderTypeOK
  <2>h. held[m] \subseteq Rcpt
    BY <1>0 DEF SenderTypeOK
  <2>2. ASSUME NEW G \in SUBSET held[m], AttemptFails(m, G)
        PROVE  StoreTypeOK' /\ SenderTypeOK'
    <3>1. /\ StoreTypeOK' /\ outcome' \in [Msg -> Outcome] /\ parts' \in [Msg -> Parts]
          /\ reached' \in [Msg -> SUBSET Rcpt] /\ twice' \in [Msg -> SUBSET Rcpt]
      BY <2>2, <2>e, <2>r, <2>h, <1>p DEF AttemptFails
    <3> QED
      BY <2>2, <3>1, <1>0 DEF AttemptFails, Ending, SenderTypeOK, Job
  <2>3. CASE AttemptRefused(m)
    <3>1. StoreTypeOK' /\ outcome' \in [Msg -> Outcome] /\ parts' \in [Msg -> Parts]
      BY <2>3, <2>e, <1>p DEF AttemptRefused
    <3> QED
      BY <2>3, <3>1, <2>h, <1>0 DEF AttemptRefused, Ending, SenderTypeOK, Job
  <2>4. ASSUME NEW A \in SUBSET held[m], NEW D \in SUBSET held[m], NEW R \in SUBSET held[m],
               NEW U \in SUBSET held[m], NEW G \in SUBSET held[m],
               AttemptSettles(m, A, D, R, U, G)
        PROVE  StoreTypeOK' /\ SenderTypeOK'
    <3> DEFINE p == [acc |-> A, def |-> D, rej |-> R]
    <3>1. p \in Parts
      BY <2>h DEF Parts
    <3>2. /\ StoreTypeOK' /\ outcome' \in [Msg -> Outcome] /\ parts' \in [Msg -> Parts]
          /\ reached' \in [Msg -> SUBSET Rcpt] /\ twice' \in [Msg -> SUBSET Rcpt]
      BY <2>4, <2>e, <2>r, <2>h, <1>p, <3>1 DEF AttemptSettles
    <3>3. job' \in [Msg -> Job]
      <4>1. job' = [job EXCEPT ![m] = IF R # {} THEN ToBounce(m, "parts", p)
                                                ELSE AfterBounce(m, "parts", p)]
        BY <2>4 DEF AttemptSettles
      <4> QED
        BY <4>1, <3>1, <1>a, <1>p, <1>0 DEF SenderTypeOK
    <3> QED
      BY <2>4, <3>2, <3>3, <2>h, <1>0 DEF AttemptSettles, Ending, SenderTypeOK
  <2> QED
    BY <1>9, <2>1, <2>2, <2>3, <2>4 DEF Attempt
<1>g. ASSUME NEW m \in Msg, NEW j \in Job, GoTo(m, j)
      PROVE  /\ job' \in [Msg -> Job] /\ outcome' \in [Msg -> Outcome]
             /\ held' \in [Msg -> SUBSET Rcpt] /\ parts' \in [Msg -> Parts]
             /\ UNCHANGED <<loop, ctx, batch, reached, twice, refused>>
  BY <1>g, <1>0, <1>p DEF GoTo, SenderTypeOK
<1>j. ASSUME NEW m \in Msg
      PROVE  /\ AfterBounce(m, outcome[m], parts[m]) \in Job
             /\ ToBounce(m, outcome[m], parts[m]) \in Job
  BY <1>a, <1>0 DEF SenderTypeOK
<1>10. ASSUME NEW m \in Msg, Wrapup(m) PROVE StoreTypeOK' /\ SenderTypeOK'
  <2>w. /\ Written(m) => faults' \in 0..MaxFaults
        /\ NotWritten(m) => faults' \in 0..MaxFaults
    BY <1>f DEF Written, NotWritten
  <2>1. CASE Narrow(m)
    <3>1. parts[m].def \in SUBSET Rcpt
      BY <1>0 DEF SenderTypeOK, Parts
    <3>2. queue' \in [Msg -> Row]
      BY <2>1, <1>0, <3>1, StatementsOnOneRow DEF Narrow, RowBecomes, StoreTypeOK
    <3> QED
      BY <2>1, <1>0, <1>g, <2>w, <3>2 DEF Narrow, StoreTypeOK, SenderTypeOK, Job
  <2>2. CASE MarkDeferred(m)
    <3>1. queue' \in [Msg -> Row]
      BY <2>2, <1>0, StatementsOnOneRow DEF MarkDeferred, RowBecomes, StoreTypeOK
    <3> QED
      BY <2>2, <1>0, <1>g, <2>w, <3>1 DEF MarkDeferred, StoreTypeOK, SenderTypeOK, Job
  <2>3. CASE MarkDone(m)
    <3>1. queue' \in [Msg -> Row]
      BY <2>3, <1>0, StatementsOnOneRow DEF MarkDone, RowBecomes, StoreTypeOK
    <3> QED
      BY <2>3, <1>0, <1>g, <2>w, <3>1 DEF MarkDone, StoreTypeOK, SenderTypeOK, Job
  <2>4. CASE MarkGivenUp(m)
    <3>1. queue' \in [Msg -> Row]
      BY <2>4, <1>0, StatementsOnOneRow DEF MarkGivenUp, RowBecomes, StoreTypeOK
    <3>2. (IF outcome[m] = "parts" THEN "unlink" ELSE ToBounce(m, outcome[m], parts[m])) \in Job
      BY <1>j DEF Job
    <3> QED
      BY <2>4, <1>0, <1>g, <2>w, <3>1, <3>2 DEF MarkGivenUp, StoreTypeOK, SenderTypeOK
  <2>5. CASE Unlink(m)
    BY <2>5, <1>0, <1>g DEF Unlink, StoreTypeOK, SenderTypeOK, Job
  <2>6. CASE BouncePut(m)
    <3>1. job' \in [Msg -> Job] /\ outcome' \in [Msg -> Outcome]
          /\ held' \in [Msg -> SUBSET Rcpt] /\ parts' \in [Msg -> Parts]
          /\ UNCHANGED <<loop, ctx, batch, reached, twice, refused>>
      BY <2>6, <1>g, <1>j DEF BouncePut, Job
    <3>2. spool' \subseteq Msg /\ dsn' \in [Msg -> SUBSET DsnMsg]
      BY <2>6, <1>0 DEF BouncePut, StoreTypeOK, SenderTypeOK, Msg
    <3> QED
      BY <2>6, <1>0, <3>1, <3>2 DEF BouncePut, StoreTypeOK, SenderTypeOK
  <2>7. CASE BounceEnqueue(m)
    <3>1. job' \in [Msg -> Job] /\ outcome' \in [Msg -> Outcome]
          /\ held' \in [Msg -> SUBSET Rcpt] /\ parts' \in [Msg -> Parts]
          /\ UNCHANGED <<loop, ctx, batch, reached, twice, refused>>
      BY <2>7, <1>g, <1>j DEF BounceEnqueue
    <3>2. Failures(m) \subseteq Rcpt
      BY <1>0 DEF Failures, SenderTypeOK, Parts
    <3>3. /\ queue' \in [Msg -> Row] /\ home' \in [Msg -> Domain]
          /\ rcpts' \in [Msg -> SUBSET Rcpt]
      <4>1. dsn[m] \subseteq Msg
        BY <1>0 DEF SenderTypeOK, Msg
      <4>2. \A s \in Rcpt : {s} \in SUBSET Rcpt
        OBVIOUS
      <4>3. home[m] \in Domain
        BY <1>0 DEF StoreTypeOK
      <4>4. ASSUME NEW b \in dsn[m], NEW s \in Rcpt, Enqueue(b, home[m], {s})
            PROVE  /\ queue' \in [Msg -> Row] /\ home' \in [Msg -> Domain]
                   /\ rcpts' \in [Msg -> SUBSET Rcpt]
        BY <4>1, <4>2, <4>3, <4>4, <1>0, StatementsOnOneRow DEF RowBecomes
      <4>5. CASE UNCHANGED <<queue, home, rcpts>>
        BY <4>5, <1>0 DEF StoreTypeOK
      <4> QED
        BY <2>7, <4>4, <4>5 DEF BounceEnqueue
    <3>4. /\ spool' \subseteq Msg /\ faults' \in 0..MaxFaults
          /\ told' \in [Msg -> SUBSET Rcpt] /\ shaken' \subseteq Msg
          /\ dsn' \in [Msg -> SUBSET DsnMsg]
      BY <2>7, <1>0, <1>f, <3>2 DEF BounceEnqueue, StoreTypeOK, SenderTypeOK
    <3> QED
      BY <2>7, <1>0, <3>1, <3>3, <3>4 DEF BounceEnqueue, StoreTypeOK, SenderTypeOK
  <2> QED
    BY <1>10, <2>1, <2>2, <2>3, <2>4, <2>5, <2>6, <2>7 DEF Wrapup
<1>11. ASSUME NEW m \in Msg, ExpireOne(m) PROVE StoreTypeOK' /\ SenderTypeOK'
  <2>1. queue[m].to \in SUBSET Rcpt
    BY <1>0 DEF StoreTypeOK, Row
  <2>2. job' \in [Msg -> Job]
    <3>1. ToBounce(m, "expired", NoParts) \in Job /\ "unlink" \in Job
      BY <1>a, <1>p DEF Job
    <3>2. job \in [Msg -> Job]
      BY <1>0 DEF SenderTypeOK
    <3>3. \/ job' = [job EXCEPT ![m] = ToBounce(m, "expired", NoParts)]
          \/ job' = [job EXCEPT ![m] = "unlink"]
      BY <1>11 DEF ExpireOne
    <3> HIDE DEF ToBounce, Job
    <3> QED
      BY <3>1, <3>2, <3>3
  <2>3. faults' \in 0..MaxFaults
    BY <1>11, <1>f DEF ExpireOne, NotWritten
  <2> QED
    BY <1>11, <1>0, <1>p, <2>1, <2>2, <2>3 DEF ExpireOne, StoreTypeOK, SenderTypeOK
<1> QED
  BY <1>0, <1>1, <1>2, <1>3, <1>4, <1>5, <1>6, <1>7, <1>8, <1>9, <1>10, <1>11 DEF SenderStep

\* The end of the process preserves the types
LEMMA StopTypes == TypeOK /\ Stop => TypeOK'
<1> SUFFICES ASSUME TypeOK, Stop PROVE TypeOK'
  OBVIOUS
<1>1. StoreTypeOK'
  BY DEF TypeOK, Stop, StoreTypeOK, storeVars
<1>2. IntakeTypeOK'
  BY DEF TypeOK, Stop, IntakeStop, IntakeTypeOK, Session
<1>3. SenderTypeOK'
  BY DEF TypeOK, Stop, SenderStop, SenderTypeOK, Loop, Job, Outcome, Parts, NoParts
<1>4. AdminTypeOK'
  BY DEF TypeOK, Stop, AdminStop, AdminTypeOK
<1>5. stops' \in 0..MaxStops
  BY StopsAssumption DEF TypeOK, Stop
<1> QED
  BY <1>1, <1>2, <1>3, <1>4, <1>5 DEF TypeOK

\* The shutdown signal, the probes and the clocks preserve the types
LEMMA EnvTypes == TypeOK /\ (Signal \/ EnvNext) => TypeOK'
<1> SUFFICES ASSUME TypeOK, Signal \/ EnvNext PROVE TypeOK'
  OBVIOUS
<1>1. CASE Signal
  BY <1>1 DEF TypeOK, Signal, Shutdown, StoreTypeOK, IntakeTypeOK, SenderTypeOK, AdminTypeOK,
              storeVars, intakeVars, adminVars, historyVars
<1>e. EnvRest => /\ (IntakeTypeOK /\ SenderTypeOK /\ AdminTypeOK)' /\ stops' \in 0..MaxStops
                 /\ UNCHANGED <<spool, home, rcpts, writtenOff, faults>>
  BY DEF EnvRest, TypeOK, IntakeTypeOK, SenderTypeOK, AdminTypeOK, intakeVars, senderVars,
         adminVars
<1>2. ASSUME NEW d \in Domain, PrimaryFlips(d) PROVE TypeOK'
  <2>1. domain' \in [Domain -> DomainRow]
    BY <1>2 DEF PrimaryFlips, TypeOK, StoreTypeOK, DomainRow
  <2> QED
    BY <1>2, <1>e, <2>1 DEF PrimaryFlips, TypeOK, StoreTypeOK
<1>3. ASSUME NEW m \in Msg, BackoffElapses(m) \/ RetentionElapses(m) PROVE TypeOK'
  <2>1. queue \in [Msg -> Row] /\ queue[m] \in Row
    BY DEF TypeOK, StoreTypeOK
  <2>2. [queue[m] EXCEPT !.due = TRUE] \in Row /\ [queue[m] EXCEPT !.overdue = TRUE] \in Row
    BY <2>1, RowUpdate
  <2>3. queue' \in [Msg -> Row]
    BY <1>3, <2>1, <2>2 DEF BackoffElapses, RetentionElapses
  <2> QED
    BY <1>3, <1>e, <2>3 DEF BackoffElapses, RetentionElapses, TypeOK, StoreTypeOK
<1> QED
  BY <1>1, <1>2, <1>3 DEF EnvNext

\* The empty spool of a new installation is well typed
LEMMA InitTypes == Init => TypeOK
<1> SUFFICES ASSUME Init PROVE TypeOK
  OBVIOUS
<1>1. StoreTypeOK
  <2>1. (CHOOSE d \in Domain : TRUE) \in Domain
    BY DomainAssumption
  <2> QED
    BY <2>1, NoRowType, BoundsAssumption DEF Init, StoreInit, StoreTypeOK, DomainRow
<1>2. IntakeTypeOK
  BY DEF Init, IntakeInit, IntakeTypeOK, Session
<1>3. SenderTypeOK
  BY DEF Init, SenderInit, SenderTypeOK, Loop, Job, Outcome, Parts, NoParts
<1>4. AdminTypeOK
  BY AdminAssumption DEF Init, AdminInit, AdminTypeOK
<1> QED
  BY <1>1, <1>2, <1>3, <1>4, StopsAssumption DEF Init, TypeOK

\* The rows, the spool and every goroutine's position keep their types in every
\* behaviour, whatever statements, races and crashes it contains.
THEOREM TypeCorrect == Spec => []TypeOK
<1>1. TypeOK /\ [Next]_vars => TypeOK'
  <2> SUFFICES ASSUME TypeOK, [Next]_vars PROVE TypeOK'
    OBVIOUS
  <2>1. CASE Next
    BY <2>1, IntakeTypes, SenderTypes, AdminTypes, StopTypes, EnvTypes DEF Next
  <2>2. CASE UNCHANGED vars
    BY <2>2 DEF TypeOK, StoreTypeOK, IntakeTypeOK, SenderTypeOK, AdminTypeOK, vars,
                storeVars, intakeVars, senderVars, adminVars
  <2> QED
    BY <2>1, <2>2
<1> QED
  BY InitTypes, <1>1, PTL DEF Spec

-----------------------------------------------------------------------------
(* No mail is lost.                                                        *)

\* The parts of TypeOK the steps below rest on
Typed ==
  /\ StoreTypeOK
  /\ session \in [Msg -> Session]
  /\ batch \subseteq Msg
  /\ job \in [Msg -> Job] /\ outcome \in [Msg -> Outcome]
  /\ held \in [Msg -> SUBSET Rcpt] /\ parts \in [Msg -> Parts]
  /\ dsn \in [Msg -> SUBSET DsnMsg]
  /\ reached \in [Msg -> SUBSET Rcpt] /\ refused \in [Msg -> SUBSET Rcpt]
  /\ deleting \in [Msg -> {"no", "row", "body"}]

\* What the proofs below need of the types
LEMMA TypedState == TypeOK => Typed
BY DEF TypeOK, Typed, IntakeTypeOK, SenderTypeOK, AdminTypeOK

\* A listener that spools, refuses, enqueues or holds a message keeps MailInv: the
\* body is in the spool before the row asks for it
LEMMA IntakeKeepsMail == TypeOK /\ MailInv /\ IntakeNext => MailInv'
<1> SUFFICES ASSUME TypeOK, MailInv, IntakeNext PROVE MailInv'
  OBVIOUS
<1> USE DEF Kept
<1>t. Typed
  BY TypedState
<1>u. UNCHANGED <<senderVars, adminVars>>
  BY DEF IntakeNext
<1>v. UNCHANGED <<loop, batch, job, outcome, held, parts, dsn, reached, refused, deleting>>
  BY <1>u DEF senderVars, adminVars
<1>l. LoopInv'
  BY <1>v DEF MailInv, LoopInv, Working
<1> PICK m \in Msg :
      \/ SpoolBody(m)
      \/ RefuseBody(m)
      \/ \E d \in Domain, R \in (SUBSET Rcpt) \ {{}}, h \in BOOLEAN : Accept(m, d, R, h)
      \/ HoldMessage(m)
  BY DEF IntakeNext, IntakeStep
<1>1. CASE SpoolBody(m)
  <2>1. DsnInv'
    BY <1>1, <1>v DEF SpoolBody, MailInv, DsnInv, Known
  <2>2. \A n \in Msg : IdInv(n)'
    BY <1>1, <1>v, <1>t, IdsAssumption DEF SpoolBody, MailInv, IdInv, Known, Stored, Typed
  <2>3. \A n \in Kept : RowInv(n)' /\ JobInv(n)'
    BY <1>1, <1>v DEF SpoolBody, MailInv, RowInv, JobInv, Over, Covers
  <2> QED
    BY <1>l, <2>1, <2>2, <2>3 DEF MailInv
<1>2. CASE RefuseBody(m)
  <2>0. ~Known(m) /\ m \notin DsnMsg
    BY <1>2 DEF MailInv, IdInv, RefuseBody
  <2>1. DsnInv'
    BY <1>2, <1>v, <1>t, <2>0 DEF RefuseBody, MailInv, DsnInv, Known, Typed
  <2>2. \A n \in Msg : IdInv(n)'
    BY <1>2, <1>v, <1>t DEF RefuseBody, MailInv, IdInv, Known, Stored, Typed
  <2>3. \A n \in Kept : RowInv(n)' /\ JobInv(n)'
    BY <1>2, <1>v, <2>0 DEF RefuseBody, MailInv, RowInv, JobInv, Over, Covers, Known
  <2> QED
    BY <1>l, <2>1, <2>2, <2>3 DEF MailInv
<1>3. ASSUME NEW d \in Domain, NEW R \in (SUBSET Rcpt) \ {{}}, NEW h \in BOOLEAN,
             Accept(m, d, R, h)
      PROVE  MailInv'
  <2>0. ~Known(m) /\ m \notin DsnMsg /\ m \in spool /\ job[m] = "none" /\ m \notin batch
        /\ m \notin writtenOff
    BY <1>3 DEF MailInv, IdInv, Accept
  <2>q. RowBecomes(m, "queued", R) /\ rcpts' = [rcpts EXCEPT ![m] = R]
    BY <1>3, <1>t, StatementsOnOneRow DEF Accept, Typed, Enqueue
  <2>1. DsnInv'
    BY <1>3, <1>v, <1>t, <2>0, <2>q DEF Accept, MailInv, DsnInv, Known, Typed, StoreTypeOK
  <2>2. \A n \in Msg : IdInv(n)'
    <3>1. IdInv(m)'
      <4>1. Known(m)' /\ session'[m] \in {"queued", "accepted"} /\ m \in spool'
        BY <1>3, <1>t, <2>0, <2>q DEF Accept, Known, Typed, StoreTypeOK
      <4>2. IdInv(m) /\ UNCHANGED <<deleting, writtenOff>>
        BY <1>3, <1>v DEF Accept, MailInv
      <4> QED
        BY <4>1, <4>2, <2>0 DEF IdInv
    <3>2. ASSUME NEW n \in Msg, n # m PROVE IdInv(n)'
      <4>1. queue'[n] = queue[n] /\ rcpts'[n] = rcpts[n] /\ session'[n] = session[n]
            /\ UNCHANGED <<spool, writtenOff>>
        BY <1>3, <1>t, <2>q, <3>2 DEF Accept, Typed, StoreTypeOK, RowBecomes
      <4> QED
        BY <4>1, <1>v DEF MailInv, IdInv, Known, Stored
    <3> QED
      BY <3>1, <3>2
  <2>3. \A n \in Kept : RowInv(n)' /\ JobInv(n)'
    BY <1>3, <1>v, <1>t, <2>0, <2>q
    DEF Accept, MailInv, RowInv, JobInv, Over, Covers, Typed, StoreTypeOK, RowBecomes, Pending, Msg
  <2> QED
    BY <1>l, <2>1, <2>2, <2>3 DEF MailInv
<1>4. CASE HoldMessage(m)
  <2>q. RowBecomes(m, queue[m].status, queue[m].to) \/ UNCHANGED queue
    BY <1>4, <1>t, StatementsOnOneRow DEF HoldMessage, Typed
  <2>s. \A n \in Msg : queue'[n].status = queue[n].status /\ queue'[n].to = queue[n].to
    BY <2>q DEF RowBecomes
  <2>1. DsnInv'
    BY <1>4, <1>v DEF HoldMessage, MailInv, DsnInv, Known
  <2>2. \A n \in Msg : IdInv(n)'
    BY <1>4, <1>v, <1>t, <2>s DEF HoldMessage, MailInv, IdInv, Known, Stored, Typed
  <2>3. \A n \in Kept : RowInv(n)' /\ JobInv(n)'
    BY <1>4, <1>v, <2>s DEF HoldMessage, MailInv, RowInv, JobInv, Over, Covers, Msg
  <2> QED
    BY <1>l, <2>1, <2>2, <2>3 DEF MailInv
<1> QED
  BY <1>1, <1>2, <1>3, <1>4

\* The API handlers keep MailInv: what they discard is written off first
LEMMA AdminKeepsMail == TypeOK /\ MailInv /\ AdminNext => MailInv'
<1> SUFFICES ASSUME TypeOK, MailInv, AdminNext PROVE MailInv'
  OBVIOUS
<1> USE DEF Kept
<1>t. Typed
  BY TypedState
<1>v. UNCHANGED <<session, loop, batch, job, outcome, held, parts, dsn, reached, refused>>
      /\ AdminStep
  BY DEF AdminNext, senderVars, intakeVars
<1>l. LoopInv'
  BY <1>v DEF MailInv, LoopInv, Working
<1>1. ASSUME NEW m \in Msg, RetryMessage(m) \/ ReleaseMessage(m) PROVE MailInv'
  <2>u. UNCHANGED <<spool, rcpts, writtenOff, deleting>>
    BY <1>1 DEF RetryMessage, ReleaseMessage
  <2>q. RowBecomes(m, "queued", queue[m].to) /\ Stored(m)
    <3>1. RowBecomes(m, "queued", queue[m].to)
      BY <1>1, <1>t, StatementsOnOneRow DEF RetryMessage, ReleaseMessage, Typed
    <3> QED
      BY <3>1, <1>1 DEF RetryMessage, ReleaseMessage, RetryNow, Release, Stored
  <2>1. DsnInv'
    BY <1>v, <2>u DEF MailInv, DsnInv, Known
  <2>2. \A n \in Msg : IdInv(n)'
    BY <1>v, <2>u, <2>q DEF MailInv, IdInv, Known, Stored, RowBecomes
  <2>3. \A n \in Kept : RowInv(n)' /\ JobInv(n)'
    BY <1>v, <2>u, <2>q DEF MailInv, RowInv, JobInv, Over, Covers, RowBecomes, Pending, Msg
  <2> QED
    BY <1>l, <2>1, <2>2, <2>3 DEF MailInv
<1>2. ASSUME NEW m \in Msg, DeleteMessageRead(m) PROVE MailInv'
  <2>u. UNCHANGED <<queue, spool, rcpts, writtenOff>>
        /\ deleting' = [deleting EXCEPT ![m] = "row"]
    BY <1>2 DEF DeleteMessageRead, storeVars
  <2>1. DsnInv'
    BY <1>v, <2>u DEF MailInv, DsnInv, Known
  <2>2. \A n \in Msg : IdInv(n)'
    BY <1>v, <1>t, <2>u DEF MailInv, IdInv, Known, Stored, Typed
  <2>3. \A n \in Kept : RowInv(n)' /\ JobInv(n)'
    BY <1>v, <2>u DEF MailInv, RowInv, JobInv, Over, Covers
  <2> QED
    BY <1>l, <2>1, <2>2, <2>3 DEF MailInv
<1>3. ASSUME NEW m \in Msg, DeleteMessageRow(m) PROVE MailInv'
  <2>u. UNCHANGED <<spool, rcpts>>
    BY <1>3 DEF DeleteMessageRow
  <2>1. DsnInv'
    BY <1>v, <2>u DEF MailInv, DsnInv, Known
  <2>2. CASE Stored(m) /\ DeleteMessage(m) /\ deleting' = [deleting EXCEPT ![m] = "body"]
    <3>q. RowBecomes(m, "absent", {}) /\ writtenOff' = writtenOff \cup {m}
      BY <2>2, <1>t, StatementsOnOneRow DEF DeleteMessage, Typed
    <3>k. Known(m)
      BY <2>2 DEF MailInv, IdInv
    <3>1. \A n \in Msg : IdInv(n)'
      BY <1>v, <1>t, <2>u, <2>2, <3>q, <3>k DEF MailInv, IdInv, Known, Stored, RowBecomes, Typed
    <3>2. \A n \in Kept : RowInv(n)' /\ JobInv(n)'
      BY <1>v, <2>u, <3>q DEF MailInv, RowInv, JobInv, Over, Covers, RowBecomes, Msg
    <3> QED
      BY <1>l, <2>1, <3>1, <3>2 DEF MailInv
  <2>3. CASE UNCHANGED <<queue, writtenOff>> /\ deleting' = [deleting EXCEPT ![m] = "no"]
    <3>1. \A n \in Msg : IdInv(n)'
      BY <1>v, <1>t, <2>u, <2>3 DEF MailInv, IdInv, Known, Stored, Typed
    <3>2. \A n \in Kept : RowInv(n)' /\ JobInv(n)'
      BY <1>v, <2>u, <2>3 DEF MailInv, RowInv, JobInv, Over, Covers
    <3> QED
      BY <1>l, <2>1, <3>1, <3>2 DEF MailInv
  <2> QED
    BY <1>3, <2>2, <2>3 DEF DeleteMessageRow
<1>4. ASSUME NEW m \in Msg, DeleteMessageBody(m) PROVE MailInv'
  <2>u. /\ UNCHANGED <<queue, rcpts, writtenOff>> /\ spool' = spool \ {m}
        /\ deleting' = [deleting EXCEPT ![m] = "no"]
    BY <1>4 DEF DeleteMessageBody
  <2>k. m \in writtenOff /\ Known(m)
    BY <1>4 DEF DeleteMessageBody, MailInv, IdInv
  <2>1. DsnInv'
    BY <1>v, <1>t, <2>u, <2>k DEF MailInv, DsnInv, Known, Typed
  <2>2. \A n \in Msg : IdInv(n)'
    BY <1>v, <1>t, <2>u, <2>k DEF MailInv, IdInv, Known, Stored, Typed
  <2>3. \A n \in Kept : RowInv(n)' /\ JobInv(n)'
    BY <1>v, <2>u, <2>k DEF MailInv, RowInv, JobInv, Over, Covers
  <2> QED
    BY <1>l, <2>1, <2>2, <2>3 DEF MailInv
<1>5. ASSUME NEW d \in Domain, (\E force \in BOOLEAN : DeleteDomainRead(d, force))
                               \/ SetEnabled(d)
      PROVE  MailInv'
  <2>u. UNCHANGED <<queue, spool, rcpts, writtenOff, deleting>>
    BY <1>5 DEF DeleteDomainRead, SetEnabled, storeVars
  <2>1. DsnInv'
    BY <1>v, <2>u DEF MailInv, DsnInv, Known
  <2>2. \A n \in Msg : IdInv(n)'
    BY <1>v, <2>u DEF MailInv, IdInv, Known, Stored
  <2>3. \A n \in Kept : RowInv(n)' /\ JobInv(n)'
    BY <1>v, <2>u DEF MailInv, RowInv, JobInv, Over, Covers
  <2> QED
    BY <1>l, <2>1, <2>2, <2>3 DEF MailInv
<1>6. ASSUME NEW d \in Domain, DeleteDomainBodies(d) PROVE MailInv'
  <2>s. \E S \in Listed(d) \cup {{}} : spool' = spool \ S /\ writtenOff' = writtenOff \cup S
    <3>1. CASE UNCHANGED <<spool, writtenOff>>
      <4>1. spool' = spool \ {} /\ writtenOff' = writtenOff \cup {}
        BY <3>1
      <4> QED
        BY <4>1
    <3> QED
      BY <1>6, <3>1 DEF DeleteDomainBodies
  <2> PICK S \in Listed(d) \cup {{}} : spool' = spool \ S /\ writtenOff' = writtenOff \cup S
    BY <2>s
  <2>u. UNCHANGED <<queue, rcpts, deleting>>
    BY <1>6 DEF DeleteDomainBodies
  <2>k. \A n \in S : n \in Msg /\ Known(n)
    BY DEF Listed, RowsOf, MailInv, IdInv
  <2>1. DsnInv'
    BY <1>v, <1>t, <2>u, <2>k DEF MailInv, DsnInv, Known, Typed
  <2>2. \A n \in Msg : IdInv(n)'
    BY <1>v, <2>u, <2>k DEF MailInv, IdInv, Known, Stored
  <2>3. \A n \in Kept : RowInv(n)' /\ JobInv(n)'
    BY <1>v, <2>u DEF MailInv, RowInv, JobInv, Over, Covers
  <2> QED
    BY <1>l, <2>1, <2>2, <2>3 DEF MailInv
<1>7. ASSUME NEW d \in Domain, DeleteDomainRow(d) PROVE MailInv'
  <2>u. UNCHANGED <<spool, rcpts, deleting>>
    BY <1>7 DEF DeleteDomainRow
  <2>q. \/ RowsGo(RowsOf(d)) /\ writtenOff' = writtenOff \cup RowsOf(d)
        \/ UNCHANGED <<queue, writtenOff>>
    BY <1>7, <1>t, StatementsOnRows DEF DeleteDomainRow, DeleteDomain, Typed
  <2>k. \A n \in RowsOf(d) : n \in Msg /\ Known(n)
    BY DEF RowsOf, MailInv, IdInv
  <2>1. DsnInv'
    BY <1>v, <2>u DEF MailInv, DsnInv, Known
  <2> HIDE DEF RowsOf
  <2>2. \A n \in Msg : IdInv(n)'
    BY <1>v, <2>u, <2>k, <2>q DEF MailInv, IdInv, Known, Stored, RowsGo
  <2>3. \A n \in Kept : RowInv(n)' /\ JobInv(n)'
    BY <1>v, <2>u, <2>q DEF MailInv, RowInv, JobInv, Over, Covers, RowsGo, Msg
  <2> QED
    BY <1>l, <2>1, <2>2, <2>3 DEF MailInv
<1> QED
  BY <1>v, <1>1, <1>2, <1>3, <1>4, <1>5, <1>6, <1>7 DEF AdminStep

\* The end of the process keeps MailInv: rows and bodies survive, locals do not matter
LEMMA StopKeepsMail == TypeOK /\ MailInv /\ Stop => MailInv'
<1> SUFFICES ASSUME TypeOK, MailInv, Stop PROVE MailInv'
  OBVIOUS
<1> USE DEF Kept
<1>v. /\ UNCHANGED <<queue, spool, rcpts, writtenOff, reached, refused>>
      /\ loop' = "down" /\ batch' = {} /\ job' = [n \in Msg |-> "none"]
      /\ outcome' = [n \in Msg |-> "none"] /\ dsn' = [n \in Msg |-> {}]
      /\ deleting' = [n \in Msg |-> "no"] /\ IntakeStop
  BY DEF Stop, SenderStop, AdminStop, storeVars
<1>1. DsnInv' /\ LoopInv'
  BY <1>v DEF DsnInv, LoopInv, Working
<1>2. \A n \in Msg : IdInv(n)'
  BY <1>v DEF MailInv, IdInv, Known, Stored, IntakeStop
<1>3. \A n \in Kept : RowInv(n)' /\ JobInv(n)'
  BY <1>v DEF MailInv, RowInv, JobInv, Over, Covers, Msg
<1> QED
  BY <1>1, <1>2, <1>3 DEF MailInv

\* Shutdown signals, probes and clocks keep MailInv
LEMMA EnvKeepsMail == TypeOK /\ MailInv /\ (Signal \/ EnvNext) => MailInv'
<1> SUFFICES ASSUME TypeOK, MailInv, Signal \/ EnvNext PROVE MailInv'
  OBVIOUS
<1> USE DEF Kept
<1>v. UNCHANGED <<spool, rcpts, writtenOff, session, loop, batch, job, outcome, held, parts,
                  dsn, reached, refused, deleting>>
  BY DEF Signal, Shutdown, EnvNext, PrimaryFlips, BackoffElapses, RetentionElapses, EnvRest,
         storeVars, intakeVars, senderVars, adminVars, historyVars
<1>q. \A n \in Msg : queue'[n].status = queue[n].status /\ queue'[n].to = queue[n].to
  <2>0. queue \in [Msg -> Row]
    BY DEF TypeOK, StoreTypeOK
  <2>1. ASSUME NEW m \in Msg, BackoffElapses(m) \/ RetentionElapses(m), NEW n \in Msg
        PROVE  queue'[n].status = queue[n].status /\ queue'[n].to = queue[n].to
    <3>1. queue'[n] \in {queue[n], [queue[n] EXCEPT !.due = TRUE],
                         [queue[n] EXCEPT !.overdue = TRUE]}
      BY <2>0, <2>1 DEF BackoffElapses, RetentionElapses
    <3>2. queue[n] \in Row
      BY <2>0
    <3> QED
      BY <3>1, <3>2 DEF Row
  <2>2. CASE UNCHANGED queue
    BY <2>2
  <2> QED
    BY <2>1, <2>2 DEF Signal, Shutdown, EnvNext, PrimaryFlips, storeVars
<1>1. DsnInv' /\ LoopInv'
  BY <1>v DEF MailInv, DsnInv, Known, LoopInv, Working
<1>2. \A n \in Msg : IdInv(n)'
  BY <1>v, <1>q DEF MailInv, IdInv, Known, Stored
<1>3. \A n \in Kept : RowInv(n)' /\ JobInv(n)'
  BY <1>v, <1>q DEF MailInv, RowInv, JobInv, Over, Covers, Msg
<1> QED
  BY <1>1, <1>2, <1>3 DEF MailInv

(***************************************************************************)
(* The delivery loop: first the steps of Run, pass and maintain, then the  *)
(* steps of a worker.                                                      *)
(***************************************************************************)

\* Run, pass and maintain keep MailInv where they claim, expire, give back and purge
LEMMA LoopKeepsMail ==
  ASSUME TypeOK, MailInv, UNCHANGED <<intakeVars, adminVars>>,
         \/ Start \/ Wake \/ ClaimInbound \/ ClaimOutbound \/ BatchDone
         \/ MaintainExpire \/ ExpireDone \/ MaintainRelease \/ MaintainPurge
  PROVE  MailInv'
<1> USE DEF Kept
<1>t. Typed
  BY TypedState
<1>v. UNCHANGED <<session, deleting, spool, rcpts, job, outcome, parts, dsn, reached, refused>>
  BY DEF Start, Wake, ClaimInbound, ClaimOutbound, BatchDone, MaintainExpire, ExpireDone,
         MaintainRelease, MaintainPurge, intakeVars, adminVars, storeVars, historyVars
<1>d. DsnInv'
  BY <1>v DEF MailInv, DsnInv, Known
<1>w. Working' = Working
  BY <1>v DEF Working
<1>1. CASE Start \/ MaintainRelease
  <2>u. UNCHANGED <<writtenOff, batch, held>>
        /\ loop \notin {"claimOut", "work", "expire"} /\ loop' \notin {"claimOut", "work", "expire"}
    BY <1>1 DEF Start, MaintainRelease
  <2>q. \A n \in Msg : /\ queue'[n].to = queue[n].to
                       /\ \/ queue'[n].status = queue[n].status
                          \/ queue'[n].status = "queued" /\ queue[n].status = "delivering"
    <3>1. ASSUME NEW S \in SUBSET Delivering, ReleaseOrphanedClaims(S)
          PROVE  \A n \in Msg : /\ queue'[n].to = queue[n].to
                                /\ \/ queue'[n].status = queue[n].status
                                   \/ queue'[n].status = "queued" /\ queue[n].status = "delivering"
      <4>1. S \in SUBSET Msg
        BY DEF Delivering
      <4>2. RowsBecome(S, "queued")
        BY <3>1, <4>1, <1>t, StatementsOnRows DEF Typed
      <4> TAKE n \in Msg
      <4>3. CASE n \in S
        <5>1. queue'[n].status = "queued" /\ queue'[n].to = queue[n].to
          BY <4>2, <4>3 DEF RowsBecome
        <5>2. queue[n].status = "delivering"
          BY <4>3 DEF Delivering
        <5> QED
          BY <5>1, <5>2
      <4>4. CASE n \notin S
        BY <4>2, <4>4 DEF RowsBecome
      <4> QED
        BY <4>3, <4>4
    <3>2. CASE UNCHANGED queue
      BY <3>2
    <3>3. Delivering \in SUBSET Delivering
      OBVIOUS
    <3>4. (\E S \in SUBSET Delivering : ReleaseOrphanedClaims(S)) \/ UNCHANGED queue
      BY <1>1, <3>3 DEF Start, MaintainRelease
    <3> QED
      BY <3>1, <3>2, <3>4
  <2>1. LoopInv'
    BY <1>w, <2>u DEF MailInv, LoopInv
  <2>2. \A n \in Msg : IdInv(n)'
    BY <1>v, <2>u, <2>q DEF MailInv, IdInv, Known, Stored
  <2>3. \A n \in Kept : RowInv(n)' /\ JobInv(n)'
    BY <1>v, <2>u, <2>q DEF MailInv, LoopInv, RowInv, JobInv, Over, Covers, Pending, Msg
  <2> QED
    BY <1>d, <2>1, <2>2, <2>3 DEF MailInv
<1>2. CASE Wake \/ BatchDone \/ ExpireDone
  <2>u. UNCHANGED <<queue, writtenOff, batch, held>> /\ batch = {} /\ Working = {}
    BY <1>2 DEF Wake, BatchDone, ExpireDone, MailInv, LoopInv, storeVars
  <2>1. LoopInv'
    BY <1>w, <2>u DEF LoopInv
  <2>2. \A n \in Msg : IdInv(n)'
    BY <1>v, <2>u DEF MailInv, IdInv, Known, Stored
  <2>3. \A n \in Kept : RowInv(n)' /\ JobInv(n)'
    BY <1>v, <2>u DEF MailInv, RowInv, JobInv, Over, Covers
  <2> QED
    BY <1>d, <2>1, <2>2, <2>3 DEF MailInv
<1>3. CASE ClaimInbound \/ ClaimOutbound
  <2>u. UNCHANGED writtenOff /\ loop \in {"claim", "claimOut"}
        /\ loop' \in {"idle", "claimOut", "work"} /\ Working = {}
        /\ (loop' = "idle" => batch' = {})
    BY <1>3 DEF ClaimInbound, ClaimOutbound, ClaimRows, MailInv, LoopInv
  <2>q. \E S \in SUBSET Msg :
          /\ \A n \in S : queue[n].status = "queued"
          /\ batch' = batch \cup S
          /\ RowsBecome(S, "delivering")
          /\ held' = [n \in Msg |-> IF n \in S THEN queue[n].to ELSE held[n]]
    <3>1. CASE UNCHANGED <<queue, batch, held>>
      <4>1. RowsBecome({}, "delivering")
        BY <3>1, <1>t DEF RowsBecome, Typed, StoreTypeOK
      <4>2. held' = [n \in Msg |-> IF n \in {} THEN queue[n].to ELSE held[n]]
        BY <3>1, <1>t DEF Typed
      <4> WITNESS {} \in SUBSET Msg
      <4> QED
        BY <3>1, <4>1, <4>2
    <3>2. ASSUME NEW T \in SUBSET Msg, \A n \in T : queue[n].status = "queued",
                 NEW S \in Limited(T), ClaimRows(S)
          PROVE  /\ S \in SUBSET Msg /\ \A n \in S : queue[n].status = "queued"
                 /\ batch' = batch \cup S
                 /\ RowsBecome(S, "delivering")
                 /\ held' = [n \in Msg |-> IF n \in S THEN queue[n].to ELSE held[n]]
      <4>1. S \in SUBSET Msg /\ S \subseteq T
        BY <3>2 DEF Limited
      <4> QED
        BY <3>2, <4>1, <1>t, StatementsOnRows DEF ClaimRows, Typed
    <3>3. \A n \in {k \in Msg : Claimable(k)} : queue[n].status = "queued"
      BY DEF Claimable
    <3>4. \A n \in {k \in Msg : ClaimableOutbound(k, ~OutboundEnabled)} :
            queue[n].status = "queued"
      BY DEF ClaimableOutbound
    <3>5. CASE \E S \in Limited({k \in Msg : Claimable(k)}) : ClaimRows(S)
      BY <3>5, <3>2, <3>3
    <3>6. CASE \E S \in Limited({k \in Msg : ClaimableOutbound(k, ~OutboundEnabled)}) :
                 ClaimRows(S)
      BY <3>6, <3>2, <3>4
    <3> QED
      BY <1>3, <3>1, <3>5, <3>6 DEF ClaimInbound, ClaimOutbound
  <2> PICK S \in SUBSET Msg :
          /\ \A n \in S : queue[n].status = "queued"
          /\ batch' = batch \cup S
          /\ RowsBecome(S, "delivering")
          /\ held' = [n \in Msg |-> IF n \in S THEN queue[n].to ELSE held[n]]
    BY <2>q
  <2>1. LoopInv'
    BY <1>w, <2>u DEF LoopInv
  <2>2. \A n \in Msg : IdInv(n)'
    BY <1>v, <2>u DEF MailInv, IdInv, Known, Stored, RowsBecome
  <2>3. \A n \in Kept : RowInv(n)'
    BY <1>v, <2>u DEF MailInv, RowInv, Over, Covers, RowsBecome, Pending, Msg
  <2>4. \A n \in Kept : JobInv(n)'
    <3> SUFFICES ASSUME NEW n \in Kept PROVE JobInv(n)'
      OBVIOUS
    <3>1. n \in Msg /\ job[n] = "none" /\ outcome[n] = "none"
      BY <2>u DEF MailInv, JobInv, Working, Msg
    <3>2. n \in batch' => Covers(n, held'[n])
      BY <2>u, <3>1 DEF MailInv, RowInv, JobInv, Over, Covers
    <3>3. n \in batch' => Covers(n, held[n])'
      BY <1>v, <2>u, <3>2 DEF Covers
    <3> QED
      BY <1>v, <2>u, <3>1, <3>3 DEF JobInv
  <2> QED
    BY <1>d, <2>1, <2>2, <2>3, <2>4 DEF MailInv
<1>4. CASE MaintainExpire
  <2>u. batch = {} /\ Working = {} /\ loop' = "expire" /\ UNCHANGED held
    BY <1>4 DEF MaintainExpire, MailInv, LoopInv
  <2>q. \/ /\ RowsBecome(Overdue, "expired") /\ writtenOff' = writtenOff \cup Overdue
           /\ batch' = Overdue
        \/ UNCHANGED <<queue, writtenOff, batch>>
    BY <1>4, <1>t, StatementsOnRows DEF MaintainExpire, ExpireOverdue, Typed
  <2>o. \A n \in Overdue : n \in Msg /\ Known(n)
    BY DEF Overdue, MailInv, IdInv, Stored
  <2> HIDE DEF Overdue
  <2>1. LoopInv'
    BY <1>w, <2>u DEF LoopInv
  <2>2. \A n \in Msg : IdInv(n)'
    BY <1>v, <2>u, <2>q, <2>o DEF MailInv, IdInv, Known, Stored, RowsBecome
  <2>3. \A n \in Kept : RowInv(n)' /\ JobInv(n)'
    BY <1>v, <2>u, <2>q DEF MailInv, RowInv, JobInv, Over, Covers, RowsBecome, Msg
  <2> QED
    BY <1>d, <2>1, <2>2, <2>3 DEF MailInv
<1>5. CASE MaintainPurge
  <2>u. UNCHANGED <<writtenOff, batch, held>> /\ batch = {} /\ Working = {}
    BY <1>5 DEF MaintainPurge, MailInv, LoopInv
  <2>q. \A n \in Msg : \/ queue'[n] = queue[n]
                       \/ queue'[n].status = "absent" /\ queue[n].status \in Settled
    <3>1. ASSUME NEW S \in SUBSET History, PurgeDelivered(S)
          PROVE  \A n \in Msg : \/ queue'[n] = queue[n]
                                \/ queue'[n].status = "absent" /\ queue[n].status \in Settled
      <4>1. S \in SUBSET Msg
        BY DEF History
      <4>2. RowsGo(S)
        BY <3>1, <4>1, <1>t, StatementsOnRows DEF Typed
      <4> TAKE n \in Msg
      <4>3. CASE n \in S
        <5>1. queue'[n].status = "absent"
          BY <4>2, <4>3 DEF RowsGo
        <5>2. queue[n].status \in Settled
          BY <4>3 DEF History
        <5> QED
          BY <5>1, <5>2
      <4>4. CASE n \notin S
        BY <4>2, <4>4 DEF RowsGo
      <4> QED
        BY <4>3, <4>4
    <3> QED
      BY <1>5, <3>1 DEF MaintainPurge
  <2>1. LoopInv'
    BY <1>w, <2>u DEF LoopInv
  <2>2. \A n \in Msg : IdInv(n)'
    BY <1>v, <2>u, <2>q DEF MailInv, IdInv, Known, Stored
  <2>3. \A n \in Kept : RowInv(n)' /\ JobInv(n)'
    BY <1>v, <2>u, <2>q DEF MailInv, RowInv, JobInv, Over, Covers, Pending, Settled, Msg
  <2> QED
    BY <1>d, <2>1, <2>2, <2>3 DEF MailInv
<1> QED
  BY <1>1, <1>2, <1>3, <1>4, <1>5

\* A step leaves alone everything MailInv says of message n
Same(n) ==
  /\ queue'[n].status = queue[n].status /\ queue'[n].to = queue[n].to
  /\ rcpts'[n] = rcpts[n]
  /\ n \in spool' <=> n \in spool
  /\ n \in writtenOff' <=> n \in writtenOff
  /\ n \in batch' <=> n \in batch
  /\ UNCHANGED loop
  /\ job'[n] = job[n] /\ outcome'[n] = outcome[n]
  /\ held'[n] = held[n] /\ parts'[n] = parts[n]
  /\ reached'[n] = reached[n] /\ refused'[n] = refused[n]
  /\ session'[n] = session[n] /\ deleting'[n] = deleting[n]

\* A message nobody touches stays accounted for
LEMMA SameStays ==
  ASSUME MailInv, NEW n \in Msg, Same(n)
  PROVE  IdInv(n)' /\ (n \in Kept => RowInv(n)' /\ JobInv(n)')
<1>1. IdInv(n)'
  BY DEF Same, MailInv, IdInv, Known, Stored
<1>2. n \in Kept => RowInv(n)'
  BY DEF Same, MailInv, RowInv, Over, Covers
<1>3. n \in Kept => JobInv(n)'
  BY DEF Same, MailInv, JobInv, Over, Covers
<1> QED
  BY <1>1, <1>2, <1>3

\* The invariant of the loop survives the progress of one worker
LEMMA WorkerMoves ==
  ASSUME Typed, LoopInv, NEW m \in Msg, job[m] # "none", NEW j,
         job' = [job EXCEPT ![m] = j], UNCHANGED <<loop, batch>>
  PROVE  LoopInv'
<1>1. m \in Working
  BY DEF Working
<1>2. Working' \subseteq Working
  <2> SUFFICES ASSUME NEW n \in Working' PROVE n \in Working
    OBVIOUS
  <2>1. CASE n = m
    BY <1>1, <2>1
  <2>2. CASE n # m
    <3>1. n \in Msg /\ job'[n] # "none"
      BY DEF Working
    <3>2. job'[n] = job[n]
      BY <2>2, <3>1 DEF Typed
    <3> QED
      BY <3>1, <3>2 DEF Working
  <2> QED
    BY <2>1, <2>2
<1> HIDE DEF Working
<1> QED
  BY <1>1, <1>2 DEF LoopInv

\* Work on m that leaves the row, the body and the bounces alone
LEMMA WorkerAlone ==
  ASSUME TypeOK, MailInv, NEW m \in Msg, Attempt(m), UNCHANGED <<intakeVars, adminVars>>
  PROVE  MailInv'
<1>t. Typed
  BY TypedState
<1>v. UNCHANGED <<session, deleting, queue, spool, rcpts, writtenOff, loop, held, dsn>>
  <2>1. UNCHANGED <<session, deleting>>
    BY DEF intakeVars, adminVars
  <2>2. Begin(m) => UNCHANGED <<queue, spool, rcpts, writtenOff, loop, held, dsn>>
    BY DEF Begin
  <2>3. \A how, p : Ending(m, how, p)
                     => UNCHANGED <<queue, spool, rcpts, writtenOff, loop, held, dsn>>
    BY DEF Ending, storeVars
  <2>4. Begin(m) \/ \E how, p : Ending(m, how, p)
    <3>1. \A G : AttemptFails(m, G) => Ending(m, "temporary", NoParts)
      BY DEF AttemptFails
    <3>2. AttemptRefused(m) => Ending(m, "permanent", NoParts)
      BY DEF AttemptRefused
    <3>3. \A A, D, R, U, G : AttemptSettles(m, A, D, R, U, G)
            => Ending(m, "parts", [acc |-> A, def |-> D, rej |-> R])
      BY DEF AttemptSettles
    <3> HIDE DEF Ending
    <3> QED
      BY <3>1, <3>2, <3>3, Zenon DEF Attempt
  <2> QED
    BY <2>1, <2>2, <2>3, <2>4
<1>d. DsnInv'
  BY <1>v DEF MailInv, DsnInv, Known
<1>i. IdInv(m) /\ (m \in Kept => RowInv(m) /\ JobInv(m)) /\ LoopInv
  BY DEF MailInv
<1>q. ASSUME IdInv(m)', m \in Kept => RowInv(m)' /\ JobInv(m)', LoopInv',
             \A n \in Msg \ {m} : Same(n)
      PROVE  MailInv'
  <2>1. \A n \in Msg : IdInv(n)' /\ (n \in Kept => RowInv(n)' /\ JobInv(n)')
    BY <1>q, SameStays
  <2>2. Kept \subseteq Msg
    BY DEF Kept, Msg
  <2> QED
    BY <1>d, <1>q, <2>1, <2>2 DEF MailInv
<1>1. CASE Begin(m)
  <2>b. /\ m \in batch /\ batch' = batch \ {m} /\ loop = "work"
        /\ UNCHANGED <<reached, refused>>
        /\ parts' = [parts EXCEPT ![m] = NoParts]
    BY <1>1 DEF Begin, Take, historyVars
  <2>o. \/ /\ outcome' = [outcome EXCEPT ![m] = "temporary"]
           /\ job' = [job EXCEPT ![m] = "mark"]
        \/ /\ outcome' = [outcome EXCEPT ![m] = "none"]
           /\ job' = [job EXCEPT ![m] = "open"]
        \/ /\ outcome' = [outcome EXCEPT ![m] = "lost"]
           /\ job' = [job EXCEPT ![m] = "mark"]
           /\ m \notin spool
    BY <1>1 DEF Begin
  <2>1. \A n \in Msg \ {m} : Same(n)
    BY <1>v, <1>t, <2>b, <2>o DEF Same, Typed
  <2>2. LoopInv'
    <3>1. Working' = Working \cup {m}
      BY <1>t, <2>o DEF Working, Typed
    <3> QED
      BY <1>i, <1>v, <2>b, <3>1 DEF LoopInv
  <2>3. IdInv(m)'
    BY <1>i, <1>v, <2>b DEF IdInv, Known, Stored
  <2>4. ASSUME m \in Kept PROVE RowInv(m)' /\ JobInv(m)'
    <3>1. RowInv(m)'
      BY <1>i, <1>v, <2>4, <2>b DEF RowInv, Over, Covers
    <3>2. Covers(m, held[m])'
      BY <1>i, <1>v, <2>4, <2>b DEF JobInv, Covers
    <3>3. m \notin spool => Over(m)'
      BY <1>i, <1>v, <2>4, <2>b DEF RowInv, Over, Covers
    <3>4. \/ job'[m] = "mark" /\ outcome'[m] = "temporary"
          \/ job'[m] = "open" /\ outcome'[m] = "none"
          \/ job'[m] = "mark" /\ outcome'[m] = "lost" /\ m \notin spool
      BY <1>t, <2>o DEF Typed
    <3> QED
      BY <1>v, <2>b, <3>1, <3>2, <3>3, <3>4 DEF JobInv
  <2> QED
    BY <1>q, <2>1, <2>2, <2>3, <2>4
\* The three ways an attempt ends
<1>e. ASSUME NEW how \in {"temporary", "permanent", "parts"}, NEW p, NEW j \in Job \ {"none"},
             NEW T \in SUBSET Rcpt, NEW R \in SUBSET Rcpt,
             job[m] = "open", job' = [job EXCEPT ![m] = j], Ending(m, how, p),
             reached' = [reached EXCEPT ![m] = @ \cup T],
             refused' = [refused EXCEPT ![m] = @ \cup R],
             /\ how = "parts" /\ m \in Kept => held[m] \subseteq T \cup R \cup p.def
             /\ how = "permanent" => held[m] \subseteq R,
             j \in {"bounce", "mark", "narrow"},
             j = "bounce" => how = "parts", j = "narrow" => how = "parts"
      PROVE  MailInv'
  <2>u. /\ UNCHANGED batch /\ outcome' = [outcome EXCEPT ![m] = how]
        /\ parts' = [parts EXCEPT ![m] = p]
    BY <1>e DEF Ending
  <2>1. \A n \in Msg \ {m} : Same(n)
    BY <1>v, <1>t, <1>e, <2>u DEF Same, Typed
  <2>2. LoopInv'
    BY <1>e, <1>i, <1>t, <1>v, <2>u, WorkerMoves
  <2>m. /\ job'[m] = j /\ outcome'[m] = how /\ parts'[m] = p
        /\ reached'[m] = reached[m] \cup T /\ refused'[m] = refused[m] \cup R
        /\ m \notin batch'
    <3>1. m \notin batch
      BY <1>e, <1>i DEF LoopInv, Working
    <3> QED
      BY <1>e, <1>t, <2>u, <3>1 DEF Typed
  <2>3. IdInv(m)'
    BY <1>e, <1>i, <1>v, <2>m DEF IdInv, Known, Stored
  <2>4. ASSUME m \in Kept PROVE RowInv(m)' /\ JobInv(m)'
    <3>1. RowInv(m)'
      BY <1>i, <1>v, <2>4, <2>m DEF RowInv, Over, Covers
    <3>2. Covers(m, held[m])
      BY <1>e, <1>i, <2>4 DEF JobInv
    <3>3. how = "parts" => Covers(m, parts[m].def)'
      BY <1>e, <1>v, <2>4, <2>m, <3>2 DEF Covers
    <3>4. how = "permanent" => Over(m)'
      BY <1>e, <1>v, <2>m, <3>2 DEF Over, Covers
    <3> QED
      BY <1>e, <2>m, <3>1, <3>3, <3>4 DEF JobInv
  <2> QED
    BY <1>q, <2>1, <2>2, <2>3, <2>4
<1>h. held[m] \subseteq Rcpt
  BY <1>t DEF Typed
<1>2. ASSUME NEW G \in SUBSET held[m], AttemptFails(m, G) PROVE MailInv'
  <2>1. refused' = [refused EXCEPT ![m] = @ \cup {}]
    BY <1>2, <1>t DEF AttemptFails, Typed
  <2>2. "mark" \in Job \ {"none"} /\ {} \in SUBSET Rcpt /\ G \in SUBSET Rcpt
    BY <1>h DEF Job
  <2> QED
    BY <1>2, <1>e, <2>1, <2>2 DEF AttemptFails, Reach
<1>3. CASE AttemptRefused(m)
  <2>1. reached' = [reached EXCEPT ![m] = @ \cup {}]
    BY <1>3, <1>t DEF AttemptRefused, Typed
  <2>2. "mark" \in Job \ {"none"} /\ {} \in SUBSET Rcpt
    BY DEF Job
  <2> QED
    BY <1>3, <1>e, <1>h, <2>1, <2>2 DEF AttemptRefused
<1>4. ASSUME NEW A \in SUBSET held[m], NEW D \in SUBSET held[m], NEW R \in SUBSET held[m],
             NEW U \in SUBSET held[m], NEW G \in SUBSET held[m],
             AttemptSettles(m, A, D, R, U, G)
      PROVE  MailInv'
  <2> DEFINE p == [acc |-> A, def |-> D, rej |-> R]
             j == IF R # {} THEN ToBounce(m, "parts", p) ELSE AfterBounce(m, "parts", p)
  <2>1. /\ job[m] = "open" /\ job' = [job EXCEPT ![m] = j] /\ Ending(m, "parts", p)
        /\ reached' = [reached EXCEPT ![m] = @ \cup (A \cup G)]
        /\ refused' = [refused EXCEPT ![m] = @ \cup R]
    BY <1>4 DEF AttemptSettles, Reach
  <2>2. j \in {"bounce", "mark", "narrow"} /\ j \in Job \ {"none"}
    BY DEF ToBounce, AfterBounce, Job
  <2>3. m \in Kept => U = {}
    BY <1>4, IdsAssumption DEF AttemptSettles, Kept
  <2>4. m \in Kept => held[m] \subseteq (A \cup G) \cup R \cup D
    BY <1>4, <2>3 DEF AttemptSettles
  <2>5. p.def = D
    OBVIOUS
  <2>6. A \cup G \in SUBSET Rcpt /\ R \in SUBSET Rcpt
    BY <1>h
  <2> HIDE DEF j, p
  <2> QED
    BY <1>e, <2>1, <2>2, <2>4, <2>5, <2>6
<1> QED
  BY <1>1, <1>2, <1>3, <1>4 DEF Attempt

\* Where a worker goes next, when it writes or unlinks nothing of other messages
LEMMA WorkerGoes ==
  ASSUME TypeOK, MailInv, NEW m \in Msg, NEW j \in Job, GoTo(m, j), job[m] # "none",
         UNCHANGED <<intakeVars, adminVars, rcpts, writtenOff>>, DsnInv',
         \A n \in Msg \ {m} : /\ queue'[n] = queue[n]
                              /\ n \in spool' <=> n \in spool,
         Stored(m)' => Stored(m),
         m \in Kept => RowInv(m)',
         m \in Kept =>
           /\ j = "none" \/ j = "unlink" \/ outcome[m] # "temporary"
           /\ j = "mark" => outcome[m] = "parts"
           /\ j = "narrow" => outcome[m] = "parts"
           /\ j = "unlink" => Over(m)
           /\ j \in {"bounce", "report"} =>
                outcome[m] \in {"permanent", "lost", "parts", "expired"}
           /\ j # "open"
  PROVE  MailInv'
<1>t. Typed
  BY TypedState
<1>i. IdInv(m) /\ (m \in Kept => RowInv(m) /\ JobInv(m)) /\ LoopInv
  BY DEF MailInv
<1>v. UNCHANGED <<session, deleting, loop, batch, reached, refused>>
      /\ job' = [job EXCEPT ![m] = j]
  BY DEF GoTo, intakeVars, adminVars
<1>h. \/ /\ j = "none" /\ outcome' = [outcome EXCEPT ![m] = "none"]
         /\ held' = [held EXCEPT ![m] = {}] /\ parts' = [parts EXCEPT ![m] = NoParts]
      \/ j # "none" /\ UNCHANGED <<outcome, held, parts>>
  BY DEF GoTo
<1>1. \A n \in Msg \ {m} : Same(n)
  BY <1>v, <1>h, <1>t DEF Same, Typed
<1>2. LoopInv'
  BY <1>i, <1>t, <1>v, WorkerMoves
<1>b. m \notin batch
  BY <1>i DEF LoopInv, Working
<1>3. IdInv(m)'
  <2>1. Known(m)' /\ m \notin batch'
    BY <1>i, <1>v, <1>b DEF IdInv, Known
  <2>2. session[m] # "spooled"
    BY <1>i DEF IdInv
  <2> QED
    BY <1>i, <1>v, <2>1, <2>2 DEF IdInv, Known
<1>4. ASSUME m \in Kept PROVE JobInv(m)'
  <2>1. JobInv(m)
    BY <1>4, <1>i
  <2>2. job'[m] = j /\ m \notin batch'
    BY <1>v, <1>b, <1>t DEF Typed
  <2>3. CASE j = "none"
    <3>1. outcome'[m] = "none"
      BY <1>h, <1>t, <2>3 DEF Typed
    <3> QED
      BY <2>2, <2>3, <3>1 DEF JobInv
  <2>4. CASE j # "none"
    <3>1. UNCHANGED <<outcome, held, parts>>
      BY <1>h, <2>4
    <3>2. /\ outcome[m] = "parts" => Covers(m, parts[m].def)'
          /\ outcome[m] \in {"permanent", "lost", "expired"} => Over(m)'
          /\ j = "unlink" => Over(m)'
      BY <1>4, <1>v, <2>1, <3>1 DEF JobInv, Over, Covers
    <3> QED
      BY <1>4, <2>2, <2>4, <3>1, <3>2 DEF JobInv
  <2> QED
    BY <2>3, <2>4
<1>5. \A n \in Msg : IdInv(n)' /\ (n \in Kept => RowInv(n)' /\ JobInv(n)')
  BY <1>1, <1>3, <1>4, SameStays
<1>6. Kept \subseteq Msg
  BY DEF Kept, Msg
<1> QED
  BY <1>2, <1>5, <1>6 DEF MailInv

\* The writes that end an attempt, and the bounces, keep MailInv
LEMMA WrapupKeepsMail ==
  ASSUME TypeOK, MailInv, NEW m \in Msg, Wrapup(m), UNCHANGED <<intakeVars, adminVars>>
  PROVE  MailInv'
<1>t. Typed
  BY TypedState
<1>i. IdInv(m) /\ (m \in Kept => RowInv(m) /\ JobInv(m)) /\ LoopInv /\ DsnInv
  BY DEF MailInv
\* The four writes on the row: the body and the bounces are not touched
<1>w. ASSUME UNCHANGED <<spool, rcpts, writtenOff, dsn, reached, refused>>,
             NEW s, NEW R, RowBecomes(m, s, R) \/ UNCHANGED queue,
             RowBecomes(m, s, R) => Stored(m),
             RowBecomes(m, s, R) /\ m \in Kept =>
               \/ Over(m)
               \/ /\ queue[m].status \in Pending => s \in Pending
                  /\ Covers(m, queue[m].to) => Covers(m, R)
      PROVE  /\ DsnInv' /\ (m \in Kept => RowInv(m)') /\ (Stored(m)' => Stored(m))
             /\ \A n \in Msg \ {m} : queue'[n] = queue[n] /\ (n \in spool' <=> n \in spool)
  <2>1. DsnInv'
    BY <1>w, <1>i DEF DsnInv, Known
  <2>2. Over(m) => Over(m)'
    BY <1>w DEF Over, Covers
  <2>3. m \in Kept => RowInv(m)'
    <3>1. CASE UNCHANGED queue
      BY <1>w, <1>i, <3>1 DEF RowInv, Over, Covers
    <3>2. CASE RowBecomes(m, s, R)
      BY <1>w, <1>i, <2>2, <3>2 DEF RowInv, Covers, RowBecomes
    <3> QED
      BY <1>w, <3>1, <3>2
  <2>4. Stored(m)' => Stored(m)
    BY <1>w DEF Stored
  <2> QED
    BY <1>w, <2>1, <2>3, <2>4 DEF RowBecomes
<1>s. Written(m) => Stored(m)
  BY DEF Written
<1>1. CASE Narrow(m)
  <2>0. /\ job[m] = "narrow" /\ GoTo(m, "mark")
        /\ UNCHANGED <<spool, rcpts, writtenOff, dsn, reached, refused>>
    BY <1>1 DEF Narrow, GoTo
  <2>1. parts[m].def \in SUBSET Rcpt
    BY <1>t DEF Typed, Parts
  <2>2. \/ RowBecomes(m, queue[m].status, parts[m].def) /\ Stored(m)
        \/ UNCHANGED queue
    BY <1>1, <1>t, <1>s, <2>1, StatementsOnOneRow DEF Narrow, Typed
  <2>3. m \in Kept => Covers(m, parts[m].def) /\ outcome[m] = "parts"
    BY <1>i, <2>0 DEF JobInv
  <2>4. /\ DsnInv' /\ (m \in Kept => RowInv(m)') /\ (Stored(m)' => Stored(m))
        /\ \A n \in Msg \ {m} : queue'[n] = queue[n] /\ (n \in spool' <=> n \in spool)
    <3>1. CASE RowBecomes(m, queue[m].status, parts[m].def) /\ Stored(m)
      BY <1>w, <2>0, <2>3, <3>1
    <3>2. CASE UNCHANGED queue
      BY <2>0, <3>2, <1>i DEF DsnInv, Known, RowInv, Over, Covers, Stored
    <3> QED
      BY <2>2, <3>1, <3>2
  <2>5. "mark" \in Job
    BY DEF Job
  <2> QED
    BY <2>0, <2>3, <2>4, <2>5, WorkerGoes
<1>2. CASE MarkDeferred(m)
  <2>0. /\ job[m] = "mark" /\ GoTo(m, "none")
        /\ UNCHANGED <<spool, rcpts, writtenOff, dsn, reached, refused>>
    BY <1>2 DEF MarkDeferred, GoTo
  <2>2. \/ RowBecomes(m, "queued", queue[m].to) /\ Stored(m)
        \/ UNCHANGED queue
    BY <1>2, <1>t, <1>s, StatementsOnOneRow DEF MarkDeferred, Typed
  <2>4. /\ DsnInv' /\ (m \in Kept => RowInv(m)') /\ (Stored(m)' => Stored(m))
        /\ \A n \in Msg \ {m} : queue'[n] = queue[n] /\ (n \in spool' <=> n \in spool)
    <3>1. CASE RowBecomes(m, "queued", queue[m].to) /\ Stored(m)
      BY <1>w, <2>0, <3>1 DEF Pending
    <3>2. CASE UNCHANGED queue
      BY <2>0, <3>2, <1>i DEF DsnInv, Known, RowInv, Over, Covers, Stored
    <3> QED
      BY <2>2, <3>1, <3>2
  <2>5. "none" \in Job
    BY DEF Job
  <2> QED
    BY <2>0, <2>4, <2>5, WorkerGoes
<1>3. CASE MarkDone(m)
  <2>0. /\ job[m] = "mark" /\ Done(m)
        /\ UNCHANGED <<spool, rcpts, writtenOff, dsn, reached, refused>>
    BY <1>3 DEF MarkDone, GoTo
  <2>1. m \in Kept => Over(m)
    BY <1>i, <2>0 DEF JobInv, Done, Over
  <2>2. CASE Written(m) /\ MarkDelivered(m) /\ GoTo(m, "unlink")
    <3>1. RowBecomes(m, "delivered", queue[m].to) /\ Stored(m)
      BY <2>2, <1>t, <1>s, StatementsOnOneRow DEF Typed
    <3>2. /\ DsnInv' /\ (m \in Kept => RowInv(m)') /\ (Stored(m)' => Stored(m))
          /\ \A n \in Msg \ {m} : queue'[n] = queue[n] /\ (n \in spool' <=> n \in spool)
      BY <1>w, <2>0, <2>1, <3>1
    <3>3. "unlink" \in Job
      BY DEF Job
    <3> QED
      BY <2>0, <2>1, <2>2, <3>2, <3>3, WorkerGoes
  <2>3. CASE UNCHANGED queue /\ GoTo(m, "none")
    <3>1. /\ DsnInv' /\ (m \in Kept => RowInv(m)') /\ (Stored(m)' => Stored(m))
          /\ \A n \in Msg \ {m} : queue'[n] = queue[n] /\ (n \in spool' <=> n \in spool)
      BY <2>0, <2>3, <1>i DEF DsnInv, Known, RowInv, Over, Covers, Stored
    <3>2. "none" \in Job
      BY DEF Job
    <3> QED
      BY <2>0, <2>3, <3>1, <3>2, WorkerGoes
  <2> QED
    BY <1>3, <2>2, <2>3 DEF MarkDone
<1>4. CASE MarkGivenUp(m)
  <2> DEFINE j == IF outcome[m] = "parts" THEN "unlink"
                  ELSE ToBounce(m, outcome[m], parts[m])
  <2>0. /\ job[m] = "mark" /\ ~Deferred(m) /\ ~Done(m) /\ GoTo(m, j)
        /\ UNCHANGED <<spool, rcpts, writtenOff, dsn, reached, refused>>
    BY <1>4 DEF MarkGivenUp, GoTo
  <2>1. m \in Kept => Over(m) /\ outcome[m] \in {"permanent", "lost", "parts"}
    BY <1>i, <2>0 DEF JobInv, Deferred, Over
  <2>2. \/ RowBecomes(m, "failed", queue[m].to) /\ Stored(m)
        \/ UNCHANGED queue
    BY <1>4, <1>t, <1>s, StatementsOnOneRow DEF MarkGivenUp, Typed
  <2>4. /\ DsnInv' /\ (m \in Kept => RowInv(m)') /\ (Stored(m)' => Stored(m))
        /\ \A n \in Msg \ {m} : queue'[n] = queue[n] /\ (n \in spool' <=> n \in spool)
    <3>1. CASE RowBecomes(m, "failed", queue[m].to) /\ Stored(m)
      BY <1>w, <2>0, <2>1, <3>1
    <3>2. CASE UNCHANGED queue
      BY <2>0, <3>2, <1>i DEF DsnInv, Known, RowInv, Over, Covers, Stored
    <3> QED
      BY <2>2, <3>1, <3>2
  <2>5. j \in Job
    BY DEF ToBounce, AfterBounce, Job
  <2>6. m \in Kept => j \in {"none", "unlink", "bounce"}
    BY <2>1 DEF ToBounce, AfterBounce
  <2> HIDE DEF j
  <2> QED
    BY <2>0, <2>1, <2>4, <2>5, <2>6, WorkerGoes
<1>5. CASE Unlink(m)
  <2>0. /\ job[m] = "unlink" /\ GoTo(m, "none") /\ spool' = spool \ {m}
        /\ UNCHANGED <<queue, rcpts, writtenOff, dsn, reached, refused>>
    BY <1>5 DEF Unlink, GoTo
  <2>1. Known(m) /\ (m \in Kept => Over(m))
    BY <1>i, <2>0 DEF IdInv, JobInv
  <2>2. DsnInv'
    BY <1>i, <2>0, <2>1 DEF DsnInv, Known
  <2>3. (m \in Kept => RowInv(m)') /\ (Stored(m)' => Stored(m))
    BY <2>0, <2>1 DEF RowInv, Over, Covers, Stored
  <2>4. "none" \in Job
    BY DEF Job
  <2> QED
    BY <2>0, <2>2, <2>3, <2>4, WorkerGoes
\* Where bounce returns to
<1>a. ASSUME job[m] \in {"bounce", "report"}
      PROVE  LET j == AfterBounce(m, outcome[m], parts[m])
             IN  /\ j \in Job /\ j # "open" /\ j \notin {"bounce", "report"}
                 /\ m \in Kept => /\ outcome[m] # "temporary"
                                  /\ j \in {"mark", "narrow"} => outcome[m] = "parts"
                                  /\ j = "unlink" => Over(m)
  <2>1. m \in Kept => /\ outcome[m] \in {"permanent", "lost", "parts", "expired"}
                      /\ outcome[m] \in {"permanent", "lost", "expired"} => Over(m)
    BY <1>a, <1>i DEF JobInv
  <2> QED
    BY <2>1 DEF AfterBounce, Job
<1>6. CASE BouncePut(m)
  <2>0. /\ job[m] = "bounce"
        /\ UNCHANGED <<queue, rcpts, writtenOff, reached, refused>>
    BY <1>6 DEF BouncePut, GoTo
  <2>c. outcome[m] \in {"permanent", "lost", "parts", "expired"} \/ m \notin Kept
    BY <1>i, <2>0 DEF JobInv
  <2>1. ASSUME NEW b \in DsnMsg, Fresh(b), spool' = spool \cup {b},
               dsn' = [dsn EXCEPT ![m] = {b}], GoTo(m, "report")
        PROVE  MailInv'
    <3>1. b \in Msg /\ b \notin spool /\ ~Known(b) /\ \A n \in Msg : b \notin dsn[n]
      BY <2>1 DEF Fresh, Known, Msg
    <3>2. b # m
      BY <2>0, <3>1, <1>i DEF IdInv
    <3>3. DsnInv'
      <4>1. \A n \in Msg : dsn'[n] = IF n = m THEN {b} ELSE dsn[n]
        BY <2>1, <1>t DEF Typed
      <4> QED
        BY <1>i, <2>0, <2>1, <3>1, <4>1 DEF DsnInv, Known
    \* the new id is nobody's yet: its body disturbs no invariant
    <3>4. "report" \in Job
      BY DEF Job
    <3>v. UNCHANGED <<session, deleting, loop, batch, reached, refused, outcome, held, parts>>
          /\ job' = [job EXCEPT ![m] = "report"]
      BY <2>1 DEF GoTo, intakeVars, adminVars
    <3>5. LoopInv'
      BY <1>i, <1>t, <2>0, <3>v, WorkerMoves
    <3>6. \A n \in Msg : IdInv(n)'
      BY <1>t, <2>0, <2>1, <3>v DEF MailInv, IdInv, Known, Stored, Typed
    <3>7. \A n \in Kept : RowInv(n)'
      BY <2>0, <2>1, <3>v DEF MailInv, RowInv, Over, Covers
    <3>8. ASSUME NEW n \in Kept PROVE JobInv(n)'
      <4>1. n \in Msg /\ JobInv(n)
        BY DEF MailInv, Kept, Msg
      <4>2. CASE n # m
        <5>1. job'[n] = job[n]
          BY <1>t, <3>v, <4>1, <4>2 DEF Typed
        <5> QED
          BY <2>0, <3>v, <4>1, <5>1 DEF JobInv, Over, Covers
      <4>3. CASE n = m
        <5>1. job'[m] = "report" /\ job[m] # "none"
          BY <1>t, <2>0, <3>v DEF Typed
        <5> QED
          BY <2>0, <2>c, <3>v, <4>1, <4>3, <5>1 DEF JobInv, Over, Covers
      <4> QED
        BY <4>2, <4>3
    <3> QED
      BY <3>3, <3>5, <3>6, <3>7, <3>8 DEF MailInv
  <2>2. CASE UNCHANGED <<spool, dsn>> /\ GoTo(m, AfterBounce(m, outcome[m], parts[m]))
    <3>1. DsnInv' /\ (m \in Kept => RowInv(m)') /\ (Stored(m)' => Stored(m))
      BY <1>i, <2>0, <2>2 DEF DsnInv, Known, RowInv, Over, Covers, Stored
    <3> QED
      BY <1>a, <2>0, <2>2, <3>1, WorkerGoes
  <2> QED
    BY <1>6, <2>1, <2>2 DEF BouncePut
<1>7. CASE BounceEnqueue(m)
  <2> DEFINE j == AfterBounce(m, outcome[m], parts[m])
  <2>0. /\ job[m] = "report" /\ dsn' = [dsn EXCEPT ![m] = {}] /\ GoTo(m, j)
        /\ UNCHANGED <<writtenOff, reached, refused>>
    BY <1>7 DEF BounceEnqueue, GoTo
  <2> PICK b \in dsn[m] :
       \/ /\ Succeeds
          /\ \E s \in Rcpt : Enqueue(b, home[m], {s})
          /\ told' = [told EXCEPT ![m] = @ \cup Failures(m)]
          /\ UNCHANGED <<spool, shaken>>
       \/ /\ (Succeeds /\ ~domain[home[m]].exists) \/ Fails
          /\ spool' = spool \ {b}
          /\ shaken' = shaken \cup {m}
          /\ UNCHANGED <<queue, home, rcpts, told>>
    BY <1>7 DEF BounceEnqueue
  <2>b. b \in Msg /\ b \in DsnMsg /\ b \in spool /\ ~Known(b)
        /\ \A n \in Msg \ {m} : b \notin dsn[n]
    BY <1>i, <1>t DEF DsnInv, Typed, Msg
  <2>m. b # m /\ IdInv(b) /\ job[b] = "none" /\ b \notin batch /\ b \notin writtenOff
    BY <1>i, <2>0, <2>b DEF IdInv, MailInv
  <2>d. \A n \in Msg : dsn'[n] = IF n = m THEN {} ELSE dsn[n]
    BY <1>t, <2>0 DEF Typed
  <2>v. UNCHANGED <<session, deleting, loop, batch>> /\ job' = [job EXCEPT ![m] = j]
    BY <2>0 DEF GoTo, intakeVars, adminVars
  <2>j. /\ j \in Job /\ j # "open" /\ j \notin {"bounce", "report"}
        /\ m \in Kept => /\ outcome[m] # "temporary"
                         /\ j \in {"mark", "narrow"} => outcome[m] = "parts"
                         /\ j = "unlink" => Over(m)
    BY <1>a, <2>0
  \* the report is in the queue: a row of its own, with its body
  <2>1. ASSUME NEW s \in Rcpt, Enqueue(b, home[m], {s}), UNCHANGED spool PROVE MailInv'
    <3>q. RowBecomes(b, "queued", {s}) /\ rcpts' = [rcpts EXCEPT ![b] = {s}]
      <4>1. home[m] \in Domain /\ {s} \in SUBSET Rcpt
        BY <1>t DEF Typed, StoreTypeOK
      <4> QED
        BY <1>t, <2>1, <2>b, <4>1, StatementsOnOneRow DEF Typed, Enqueue
    <3>r. \A n \in Msg : rcpts'[n] = IF n = b THEN {s} ELSE rcpts[n]
      BY <1>t, <3>q DEF Typed, StoreTypeOK
    <3>1. DsnInv'
      <4>1. \A n \in Msg : dsn[n] \subseteq Msg
        BY <1>t DEF Typed, Msg
      <4> QED
        BY <1>i, <2>1, <2>b, <2>d, <3>r, <4>1 DEF DsnInv, Known
    <3>2. LoopInv'
      BY <1>i, <1>t, <2>0, <2>v, WorkerMoves
    <3>g. /\ \A n \in Msg \ {m} : job'[n] = job[n] /\ outcome'[n] = outcome[n]
                                  /\ held'[n] = held[n] /\ parts'[n] = parts[n]
          /\ job'[m] = j
          /\ j = "none" => outcome'[m] = "none"
          /\ j # "none" => outcome'[m] = outcome[m] /\ parts'[m] = parts[m] /\ held'[m] = held[m]
      BY <1>t, <2>0 DEF GoTo, Typed
    <3>3. \A n \in Msg \ {m, b} : Same(n)
      BY <2>0, <2>1, <2>v, <3>q, <3>r, <3>g DEF Same, RowBecomes
    <3>4. IdInv(b)' /\ RowInv(b)' /\ JobInv(b)'
      <4>0. /\ Known(b)' /\ queue'[b].status = "queued" /\ queue'[b].to = {s} /\ b \in spool'
            /\ job'[b] = "none" /\ b \notin batch' /\ b \notin writtenOff'
            /\ Covers(b, {s})'
        BY <2>0, <2>1, <2>b, <2>m, <2>v, <3>q, <3>r, <3>g DEF Known, RowBecomes, Covers
      <4>1. IdInv(b)'
        BY <2>b, <2>m, <2>v, <4>0 DEF IdInv
      <4>2. RowInv(b)'
        BY <4>0 DEF RowInv, Pending, Covers
      <4>3. outcome'[b] = "none"
        BY <2>b, <2>m, <3>g DEF MailInv, JobInv, Kept
      <4>4. JobInv(b)'
        BY <4>0, <4>3 DEF JobInv
      <4> QED
        BY <4>1, <4>2, <4>4
    <3>5. IdInv(m)'
      <4>1. Known(m) /\ rcpts'[m] = rcpts[m]
        BY <1>i, <2>0, <2>m, <3>r DEF IdInv
      <4> QED
        BY <1>i, <2>0, <2>1, <2>v, <4>1 DEF IdInv, Known
    <3>6. ASSUME m \in Kept PROVE RowInv(m)' /\ JobInv(m)'
      <4>1. rcpts'[m] = rcpts[m] /\ queue'[m] = queue[m] /\ m \notin batch'
        BY <1>i, <2>0, <2>m, <2>v, <3>q, <3>r DEF RowBecomes, LoopInv, Working
      <4>2. RowInv(m)'
        BY <1>i, <2>0, <2>1, <3>6, <4>1 DEF RowInv, Over, Covers
      <4>3. /\ outcome[m] = "parts" => Covers(m, parts[m].def)
            /\ outcome[m] \in {"permanent", "lost", "expired"} => Over(m)
        BY <1>i, <3>6 DEF JobInv
      <4>4. CASE j = "none"
        BY <3>g, <4>1, <4>2, <4>4 DEF JobInv
      <4>5. CASE j # "none"
        <5>1. /\ outcome'[m] = "parts" => Covers(m, parts[m].def)'
              /\ outcome'[m] \in {"permanent", "lost", "expired"} => Over(m)'
              /\ Over(m) => Over(m)'
          BY <2>0, <3>g, <4>1, <4>3, <4>5 DEF Over, Covers
        <5> HIDE DEF j
        <5> QED
          BY <2>j, <3>6, <3>g, <4>1, <4>2, <4>5, <5>1 DEF JobInv
      <4> QED
        BY <4>2, <4>4, <4>5
    <3>7. \A n \in Msg : IdInv(n)' /\ (n \in Kept => RowInv(n)' /\ JobInv(n)')
      BY <3>3, <3>4, <3>5, <3>6, SameStays
    <3>8. Kept \subseteq Msg
      BY DEF Kept, Msg
    <3> QED
      BY <3>1, <3>2, <3>7, <3>8 DEF MailInv
  \* it is not, and its body goes
  <2>2. CASE spool' = spool \ {b} /\ UNCHANGED <<queue, rcpts>>
    <3>1. DsnInv'
      BY <1>i, <2>2, <2>b, <2>d DEF DsnInv, Known
    <3>2. LoopInv'
      BY <1>i, <1>t, <2>0, <2>v, WorkerMoves
    <3>g. /\ \A n \in Msg \ {m} : job'[n] = job[n] /\ outcome'[n] = outcome[n]
                                  /\ held'[n] = held[n] /\ parts'[n] = parts[n]
          /\ job'[m] = j
          /\ j = "none" => outcome'[m] = "none"
          /\ j # "none" => outcome'[m] = outcome[m] /\ parts'[m] = parts[m] /\ held'[m] = held[m]
      BY <1>t, <2>0 DEF GoTo, Typed
    <3>3. \A n \in Msg \ {m, b} : Same(n)
      BY <2>0, <2>2, <2>v, <3>g DEF Same
    <3>4. IdInv(b)' /\ RowInv(b)' /\ JobInv(b)'
      <4>1. IdInv(b)'
        BY <2>0, <2>2, <2>b, <2>m, <2>v, <3>g DEF IdInv, Known, Stored
      <4>2. RowInv(b)'
        BY <2>2, <2>b DEF RowInv, Over, Covers, Known
      <4>3. outcome'[b] = "none" /\ job'[b] = "none" /\ b \notin batch'
        BY <2>b, <2>m, <2>v, <3>g DEF MailInv, JobInv, Kept
      <4>4. JobInv(b)'
        BY <4>3 DEF JobInv
      <4> QED
        BY <4>1, <4>2, <4>4
    <3>5. IdInv(m)'
      BY <1>i, <2>0, <2>2, <2>v, <2>m DEF IdInv, Known, Stored
    <3>6. ASSUME m \in Kept PROVE RowInv(m)' /\ JobInv(m)'
      <4>1. rcpts'[m] = rcpts[m] /\ queue'[m] = queue[m] /\ m \notin batch'
        BY <1>i, <2>0, <2>2, <2>v DEF LoopInv, Working
      <4>2. RowInv(m)'
        BY <1>i, <2>0, <2>2, <2>m, <3>6, <4>1 DEF RowInv, Over, Covers
      <4>3. /\ outcome[m] = "parts" => Covers(m, parts[m].def)
            /\ outcome[m] \in {"permanent", "lost", "expired"} => Over(m)
        BY <1>i, <3>6 DEF JobInv
      <4>4. CASE j = "none"
        BY <3>g, <4>1, <4>2, <4>4 DEF JobInv
      <4>5. CASE j # "none"
        <5>1. /\ outcome'[m] = "parts" => Covers(m, parts[m].def)'
              /\ outcome'[m] \in {"permanent", "lost", "expired"} => Over(m)'
              /\ Over(m) => Over(m)'
          BY <2>0, <3>g, <4>1, <4>3, <4>5 DEF Over, Covers
        <5> HIDE DEF j
        <5> QED
          BY <2>j, <3>6, <3>g, <4>1, <4>2, <4>5, <5>1 DEF JobInv
      <4> QED
        BY <4>2, <4>4, <4>5
    <3>7. \A n \in Msg : IdInv(n)' /\ (n \in Kept => RowInv(n)' /\ JobInv(n)')
      BY <3>3, <3>4, <3>5, <3>6, SameStays
    <3>8. Kept \subseteq Msg
      BY DEF Kept, Msg
    <3> QED
      BY <3>1, <3>2, <3>7, <3>8 DEF MailInv
  <2> QED
    BY <2>1, <2>2
<1> QED
  BY <1>1, <1>2, <1>3, <1>4, <1>5, <1>6, <1>7 DEF Wrapup

\* Every step of internal/sender keeps MailInv
LEMMA SenderKeepsMail == TypeOK /\ MailInv /\ SenderNext => MailInv'
<1> SUFFICES ASSUME TypeOK, MailInv, SenderNext PROVE MailInv'
  OBVIOUS
<1>u. UNCHANGED <<intakeVars, adminVars>> /\ SenderStep
  BY DEF SenderNext
<1>t. Typed
  BY TypedState
<1>1. ASSUME NEW m \in Msg, Abandon(m) PROVE MailInv'
  <2>0. /\ batch' = batch \ {m} /\ loop = "work"
        /\ UNCHANGED <<session, deleting, queue, spool, rcpts, writtenOff, loop, job, outcome,
                       held, parts, dsn, reached, refused>>
    BY <1>1, <1>u DEF Abandon, storeVars, intakeVars, adminVars
  <2>1. DsnInv' /\ LoopInv'
    BY <2>0 DEF MailInv, DsnInv, Known, LoopInv, Working
  <2>2. \A n \in Msg : IdInv(n)'
    BY <2>0 DEF MailInv, IdInv, Known, Stored
  <2>3. \A n \in Kept : RowInv(n)' /\ JobInv(n)'
    BY <2>0 DEF MailInv, RowInv, JobInv, Over, Covers
  <2> QED
    BY <2>1, <2>2, <2>3 DEF MailInv
<1>2. ASSUME NEW m \in Msg, ExpireOne(m) PROVE MailInv'
  <2> DEFINE j == job'[m]
  <2>0. /\ loop = "expire" /\ m \in batch /\ batch' = batch \ {m} /\ Working = {}
        /\ outcome' = [outcome EXCEPT ![m] = "expired"]
        /\ parts' = [parts EXCEPT ![m] = NoParts]
        /\ UNCHANGED <<session, deleting, queue, spool, rcpts, writtenOff, loop, dsn, reached,
                       refused>>
    BY <1>2, <1>u DEF ExpireOne, intakeVars, adminVars
  <2>j. /\ j \in {"bounce", "unlink"} /\ job' = [job EXCEPT ![m] = j]
        /\ \A n \in Msg \ {m} : held'[n] = held[n]
    <3>1. ToBounce(m, "expired", NoParts) \in {"bounce", "unlink"}
      BY DEF ToBounce, AfterBounce
    <3> HIDE DEF ToBounce
    <3> QED
      BY <1>2, <1>t, <3>1 DEF ExpireOne, Typed
  <2> HIDE DEF j
  <2>1. DsnInv'
    BY <2>0 DEF MailInv, DsnInv, Known
  <2>2. LoopInv'
    <3>1. Working' = {m}
      BY <1>t, <2>0, <2>j DEF Working, Typed
    <3> QED
      BY <2>0, <3>1 DEF LoopInv
  <2>3. \A n \in Msg \ {m} : Same(n)
    BY <1>t, <2>0, <2>j DEF Same, Typed
  <2>4. IdInv(m)'
    BY <2>0 DEF MailInv, IdInv, Known, Stored
  <2>5. ASSUME m \in Kept PROVE RowInv(m)' /\ JobInv(m)'
    <3>1. m \in writtenOff
      BY <2>0, <2>5 DEF MailInv, JobInv
    <3>2. /\ Over(m)' /\ m \notin batch' /\ outcome'[m] = "expired"
          /\ job'[m] \in {"bounce", "unlink"}
      BY <1>t, <2>0, <2>j, <3>1 DEF Over, Covers, Typed
    <3> QED
      BY <3>2 DEF RowInv, JobInv
  <2>6. \A n \in Msg : IdInv(n)' /\ (n \in Kept => RowInv(n)' /\ JobInv(n)')
    BY <2>3, <2>4, <2>5, SameStays
  <2>7. Kept \subseteq Msg
    BY DEF Kept, Msg
  <2> QED
    BY <2>1, <2>2, <2>6, <2>7 DEF MailInv
<1> QED
  BY <1>u, <1>1, <1>2, LoopKeepsMail, WorkerAlone, WrapupKeepsMail DEF SenderStep

\* MailInv holds of an empty spool
LEMMA InitKeepsMail == Init => MailInv
<1> SUFFICES ASSUME Init PROVE MailInv
  OBVIOUS
<1>1. DsnInv /\ LoopInv
  BY DEF Init, SenderInit, StoreInit, DsnInv, LoopInv, Working
<1>2. \A m \in Msg : IdInv(m)
  BY DEF Init, StoreInit, IntakeInit, SenderInit, AdminInit, IdInv, Known, Stored, NoRow
<1>3. \A m \in Kept : RowInv(m) /\ JobInv(m)
  BY DEF Init, StoreInit, SenderInit, RowInv, JobInv, Over, Covers, Kept, Msg
<1> QED
  BY <1>1, <1>2, <1>3 DEF MailInv

\* MailInv is inductive: what a row, a worker, a handler and the spool owe the
\* recipients of a received message or of a bounce is never dropped between them.
THEOREM MailInvariant == Spec => []MailInv
<1>1. TypeOK /\ MailInv /\ [Next]_vars => MailInv'
  <2> SUFFICES ASSUME TypeOK, MailInv, [Next]_vars PROVE MailInv'
    OBVIOUS
  <2>1. CASE Next
    BY <2>1, IntakeKeepsMail, SenderKeepsMail, AdminKeepsMail, StopKeepsMail, EnvKeepsMail
    DEF Next
  <2>2. CASE UNCHANGED vars
    <3>1. UNCHANGED <<session, deleting, queue, spool, rcpts, writtenOff, loop, batch, job,
                      outcome, held, parts, dsn, reached, refused>>
      BY <2>2 DEF vars, storeVars, intakeVars, senderVars, adminVars
    <3> QED
      BY <3>1 DEF MailInv, DsnInv, LoopInv, Working, IdInv, RowInv, JobInv, Over, Covers,
                  Known, Stored
  <2> QED
    BY <2>1, <2>2
<1> QED
  BY InitKeepsMail, TypeCorrect, <1>1, PTL DEF Spec

\* "No email is lost": in every behaviour of the queue, the delivery loop, the
\* administrators and the crashes between their statements, each recipient of a
\* message inserted in the queue has it, was refused for good, is still asked for
\* by a pending row whose body is in the spool, or was written off in the open.
THEOREM MailKept == Spec => []NoMailLost
<1>1. TypeOK /\ MailInv => NoMailLost
  <2> SUFFICES ASSUME TypeOK, MailInv, NEW m \in Kept, NEW r \in rcpts[m]
               PROVE  Accounted(m, r)
    BY DEF NoMailLost, Kept
  <2>1. RowInv(m)
    BY DEF MailInv
  <2> QED
    BY <2>1 DEF RowInv, Over, Covers, Accounted
<1> QED
  BY TypeCorrect, MailInvariant, <1>1, PTL

-----------------------------------------------------------------------------
(* A message stays on its path: PathInv of Spool, move by move.            *)
(*                                                                         *)
(* A step of the mail path looks simple from a single message: a           *)
(* statement, a worker or a handler moves one message (or, for a bounce,   *)
(* the message and its report), a statement on many rows moves each of     *)
(* them alike, and every other message is left as it was.  First comes the *)
(* list of moves and StepShape, which says that there are no others; then  *)
(* that each of them keeps the seven parts of OnPath.  PathInv is          *)
(* inductive then, and the properties of Spool about copies, bounces,      *)
(* bodies and settled rows follow from it, as does the refinement of       *)
(* MailService.                                                            *)

-----------------------------------------------------------------------------
(* What a move leaves alone.                                               *)

\* The row of n has this status and these recipients, and is held as before
RowIs(n, s, R) == /\ queue'[n].status = s /\ queue'[n].to = R
                  /\ queue'[n].quarantined = queue[n].quarantined
RowStays(n) == RowIs(n, queue[n].status, queue[n].to)
RowGone(n)  == queue'[n].status = "absent" /\ queue'[n].to = {} /\ ~queue'[n].quarantined

OriginStays(n) == /\ rcpts'[n] = rcpts[n] /\ home'[n] = home[n]
                  /\ domain'[home[n]].exists => domain[home[n]].exists
BodyStays(n) == n \in spool' <=> n \in spool
FateStays(n) == n \in writtenOff' <=> n \in writtenOff
StoreStays(n) == RowStays(n) /\ OriginStays(n) /\ BodyStays(n) /\ FateStays(n)

\* n is the bounce somebody is about to queue
Bound(n) == \E m \in Msg : n \in dsn[m]

SessionStays(n) == session'[n] = session[n] /\ (n \in hold' <=> n \in hold)
DeleteStays(n)  == deleting'[n] = deleting[n]
BoundStays(n)   == Bound(n)' <=> Bound(n)
HandsStay(n)    == SessionStays(n) /\ DeleteStays(n) /\ BoundStays(n)

\* Where the work on n is: what was claimed and not begun with, and the locals
ClaimStays(n) == (Claimed(n)' <=> Claimed(n)) /\ (Lapsed(n)' <=> Lapsed(n))
Unclaimed(n)  == ~Claimed(n) /\ ~Lapsed(n)
WorkIs(n, j, o, h, p) == job'[n] = j /\ outcome'[n] = o /\ held'[n] = h /\ parts'[n] = p
WorkStays(n) == WorkIs(n, job[n], outcome[n], held[n], parts[n])
WorkGoes(n, j) == IF j = "none" THEN WorkIs(n, "none", "none", {}, NoParts)
                                ELSE WorkIs(n, j, outcome[n], held[n], parts[n])
WorkerStays(n) == ClaimStays(n) /\ WorkStays(n)

AnswersStay(n) == reached'[n] = reached[n] /\ twice'[n] = twice[n] /\ refused'[n] = refused[n]
ToldStays(n)   == told'[n] = told[n]
ShakenStays(n) == n \in shaken' <=> n \in shaken
TaleStays(n)   == AnswersStay(n) /\ ToldStays(n) /\ ShakenStays(n)

Still(n) == StoreStays(n) /\ HandsStay(n) /\ WorkerStays(n) /\ TaleStays(n)

-----------------------------------------------------------------------------
(* The moves of the listeners and of the administrators.                   *)

Spools(n) ==
  /\ n \in InMsg \cup OutMsg /\ session[n] = "none" /\ session'[n] = "spooled"
  /\ n \in spool' /\ (n \in hold' <=> n \in hold)
  /\ RowStays(n) /\ OriginStays(n) /\ FateStays(n) /\ DeleteStays(n) /\ BoundStays(n)
  /\ WorkerStays(n) /\ TaleStays(n)

Refuses(n) ==
  /\ session[n] = "spooled" /\ session'[n] = "refused"
  /\ n \notin spool' /\ (n \in hold' <=> n \in hold)
  /\ RowStays(n) /\ OriginStays(n) /\ FateStays(n) /\ DeleteStays(n) /\ BoundStays(n)
  /\ WorkerStays(n) /\ TaleStays(n)

Accepts(n) ==
  /\ session[n] = "spooled" /\ session'[n] \in {"queued", "accepted"}
  /\ session'[n] = "queued" => n \in hold'
  /\ n \in hold => n \in hold'
  /\ queue'[n].status = "queued" /\ ~queue'[n].quarantined
  /\ queue'[n].to = rcpts'[n] /\ rcpts'[n] # {} /\ rcpts'[n] \subseteq Rcpt
  /\ BodyStays(n) /\ FateStays(n) /\ DeleteStays(n) /\ BoundStays(n)
  /\ WorkerStays(n) /\ TaleStays(n)

IsHeld(n) ==
  /\ session[n] = "queued" /\ session'[n] = "accepted" /\ (n \in hold' <=> n \in hold)
  /\ queue'[n].status = queue[n].status /\ queue'[n].to = queue[n].to
  /\ OriginStays(n) /\ BodyStays(n) /\ FateStays(n) /\ DeleteStays(n) /\ BoundStays(n)
  /\ WorkerStays(n) /\ TaleStays(n)

AsAdministrator(n) ==
  /\ OriginStays(n) /\ SessionStays(n) /\ BoundStays(n) /\ WorkerStays(n) /\ TaleStays(n)

Retried(n) ==
  /\ RetryMessage(n) /\ queue[n].status \in {"queued", "failed", "expired"}
  /\ RowIs(n, "queued", queue[n].to)
  /\ BodyStays(n) /\ FateStays(n) /\ DeleteStays(n) /\ AsAdministrator(n)

Released(n) ==
  /\ ReleaseMessage(n) /\ Stored(n) /\ queue[n].quarantined
  /\ queue'[n].status = "queued" /\ queue'[n].to = queue[n].to /\ ~queue'[n].quarantined
  /\ BodyStays(n) /\ FateStays(n) /\ DeleteStays(n) /\ AsAdministrator(n)

DeleteGoes(n) ==
  /\ deleting[n] # "body" /\ deleting'[n] # "body"
  /\ RowStays(n) /\ BodyStays(n) /\ FateStays(n) /\ AsAdministrator(n)

RowDeleted(n) ==
  /\ Stored(n) /\ deleting'[n] = "body" /\ n \in writtenOff'
  /\ RowGone(n) /\ BodyStays(n) /\ AsAdministrator(n)

BodyDeleted(n) ==
  /\ deleting[n] = "body" /\ deleting'[n] = "no" /\ n \notin spool'
  /\ RowStays(n) /\ FateStays(n) /\ AsAdministrator(n)

BodyDropped(n) ==
  /\ Stored(n) /\ n \notin spool' /\ n \in writtenOff'
  /\ RowStays(n) /\ DeleteStays(n) /\ AsAdministrator(n)

RowDropped(n) ==
  /\ Stored(n) /\ RowGone(n) /\ n \in writtenOff' /\ ~domain'[home[n]].exists
  /\ BodyStays(n) /\ DeleteStays(n) /\ AsAdministrator(n)

-----------------------------------------------------------------------------
(* The moves of Run, pass and maintain.                                    *)

Claims(n) ==
  /\ queue[n].status = "queued" /\ ~queue[n].quarantined /\ RowIs(n, "delivering", queue[n].to)
  /\ job[n] = "none" /\ Claimed(n)' /\ ~Lapsed(n)'
  /\ WorkIs(n, "none", outcome[n], queue[n].to, parts[n])
  /\ OriginStays(n) /\ BodyStays(n) /\ FateStays(n) /\ HandsStay(n) /\ TaleStays(n)

\* n is with no worker and is not going to be with one
Idles(n) == job[n] = "none" /\ Unclaimed(n) /\ WorkerStays(n)

GivenBack(n) ==
  /\ queue[n].status = "delivering" /\ RowIs(n, "queued", queue[n].to) /\ Idles(n)
  /\ OriginStays(n) /\ BodyStays(n) /\ FateStays(n) /\ HandsStay(n) /\ TaleStays(n)

Purged(n) ==
  /\ queue[n].status \in Settled /\ RowGone(n) /\ Idles(n)
  /\ OriginStays(n) /\ BodyStays(n) /\ FateStays(n) /\ HandsStay(n) /\ TaleStays(n)

Expires(n) ==
  /\ queue[n].status = "queued" /\ ~queue[n].quarantined /\ RowIs(n, "expired", queue[n].to)
  /\ n \in writtenOff'
  /\ job[n] = "none" /\ Unclaimed(n) /\ WorkStays(n) /\ Lapsed(n)' /\ ~Claimed(n)'
  /\ OriginStays(n) /\ BodyStays(n) /\ HandsStay(n) /\ TaleStays(n)

ExpiryTaken(n) ==
  /\ Lapsed(n) /\ job[n] = "none" /\ Unclaimed(n)'
  /\ \/ /\ Stored(n) /\ ShakenStays(n)
        /\ WorkIs(n, ToBounce(n, "expired", NoParts), "expired", queue[n].to, NoParts)
     \/ n \in shaken' /\ WorkIs(n, "unlink", "expired", held[n], NoParts)
  /\ StoreStays(n) /\ HandsStay(n) /\ AnswersStay(n) /\ ToldStays(n)

Abandoned(n) ==
  /\ Claimed(n) /\ Unclaimed(n)' /\ n \in shaken'
  /\ StoreStays(n) /\ HandsStay(n) /\ WorkStays(n) /\ AnswersStay(n) /\ ToldStays(n)

\* The process ends
Stops(n) ==
  /\ WorkIs(n, "none", "none", {}, NoParts) /\ Unclaimed(n)' /\ ~Bound(n)'
  /\ session'[n] \notin {"spooled", "queued"} /\ (n \in hold' <=> n \in hold)
  /\ session[n] \notin {"spooled", "queued"} => session'[n] = session[n]
  /\ deleting'[n] = "no"
  /\ n \in shaken \/ Busy(n) => n \in shaken'
  /\ StoreStays(n) /\ AnswersStay(n) /\ ToldStays(n)

-----------------------------------------------------------------------------
(* The moves of a worker.                                                  *)

AtWork(n) == StoreStays(n) /\ HandsStay(n) /\ ToldStays(n)

Begun(n) ==
  /\ Claimed(n) /\ job[n] = "none" /\ Unclaimed(n)' /\ AtWork(n) /\ TaleStays(n)
  /\ \/ WorkIs(n, "mark", "temporary", held[n], NoParts)
     \/ n \in spool /\ WorkIs(n, "open", "none", held[n], NoParts)
     \/ n \notin spool /\ WorkIs(n, "mark", "lost", held[n], NoParts)

\* Recipients in T were served by this attempt, those in N refused, and the
\* servers of those in G had taken the message although it counts as deferred
Answers(n, T, N, G) ==
  /\ T \cup N \cup G \subseteq held[n]
  /\ reached'[n] = reached[n] \cup T \cup G
  /\ twice'[n] = twice[n] \cup ((T \cup G) \cap reached[n])
  /\ refused'[n] = refused[n] \cup N
  /\ IF G = {} THEN ShakenStays(n) ELSE n \in shaken'

Failed(n) ==
  /\ job[n] = "open" /\ AtWork(n) /\ ClaimStays(n)
  /\ \E G \in SUBSET Rcpt : Answers(n, {}, {}, G)
  /\ WorkIs(n, "mark", "temporary", held[n], NoParts)

TurnedDown(n) ==
  /\ job[n] = "open" /\ AtWork(n) /\ ClaimStays(n)
  /\ Answers(n, {}, held[n], {})
  /\ WorkIs(n, "mark", "permanent", held[n], NoParts)

SettledIn(n, A, D, R, G) ==
  /\ A \cup D \cup R \subseteq held[n] /\ G \subseteq D
  /\ A \cap (D \cup R) = {} /\ D \cap R = {}
  /\ Answers(n, A, R, G)
  /\ LET p == [acc |-> A, def |-> D, rej |-> R]
     IN  WorkIs(n, IF R # {} THEN ToBounce(n, "parts", p) ELSE AfterBounce(n, "parts", p),
                "parts", held[n], p)

Parted(n) ==
  /\ job[n] = "open" /\ AtWork(n) /\ ClaimStays(n)
  /\ \E A, D, R, G \in SUBSET Rcpt : SettledIn(n, A, D, R, G)

\* A worker that wrote to the row, or took it for written
AtRow(n) == /\ OriginStays(n) /\ BodyStays(n) /\ FateStays(n) /\ HandsStay(n)
            /\ ClaimStays(n) /\ AnswersStay(n) /\ ToldStays(n)

Narrowed(n) ==
  /\ job[n] = "narrow" /\ AtRow(n) /\ WorkGoes(n, "mark")
  /\ \/ Stored(n) /\ RowIs(n, queue[n].status, parts[n].def) /\ ShakenStays(n)
     \/ RowStays(n) /\ n \in shaken'

Rescheduled(n) ==
  /\ job[n] = "mark" /\ Deferred(n) /\ AtRow(n) /\ WorkGoes(n, "none")
  /\ \/ Stored(n) /\ RowIs(n, "queued", queue[n].to) /\ ShakenStays(n)
     \/ RowStays(n) /\ n \in shaken'

Completed(n) ==
  /\ job[n] = "mark" /\ Done(n) /\ AtRow(n)
  /\ \/ /\ Stored(n) /\ RowIs(n, "delivered", queue[n].to) /\ ShakenStays(n)
        /\ WorkGoes(n, "unlink")
     \/ RowStays(n) /\ n \in shaken' /\ WorkGoes(n, "none")

GivenUp(n) ==
  /\ job[n] = "mark" /\ ~Deferred(n) /\ ~Done(n) /\ AtRow(n)
  /\ WorkGoes(n, IF outcome[n] = "parts" THEN "unlink" ELSE ToBounce(n, outcome[n], parts[n]))
  /\ \/ Stored(n) /\ RowIs(n, "failed", queue[n].to) /\ ShakenStays(n)
     \/ RowStays(n) /\ n \in shaken'

Unlinked(n) ==
  /\ job[n] = "unlink" /\ n \notin spool' /\ WorkGoes(n, "none")
  /\ RowStays(n) /\ OriginStays(n) /\ FateStays(n) /\ HandsStay(n)
  /\ ClaimStays(n) /\ TaleStays(n)

\* The report is written to the spool, cannot be written or queued, is queued
Reporting(n) ==
  /\ job[n] = "bounce" /\ WorkGoes(n, "report")
  /\ StoreStays(n) /\ HandsStay(n) /\ ClaimStays(n) /\ TaleStays(n)

Unreported(n) ==
  /\ job[n] \in {"bounce", "report"} /\ n \in shaken'
  /\ WorkGoes(n, AfterBounce(n, outcome[n], parts[n]))
  /\ StoreStays(n) /\ HandsStay(n) /\ ClaimStays(n) /\ AnswersStay(n) /\ ToldStays(n)

Reported(n) ==
  /\ job[n] = "report" /\ told'[n] = told[n] \cup Failures(n)
  /\ WorkGoes(n, AfterBounce(n, outcome[n], parts[n]))
  /\ StoreStays(n) /\ HandsStay(n) /\ ClaimStays(n) /\ AnswersStay(n) /\ ShakenStays(n)

\* The report itself: an id nobody used before
ReportStays(b) == /\ ~Known(b) /\ b \in DsnMsg /\ job[b] = "none" /\ Unclaimed(b)
                  /\ FateStays(b) /\ SessionStays(b) /\ DeleteStays(b) /\ WorkerStays(b)
                  /\ TaleStays(b)

ReportSpooled(b) ==
  /\ b \in spool' /\ Bound(b)' /\ RowStays(b) /\ OriginStays(b) /\ ReportStays(b)

ReportQueued(b) ==
  /\ b \in spool /\ b \in spool' /\ ~Bound(b)'
  /\ queue'[b].status = "queued" /\ ~queue'[b].quarantined
  /\ queue'[b].to = rcpts'[b] /\ rcpts'[b] # {} /\ rcpts'[b] \subseteq Rcpt
  /\ ReportStays(b)

ReportDropped(b) ==
  /\ b \notin spool' /\ ~Bound(b)' /\ RowStays(b) /\ OriginStays(b) /\ ReportStays(b)

-----------------------------------------------------------------------------
(* Frames.                                                                 *)

\* A row that is not written stays
LEMMA RowKept == \A n \in Msg : queue'[n] = queue[n] => RowStays(n)
BY DEF RowStays, RowIs

\* The delivery loop at rest: nothing of its work or history moves
LEMMA SenderRests ==
  ASSUME UNCHANGED senderVars
  PROVE  \A n \in Msg : WorkerStays(n) /\ TaleStays(n) /\ BoundStays(n)
BY DEF senderVars, WorkerStays, ClaimStays, Claimed, Lapsed, WorkStays, WorkIs, TaleStays,
       AnswersStay, ToldStays, ShakenStays, BoundStays, Bound

\* The listeners and the handlers at rest
LEMMA DeskRests ==
  ASSUME UNCHANGED <<intakeVars, adminVars>>
  PROVE  \A n \in Msg : SessionStays(n) /\ DeleteStays(n)
BY DEF intakeVars, adminVars, SessionStays, DeleteStays

\* The tables and the spool at rest
LEMMA StoreRests ==
  ASSUME UNCHANGED <<queue, spool, domain, home, rcpts, writtenOff>>
  PROVE  \A n \in Msg : StoreStays(n)
BY DEF StoreStays, RowStays, RowIs, OriginStays, BodyStays, FateStays

\* The quarantine column: only Quarantine sets it, only Release clears it
LEMMA HoldColumn ==
  ASSUME StoreTypeOK, NEW m \in Msg
  PROVE  /\ \A d \in Domain, R \in SUBSET Rcpt : Enqueue(m, d, R) => ~queue'[m].quarantined
         /\ MarkDelivered(m) \/ MarkFailed(m) \/ Reschedule(m) \/ RetryNow(m)
              => queue'[m].quarantined = queue[m].quarantined
         /\ \A R \in SUBSET Rcpt :
              SetRecipients(m, R) => queue'[m].quarantined = queue[m].quarantined
         /\ Release(m) => ~queue'[m].quarantined
         /\ DeleteMessage(m) => ~queue'[m].quarantined
<1>q. queue \in [Msg -> Row] /\ queue[m] \in Row
  BY DEF StoreTypeOK
<1>1. ASSUME NEW d \in Domain, NEW R \in SUBSET Rcpt, Enqueue(m, d, R)
      PROVE  ~queue'[m].quarantined
  BY <1>1, <1>q DEF Enqueue
<1>2. MarkDelivered(m) => queue'[m].quarantined = queue[m].quarantined
  BY <1>q DEF MarkDelivered, Row
<1>3. MarkFailed(m) => queue'[m].quarantined = queue[m].quarantined
  BY <1>q DEF MarkFailed, Row
<1>4. Reschedule(m) => queue'[m].quarantined = queue[m].quarantined
  BY <1>q DEF Reschedule, Row
<1>5. RetryNow(m) => queue'[m].quarantined = queue[m].quarantined
  BY <1>q DEF RetryNow, Row
<1>6. ASSUME NEW R \in SUBSET Rcpt, SetRecipients(m, R)
      PROVE  queue'[m].quarantined = queue[m].quarantined
  BY <1>6, <1>q DEF SetRecipients, Row
<1>7. Release(m) => ~queue'[m].quarantined
  BY <1>q DEF Release, Row
<1>8. DeleteMessage(m) => ~queue'[m].quarantined
  BY <1>q DEF DeleteMessage, NoRow
<1> QED
  BY <1>1, <1>2, <1>3, <1>4, <1>5, <1>6, <1>7, <1>8

\* The statements on many rows, row by row
LEMMA ManyRows ==
  ASSUME StoreTypeOK, NEW S \in SUBSET Msg, NEW n \in Msg
  PROVE  /\ Claim(S) => IF n \in S THEN RowIs(n, "delivering", queue[n].to) ELSE RowStays(n)
         /\ ReleaseOrphanedClaims(S) =>
              IF n \in S THEN RowIs(n, "queued", queue[n].to) ELSE RowStays(n)
         /\ PurgeDelivered(S) => IF n \in S THEN RowGone(n) ELSE RowStays(n)
         /\ ExpireOverdue =>
              IF n \in Overdue THEN RowIs(n, "expired", queue[n].to) ELSE RowStays(n)
         /\ \A d \in Domain :
              DeleteDomain(d) => IF n \in RowsOf(d) THEN RowGone(n) ELSE RowStays(n)
<1>q. queue[n] \in Row
  BY DEF StoreTypeOK
<1>s. ASSUME NEW s \in Pending \cup Settled, queue'[n] = [queue[n] EXCEPT !.status = s]
      PROVE  RowIs(n, s, queue[n].to)
  BY <1>q, <1>s DEF Row, RowIs
<1>k. queue'[n] = queue[n] => RowStays(n)
  BY RowKept
<1>n. NoRow.status = "absent" /\ NoRow.to = {} /\ ~NoRow.quarantined
  BY DEF NoRow
<1>1. Claim(S) => IF n \in S THEN RowIs(n, "delivering", queue[n].to) ELSE RowStays(n)
  <2>1. Claim(S) =>
          queue'[n] = IF n \in S THEN [queue[n] EXCEPT !.status = "delivering"] ELSE queue[n]
    BY DEF Claim
  <2>2. "delivering" \in Pending \cup Settled
    BY DEF Pending
  <2> QED
    BY <1>s, <1>k, <2>1, <2>2
<1>2. ReleaseOrphanedClaims(S) => IF n \in S THEN RowIs(n, "queued", queue[n].to) ELSE RowStays(n)
  <2>1. ReleaseOrphanedClaims(S) =>
          queue'[n] = IF n \in S THEN [queue[n] EXCEPT !.status = "queued"] ELSE queue[n]
    BY DEF ReleaseOrphanedClaims
  <2>2. "queued" \in Pending \cup Settled
    BY DEF Pending
  <2> QED
    BY <1>s, <1>k, <2>1, <2>2
<1>3. PurgeDelivered(S) => IF n \in S THEN RowGone(n) ELSE RowStays(n)
  BY <1>n, <1>k DEF PurgeDelivered, RowGone
<1>4. ExpireOverdue => IF n \in Overdue THEN RowIs(n, "expired", queue[n].to) ELSE RowStays(n)
  <2> HIDE DEF Overdue
  <2>1. ExpireOverdue =>
          queue'[n] = IF n \in Overdue THEN [queue[n] EXCEPT !.status = "expired"] ELSE queue[n]
    BY DEF ExpireOverdue
  <2>2. "expired" \in Pending \cup Settled
    BY DEF Settled
  <2> QED
    BY <1>s, <1>k, <2>1, <2>2
<1>5. ASSUME NEW d \in Domain, DeleteDomain(d)
      PROVE  IF n \in RowsOf(d) THEN RowGone(n) ELSE RowStays(n)
  <2> HIDE DEF RowsOf
  <2> QED
    BY <1>5, <1>n, <1>k DEF DeleteDomain, RowGone
<1> QED
  BY <1>1, <1>2, <1>3, <1>4, <1>5

-----------------------------------------------------------------------------

\* Nobody but m moves
Alone(m) == \A n \in Msg \ {m} : Still(n)

\* A listener moves the message of one transaction
LEMMA IntakeMoves ==
  ASSUME TypeOK, IntakeNext
  PROVE  \E m \in Msg : /\ Spools(m) \/ Refuses(m) \/ Accepts(m) \/ IsHeld(m)
                        /\ Alone(m)
<1>t. Typed /\ hold \subseteq InMsg
  BY TypedState DEF TypeOK, IntakeTypeOK
<1>u. UNCHANGED <<senderVars, adminVars>>
  BY DEF IntakeNext
<1>w. \A n \in Msg : WorkerStays(n) /\ TaleStays(n) /\ BoundStays(n) /\ DeleteStays(n)
  BY <1>u, SenderRests DEF DeleteStays, adminVars
<1> PICK m \in Msg :
      \/ SpoolBody(m)
      \/ RefuseBody(m)
      \/ \E d \in Domain, R \in (SUBSET Rcpt) \ {{}}, h \in BOOLEAN : Accept(m, d, R, h)
      \/ HoldMessage(m)
  BY DEF IntakeNext, IntakeStep
<1>1. CASE SpoolBody(m)
  <2>1. Spools(m)
    BY <1>1, <1>t, <1>w DEF SpoolBody, Spools, RowStays, RowIs, OriginStays, FateStays, Typed
  <2>2. Alone(m)
    BY <1>1, <1>t, <1>w DEF SpoolBody, Alone, Still, StoreStays, HandsStay, RowStays, RowIs,
                            OriginStays, BodyStays, FateStays, SessionStays, Typed
  <2> QED
    BY <2>1, <2>2
<1>2. CASE RefuseBody(m)
  <2>1. Refuses(m)
    BY <1>2, <1>t, <1>w DEF RefuseBody, Refuses, RowStays, RowIs, OriginStays, FateStays, Typed
  <2>2. Alone(m)
    BY <1>2, <1>t, <1>w DEF RefuseBody, Alone, Still, StoreStays, HandsStay, RowStays, RowIs,
                            OriginStays, BodyStays, FateStays, SessionStays, Typed
  <2> QED
    BY <2>1, <2>2
<1>3. ASSUME NEW d \in Domain, NEW R \in (SUBSET Rcpt) \ {{}}, NEW h \in BOOLEAN,
             Accept(m, d, R, h)
      PROVE  Accepts(m) /\ Alone(m)
  <2>q. RowBecomes(m, "queued", R) /\ ~queue'[m].quarantined
        /\ rcpts' = [rcpts EXCEPT ![m] = R] /\ home' = [home EXCEPT ![m] = d]
    BY <1>3, <1>t, StatementsOnOneRow, HoldColumn DEF Accept, Typed, Enqueue
  <2>1. Accepts(m)
    BY <1>3, <1>t, <1>w, <2>q DEF Accept, Accepts, BodyStays, FateStays, Typed, StoreTypeOK,
                                  RowBecomes
  <2>2. Alone(m)
    <3> SUFFICES ASSUME NEW n \in Msg \ {m} PROVE Still(n)
      BY DEF Alone
    <3>1. queue'[n] = queue[n] /\ rcpts'[n] = rcpts[n] /\ home'[n] = home[n]
          /\ session'[n] = session[n] /\ (n \in hold' <=> n \in hold)
          /\ UNCHANGED <<spool, domain, writtenOff>>
      BY <1>3, <1>t, <2>q DEF Accept, Typed, StoreTypeOK, RowBecomes
    <3> QED
      BY <1>w, <3>1, RowKept DEF Still, StoreStays, HandsStay, OriginStays, BodyStays, FateStays,
                                 SessionStays
  <2> QED
    BY <2>1, <2>2
<1>4. CASE HoldMessage(m)
  <2>q. RowBecomes(m, queue[m].status, queue[m].to) \/ UNCHANGED queue
    BY <1>4, <1>t, StatementsOnOneRow DEF HoldMessage, Typed
  <2>1. IsHeld(m)
    BY <1>4, <1>t, <1>w, <2>q DEF HoldMessage, IsHeld, OriginStays, BodyStays, FateStays, Typed,
                                  RowBecomes
  <2>2. Alone(m)
    <3> SUFFICES ASSUME NEW n \in Msg \ {m} PROVE Still(n)
      BY DEF Alone
    <3>1. queue'[n] = queue[n] /\ session'[n] = session[n]
          /\ UNCHANGED <<spool, domain, home, rcpts, writtenOff, hold>>
      BY <1>4, <1>t, <2>q DEF HoldMessage, Typed, RowBecomes
    <3> QED
      BY <1>w, <3>1, RowKept DEF Still, StoreStays, HandsStay, OriginStays, BodyStays, FateStays,
                                 SessionStays
  <2> QED
    BY <2>1, <2>2
<1> QED
  BY <1>1, <1>2, <1>3, <1>4

\* No step brings a deleted domain back
LEMMA DomainsGo ==
  ASSUME StoreTypeOK, NEW d \in Domain
  PROVE  /\ DeleteDomain(d) =>
              /\ ~domain'[d].exists
              /\ \A e \in Domain : domain'[e].exists => domain[e].exists
         /\ domain' = [domain EXCEPT ![d].enabled = ~@] =>
              \A e \in Domain : domain'[e].exists => domain[e].exists
         /\ domain' = [domain EXCEPT ![d].up = ~@] =>
              \A e \in Domain : domain'[e].exists => domain[e].exists
<1>1. \A e \in Domain : domain[e] \in DomainRow
  BY DEF StoreTypeOK
<1>2. domain \in [Domain -> DomainRow]
  BY DEF StoreTypeOK
<1>3. DeleteDomain(d) => /\ ~domain'[d].exists
                         /\ \A e \in Domain : domain'[e].exists => domain[e].exists
  BY <1>1, <1>2 DEF DeleteDomain, DomainRow
<1>4. domain' = [domain EXCEPT ![d].enabled = ~@] =>
              \A e \in Domain : domain'[e].exists => domain[e].exists
  BY <1>1, <1>2 DEF DomainRow
<1>5. domain' = [domain EXCEPT ![d].up = ~@] =>
              \A e \in Domain : domain'[e].exists => domain[e].exists
  BY <1>1, <1>2 DEF DomainRow
<1> QED
  BY <1>3, <1>4, <1>5

\* A request of an administrator moves one message, or those of a domain alike
LEMMA AdminMoves ==
  ASSUME TypeOK, AdminNext
  PROVE  \/ \E m \in Msg : /\ \/ Retried(m) \/ Released(m) \/ DeleteGoes(m)
                              \/ RowDeleted(m) \/ BodyDeleted(m)
                           /\ Alone(m)
         \/ \A n \in Msg : Still(n) \/ BodyDropped(n)
         \/ \A n \in Msg : Still(n) \/ RowDropped(n)
<1>t. Typed
  BY TypedState
<1>u. UNCHANGED <<intakeVars, senderVars>> /\ AdminStep
  BY DEF AdminNext
<1>w. \A n \in Msg : WorkerStays(n) /\ TaleStays(n) /\ BoundStays(n) /\ SessionStays(n)
  BY <1>u, SenderRests DEF SessionStays, intakeVars
<1>h. \A n \in Msg : home[n] \in Domain
  BY <1>t DEF Typed, StoreTypeOK
<1>1. ASSUME NEW m \in Msg, RetryMessage(m) \/ ReleaseMessage(m)
      PROVE  (Retried(m) \/ Released(m)) /\ Alone(m)
  <2>u. UNCHANGED <<spool, domain, home, rcpts, writtenOff, deleting>>
    BY <1>1 DEF RetryMessage, ReleaseMessage
  <2>f. \A n \in Msg : OriginStays(n) /\ BodyStays(n) /\ FateStays(n) /\ DeleteStays(n)
    BY <2>u DEF OriginStays, BodyStays, FateStays, DeleteStays
  <2>q. RowBecomes(m, "queued", queue[m].to)
    BY <1>1, <1>t, StatementsOnOneRow DEF RetryMessage, ReleaseMessage, Typed
  <2>a. Alone(m)
    BY <1>w, <2>f, <2>q, RowKept DEF Alone, Still, StoreStays, HandsStay, RowBecomes
  <2>1. CASE RetryMessage(m)
    <3>1. queue[m].status \in {"queued", "failed", "expired"}
          /\ queue'[m].quarantined = queue[m].quarantined
      BY <2>1, <1>t, HoldColumn DEF RetryMessage, RetryNow, Typed
    <3>2. RowIs(m, "queued", queue[m].to)
      BY <2>q, <3>1 DEF RowIs, RowBecomes
    <3> QED
      BY <1>w, <2>a, <2>1, <2>f, <3>1, <3>2 DEF Retried, AsAdministrator
  <2>2. CASE ReleaseMessage(m)
    <3>1. Stored(m) /\ queue[m].quarantined /\ ~queue'[m].quarantined
      BY <2>2, <1>t, HoldColumn DEF ReleaseMessage, Release, Typed
    <3>2. queue'[m].status = "queued" /\ queue'[m].to = queue[m].to
      BY <2>q DEF RowBecomes
    <3> QED
      BY <1>w, <2>a, <2>2, <2>f, <3>1, <3>2 DEF Released, AsAdministrator
  <2> QED
    BY <1>1, <2>1, <2>2
<1>2. ASSUME NEW m \in Msg, DeleteMessageRead(m) PROVE DeleteGoes(m) /\ Alone(m)
  <2>1. UNCHANGED <<queue, spool, domain, home, rcpts, writtenOff>>
        /\ deleting' = [deleting EXCEPT ![m] = "row"] /\ deleting[m] = "no"
    BY <1>2 DEF DeleteMessageRead, storeVars
  <2>2. \A n \in Msg : StoreStays(n)
    BY <2>1, StoreRests
  <2>3. DeleteGoes(m)
    BY <1>t, <1>w, <2>1, <2>2 DEF DeleteGoes, StoreStays, AsAdministrator, Typed
  <2>4. Alone(m)
    BY <1>t, <1>w, <2>1, <2>2 DEF Alone, Still, HandsStay, DeleteStays, Typed
  <2> QED
    BY <2>3, <2>4
<1>3. ASSUME NEW m \in Msg, DeleteMessageRow(m)
      PROVE  (DeleteGoes(m) \/ RowDeleted(m)) /\ Alone(m)
  <2>u. UNCHANGED <<spool, domain, home, rcpts>> /\ deleting[m] = "row"
    BY <1>3 DEF DeleteMessageRow
  <2>1. CASE Stored(m) /\ DeleteMessage(m) /\ deleting' = [deleting EXCEPT ![m] = "body"]
    <3>q. RowBecomes(m, "absent", {}) /\ writtenOff' = writtenOff \cup {m}
          /\ ~queue'[m].quarantined
      BY <2>1, <1>t, StatementsOnOneRow, HoldColumn DEF DeleteMessage, Typed
    <3>1. RowDeleted(m)
      BY <1>t, <1>w, <2>u, <2>1, <3>q
      DEF RowDeleted, RowGone, BodyStays, OriginStays, AsAdministrator, RowBecomes, Typed
    <3>2. Alone(m)
      BY <1>t, <1>w, <2>u, <2>1, <3>q, RowKept
      DEF Alone, Still, StoreStays, HandsStay, OriginStays, BodyStays, FateStays, DeleteStays,
          RowBecomes, Typed
    <3> QED
      BY <3>1, <3>2
  <2>2. CASE UNCHANGED <<queue, writtenOff>> /\ deleting' = [deleting EXCEPT ![m] = "no"]
    <3>1. \A n \in Msg : StoreStays(n)
      BY <2>u, <2>2, StoreRests
    <3>2. DeleteGoes(m)
      BY <1>t, <1>w, <2>u, <2>2, <3>1 DEF DeleteGoes, StoreStays, AsAdministrator, Typed
    <3>3. Alone(m)
      BY <1>t, <1>w, <2>2, <3>1 DEF Alone, Still, HandsStay, DeleteStays, Typed
    <3> QED
      BY <3>2, <3>3
  <2> QED
    BY <1>3, <2>1, <2>2 DEF DeleteMessageRow
<1>4. ASSUME NEW m \in Msg, DeleteMessageBody(m) PROVE BodyDeleted(m) /\ Alone(m)
  <2>u. /\ UNCHANGED <<queue, domain, home, rcpts, writtenOff>> /\ spool' = spool \ {m}
        /\ deleting' = [deleting EXCEPT ![m] = "no"] /\ deleting[m] = "body"
    BY <1>4 DEF DeleteMessageBody
  <2>f. \A n \in Msg : RowStays(n) /\ OriginStays(n) /\ FateStays(n)
    BY <2>u, RowKept DEF OriginStays, FateStays
  <2>1. BodyDeleted(m)
    BY <1>t, <1>w, <2>u, <2>f DEF BodyDeleted, AsAdministrator, Typed
  <2>2. Alone(m)
    BY <1>t, <1>w, <2>u, <2>f DEF Alone, Still, StoreStays, HandsStay, BodyStays, DeleteStays,
                                  Typed
  <2> QED
    BY <2>1, <2>2
<1>5. ASSUME NEW d \in Domain, (\E force \in BOOLEAN : DeleteDomainRead(d, force))
                               \/ SetEnabled(d)
      PROVE  \A n \in Msg : Still(n)
  <2>u. UNCHANGED <<queue, spool, home, rcpts, writtenOff, deleting>>
        /\ (UNCHANGED domain \/ domain' = [domain EXCEPT ![d].enabled = ~@])
    BY <1>5 DEF DeleteDomainRead, SetEnabled, storeVars
  <2>d. \A e \in Domain : domain'[e].exists => domain[e].exists
    BY <1>t, <2>u, DomainsGo DEF Typed
  <2> QED
    BY <1>w, <1>h, <2>u, <2>d, RowKept DEF Still, StoreStays, HandsStay, OriginStays, BodyStays,
                                           FateStays, DeleteStays
<1>6. ASSUME NEW d \in Domain, DeleteDomainBodies(d)
      PROVE  \A n \in Msg : Still(n) \/ BodyDropped(n)
  <2>u. UNCHANGED <<queue, domain, home, rcpts, deleting>>
    BY <1>6 DEF DeleteDomainBodies
  <2>f. \A n \in Msg : RowStays(n) /\ OriginStays(n) /\ DeleteStays(n)
    BY <2>u, RowKept DEF OriginStays, DeleteStays
  <2>1. ASSUME NEW S \in Listed(d), spool' = spool \ S, writtenOff' = writtenOff \cup S,
               NEW n \in Msg
        PROVE  Still(n) \/ BodyDropped(n)
    <3>1. \A k \in S : Stored(k)
      BY DEF Listed, RowsOf
    <3>2. CASE n \in S
      BY <1>w, <2>1, <2>f, <3>1, <3>2 DEF BodyDropped, AsAdministrator
    <3>3. CASE n \notin S
      BY <1>w, <2>1, <2>f, <3>3 DEF Still, StoreStays, HandsStay, BodyStays, FateStays
    <3> QED
      BY <3>2, <3>3
  <2>2. CASE UNCHANGED <<spool, writtenOff>>
    BY <1>w, <2>2, <2>f DEF Still, StoreStays, HandsStay, BodyStays, FateStays
  <2> QED
    BY <1>6, <2>1, <2>2 DEF DeleteDomainBodies
<1>7. ASSUME NEW d \in Domain, DeleteDomainRow(d)
      PROVE  \A n \in Msg : Still(n) \/ RowDropped(n)
  <2>u. UNCHANGED <<spool, home, rcpts, deleting>>
    BY <1>7 DEF DeleteDomainRow
  <2>f. \A n \in Msg : BodyStays(n) /\ DeleteStays(n)
    BY <2>u DEF BodyStays, DeleteStays
  <2>1. ASSUME DeleteDomain(d), NEW n \in Msg PROVE Still(n) \/ RowDropped(n)
    <3>1. /\ ~domain'[d].exists /\ writtenOff' = writtenOff \cup RowsOf(d)
          /\ \A e \in Domain : domain'[e].exists => domain[e].exists
          /\ IF n \in RowsOf(d) THEN RowGone(n) ELSE RowStays(n)
      BY <1>t, <2>1, DomainsGo, ManyRows DEF DeleteDomain, Typed
    <3>2. OriginStays(n)
      BY <1>h, <2>u, <3>1 DEF OriginStays
    <3>3. CASE n \in RowsOf(d)
      <4>1. Stored(n) /\ home[n] = d
        BY <3>3 DEF RowsOf
      <4> QED
        BY <1>w, <2>f, <3>1, <3>2, <3>3, <4>1 DEF RowDropped, AsAdministrator
    <3>4. CASE n \notin RowsOf(d)
      <4>1. FateStays(n)
        BY <3>1, <3>4 DEF FateStays
      <4> QED
        BY <1>w, <2>f, <3>1, <3>2, <3>4, <4>1 DEF Still, StoreStays, HandsStay
    <3> QED
      BY <3>3, <3>4
  <2>2. CASE UNCHANGED <<queue, domain, writtenOff>>
    <3>1. \A n \in Msg : StoreStays(n)
      BY <2>u, <2>2, StoreRests
    <3> QED
      BY <1>w, <2>f, <3>1 DEF Still, HandsStay
  <2> QED
    BY <1>7, <2>1, <2>2 DEF DeleteDomainRow
<1> QED
  BY <1>u, <1>1, <1>2, <1>3, <1>4, <1>5, <1>6, <1>7 DEF AdminStep

\* The end of the process takes what the goroutines knew, and no more
LEMMA StopMoves ==
  ASSUME TypeOK, Stop
  PROVE  \A n \in Msg : Stops(n)
<1> SUFFICES ASSUME NEW n \in Msg PROVE Stops(n)
  OBVIOUS
<1>t. Typed
  BY TypedState
<1>1. /\ UNCHANGED <<queue, spool, domain, home, rcpts, writtenOff, hold>>
      /\ UNCHANGED <<reached, twice, refused, told>>
      /\ loop' = "down" /\ batch' = {}
      /\ job' = [m \in Msg |-> "none"] /\ outcome' = [m \in Msg |-> "none"]
      /\ held' = [m \in Msg |-> {}] /\ parts' = [m \in Msg |-> NoParts]
      /\ dsn' = [m \in Msg |-> {}] /\ deleting' = [m \in Msg |-> "no"]
      /\ IntakeStop
      /\ n \in shaken \/ Busy(n) => n \in shaken'
  BY DEF Stop, SenderStop, AdminStop, storeVars
<1>2. StoreStays(n)
  BY <1>1, StoreRests
<1>3. /\ WorkIs(n, "none", "none", {}, NoParts) /\ Unclaimed(n)' /\ ~Bound(n)'
      /\ deleting'[n] = "no"
  BY <1>1 DEF WorkIs, Unclaimed, Claimed, Lapsed, Bound
<1>4. /\ session'[n] \notin {"spooled", "queued"} /\ (n \in hold' <=> n \in hold)
      /\ session[n] \notin {"spooled", "queued"} => session'[n] = session[n]
  BY <1>1 DEF IntakeStop
<1>5. AnswersStay(n) /\ ToldStays(n)
  BY <1>1 DEF AnswersStay, ToldStays
<1> QED
  BY <1>1, <1>2, <1>3, <1>4, <1>5 DEF Stops

\* Signals, probes, clocks and stuttering move no message
LEMMA EnvMoves ==
  ASSUME TypeOK, Signal \/ EnvNext \/ UNCHANGED vars
  PROVE  \A n \in Msg : Still(n)
<1>t. Typed
  BY TypedState
<1>h. \A n \in Msg : home[n] \in Domain
  BY <1>t DEF Typed, StoreTypeOK
<1>u. /\ UNCHANGED <<spool, home, rcpts, writtenOff, intakeVars, adminVars, loop, batch, job,
                     outcome, held, parts, dsn, reached, twice, refused, told, shaken>>
  BY DEF Signal, Shutdown, EnvNext, PrimaryFlips, BackoffElapses, RetentionElapses, EnvRest,
         vars, storeVars, intakeVars, senderVars, adminVars, historyVars
<1>w. \A n \in Msg : /\ SessionStays(n) /\ DeleteStays(n) /\ BoundStays(n) /\ WorkerStays(n)
                     /\ TaleStays(n) /\ BodyStays(n) /\ FateStays(n)
  BY <1>u, DeskRests
  DEF WorkerStays, ClaimStays, Claimed, Lapsed, WorkStays, WorkIs, TaleStays, AnswersStay,
      ToldStays, ShakenStays, BoundStays, Bound, BodyStays, FateStays
<1>d. \A e \in Domain : domain'[e].exists => domain[e].exists
  <2>1. UNCHANGED domain \/ \E d \in Domain : domain' = [domain EXCEPT ![d].up = ~@]
    BY DEF Signal, Shutdown, EnvNext, PrimaryFlips, BackoffElapses, RetentionElapses, vars,
           storeVars
  <2> QED
    BY <1>t, <2>1, DomainsGo DEF Typed
<1>q. \A n \in Msg : RowStays(n)
  <2>0. queue \in [Msg -> Row]
    BY <1>t DEF Typed, StoreTypeOK
  <2>1. ASSUME NEW m \in Msg, BackoffElapses(m) \/ RetentionElapses(m), NEW n \in Msg
        PROVE  RowStays(n)
    <3>1. queue'[n] \in {queue[n], [queue[n] EXCEPT !.due = TRUE],
                         [queue[n] EXCEPT !.overdue = TRUE]}
      BY <2>0, <2>1 DEF BackoffElapses, RetentionElapses
    <3>2. queue[n] \in Row
      BY <2>0
    <3> QED
      BY <3>1, <3>2 DEF Row, RowStays, RowIs
  <2>2. UNCHANGED queue => \A n \in Msg : RowStays(n)
    BY RowKept
  <2> QED
    BY <2>1, <2>2 DEF Signal, Shutdown, EnvNext, PrimaryFlips, storeVars, vars
<1> QED
  BY <1>h, <1>u, <1>w, <1>d, <1>q DEF Still, StoreStays, HandsStay, OriginStays

\* Run, pass and maintain move the rows they select alike
LEMMA LoopMoves ==
  ASSUME TypeOK, MailInv, UNCHANGED <<intakeVars, adminVars>>,
         \/ Start \/ Wake \/ ClaimInbound \/ ClaimOutbound \/ BatchDone
         \/ MaintainExpire \/ ExpireDone \/ MaintainRelease \/ MaintainPurge
  PROVE  \/ \A n \in Msg : Still(n) \/ Claims(n)
         \/ \A n \in Msg : Still(n) \/ GivenBack(n)
         \/ \A n \in Msg : Still(n) \/ Purged(n)
         \/ \A n \in Msg : Still(n) \/ Expires(n)
<1>t. Typed /\ LoopInv
  BY TypedState DEF MailInv
<1>v. UNCHANGED <<spool, domain, home, rcpts, job, outcome, parts, dsn, reached, twice, refused,
                  told, shaken>>
  BY DEF Start, Wake, ClaimInbound, ClaimOutbound, BatchDone, MaintainExpire, ExpireDone,
         MaintainRelease, MaintainPurge, storeVars, historyVars
<1>w. \A n \in Msg : OriginStays(n) /\ BodyStays(n) /\ HandsStay(n) /\ TaleStays(n)
  BY <1>v, DeskRests DEF OriginStays, BodyStays, HandsStay, BoundStays, Bound, TaleStays,
                         AnswersStay, ToldStays, ShakenStays
\* between passes nobody is claimed: the loop goes on, and a row is given back or purged
<1>i. ASSUME UNCHANGED <<writtenOff, held>>, batch = {}, batch' = {}
      PROVE  \A n \in Msg : FateStays(n) /\ Unclaimed(n) /\ WorkerStays(n)
  BY <1>v, <1>i DEF FateStays, Unclaimed, WorkerStays, ClaimStays, Claimed, Lapsed, WorkStays,
                    WorkIs
<1>r. ASSUME UNCHANGED <<writtenOff, held>>, batch = {}, batch' = {}, UNCHANGED queue
      PROVE  \A n \in Msg : Still(n)
  BY <1>w, <1>i, <1>r, RowKept DEF Still, StoreStays
<1>1. CASE Start \/ MaintainRelease
  <2>u. UNCHANGED <<writtenOff, held>> /\ batch = {} /\ batch' = {}
        /\ \A n \in Msg : job[n] = "none"
    BY <1>1, <1>t DEF Start, MaintainRelease, LoopInv, Working
  <2>1. ASSUME NEW S \in SUBSET Delivering, ReleaseOrphanedClaims(S), NEW n \in Msg
        PROVE  Still(n) \/ GivenBack(n)
    <3>1. S \in SUBSET Msg
      BY DEF Delivering
    <3>2. IF n \in S THEN RowIs(n, "queued", queue[n].to) ELSE RowStays(n)
      BY <1>t, <2>1, <3>1, ManyRows DEF Typed
    <3>3. n \in S => queue[n].status = "delivering"
      BY DEF Delivering
    <3> QED
      BY <1>w, <1>i, <2>u, <3>2, <3>3 DEF Still, StoreStays, GivenBack, Idles
  <2>2. UNCHANGED queue => \A n \in Msg : Still(n)
    BY <1>r, <2>u
  <2> QED
    BY <1>1, <2>1, <2>2 DEF Start, MaintainRelease
<1>2. CASE MaintainPurge
  <2>u. UNCHANGED <<writtenOff, held>> /\ batch = {} /\ batch' = {}
        /\ \A n \in Msg : job[n] = "none"
    BY <1>2, <1>t DEF MaintainPurge, LoopInv, Working
  <2>1. ASSUME NEW S \in SUBSET History, PurgeDelivered(S), NEW n \in Msg
        PROVE  Still(n) \/ Purged(n)
    <3>1. S \in SUBSET Msg
      BY DEF History
    <3>2. IF n \in S THEN RowGone(n) ELSE RowStays(n)
      BY <1>t, <2>1, <3>1, ManyRows DEF Typed
    <3>3. n \in S => queue[n].status \in Settled
      BY DEF History
    <3> QED
      BY <1>w, <1>i, <2>u, <3>2, <3>3 DEF Still, StoreStays, Purged, Idles
  <2>2. UNCHANGED queue => \A n \in Msg : Still(n)
    BY <1>r, <2>u
  <2> QED
    BY <1>2, <2>1, <2>2 DEF MaintainPurge
<1>3. CASE Wake \/ BatchDone \/ ExpireDone
  <2>u. UNCHANGED <<queue, writtenOff, held>> /\ batch = {} /\ batch' = {}
    BY <1>3, <1>t DEF Wake, BatchDone, ExpireDone, storeVars, LoopInv
  <2> QED
    BY <1>r, <2>u
<1>4. CASE MaintainExpire
  <2>u. UNCHANGED held /\ batch = {} /\ loop' = "expire" /\ \A n \in Msg : job[n] = "none"
    BY <1>4, <1>t DEF MaintainExpire, LoopInv, Working
  <2>1. ASSUME ExpireOverdue, batch' = Overdue, NEW n \in Msg
        PROVE  Still(n) \/ Expires(n)
    <3>1. /\ IF n \in Overdue THEN RowIs(n, "expired", queue[n].to) ELSE RowStays(n)
          /\ writtenOff' = writtenOff \cup Overdue
      BY <1>t, <2>1, ManyRows DEF Typed, ExpireOverdue
    <3>2. n \in Overdue => queue[n].status = "queued" /\ ~queue[n].quarantined
      BY DEF Overdue
    <3>3. Unclaimed(n) /\ WorkStays(n) /\ (Lapsed(n)' <=> n \in Overdue) /\ ~Claimed(n)'
      BY <1>v, <2>u, <2>1 DEF Unclaimed, Claimed, Lapsed, WorkStays, WorkIs
    <3>4. CASE n \in Overdue
      BY <1>w, <2>u, <3>1, <3>2, <3>3, <3>4 DEF Expires
    <3>5. CASE n \notin Overdue
      <4>1. FateStays(n) /\ ClaimStays(n)
        BY <3>1, <3>3, <3>5 DEF FateStays, ClaimStays, Unclaimed
      <4> QED
        BY <1>w, <3>1, <3>3, <3>5, <4>1 DEF Still, StoreStays, WorkerStays
    <3> QED
      BY <3>4, <3>5
  <2>2. UNCHANGED <<queue, writtenOff, batch>> => \A n \in Msg : Still(n)
    BY <1>r, <2>u
  <2> QED
    BY <1>4, <2>1, <2>2 DEF MaintainExpire
\* a claim, in either half of a pass
<1>c. ASSUME NEW S \in SUBSET Msg, ClaimRows(S), UNCHANGED writtenOff, NEW n \in Msg,
             loop \in {"claim", "claimOut"}, loop' # "expire",
             \A k \in S : queue[k].status = "queued" /\ ~queue[k].quarantined
      PROVE  Still(n) \/ Claims(n)
  <2>1. /\ IF n \in S THEN RowIs(n, "delivering", queue[n].to) ELSE RowStays(n)
        /\ batch' = batch \cup S
        /\ held'[n] = IF n \in S THEN queue[n].to ELSE held[n]
    BY <1>c, <1>t, ManyRows DEF Typed, ClaimRows
  <2>2. job[n] = "none" /\ FateStays(n)
    BY <1>c, <1>t DEF LoopInv, Working, FateStays
  <2>3. CASE n \in S
    <3>1. Claimed(n)' /\ ~Lapsed(n)' /\ WorkIs(n, "none", outcome[n], queue[n].to, parts[n])
      BY <1>c, <1>v, <2>1, <2>2, <2>3 DEF Claimed, Lapsed, WorkIs
    <3> QED
      BY <1>c, <1>w, <2>1, <2>2, <2>3, <3>1 DEF Claims
  <2>4. CASE n \notin S
    <3>1. WorkerStays(n)
      BY <1>c, <1>v, <2>1, <2>4 DEF WorkerStays, ClaimStays, Claimed, Lapsed, WorkStays, WorkIs
    <3> QED
      BY <1>w, <2>1, <2>2, <2>4, <3>1 DEF Still, StoreStays
  <2> QED
    BY <2>3, <2>4
<1>5. CASE ClaimInbound
  <2>u. UNCHANGED writtenOff /\ loop = "claim" /\ batch = {}
    BY <1>5, <1>t DEF ClaimInbound, LoopInv
  <2>1. ASSUME NEW S \in Limited({m \in Msg : Claimable(m)}), ClaimRows(S), loop' = "claimOut"
        PROVE  \A n \in Msg : Still(n) \/ Claims(n)
    <3>1. S \subseteq {m \in Msg : Claimable(m)}
      BY DEF Limited
    <3>2. S \in SUBSET Msg /\ \A k \in S : queue[k].status = "queued" /\ ~queue[k].quarantined
      BY <3>1 DEF Claimable
    <3> QED
      BY <1>c, <2>u, <2>1, <3>2
  <2>2. UNCHANGED <<queue, batch, held>> => \A n \in Msg : Still(n)
    BY <1>r, <2>u
  <2> QED
    BY <1>5, <2>1, <2>2 DEF ClaimInbound
<1>6. CASE ClaimOutbound
  <2>u. UNCHANGED writtenOff /\ loop = "claimOut" /\ loop' # "expire"
    BY <1>6 DEF ClaimOutbound
  <2>1. ASSUME NEW S \in Limited({m \in Msg : ClaimableOutbound(m, ~OutboundEnabled)}),
               ClaimRows(S)
        PROVE  \A n \in Msg : Still(n) \/ Claims(n)
    <3>1. S \subseteq {m \in Msg : ClaimableOutbound(m, ~OutboundEnabled)}
      BY DEF Limited
    <3>2. S \in SUBSET Msg /\ \A k \in S : queue[k].status = "queued" /\ ~queue[k].quarantined
      BY <3>1 DEF ClaimableOutbound
    <3> QED
      BY <1>c, <2>u, <2>1, <3>2
  <2>2. UNCHANGED <<queue, batch, held>> => \A n \in Msg : Still(n)
    BY <1>v, <1>w, <2>u, RowKept DEF Still, StoreStays, FateStays, WorkerStays, ClaimStays,
                                     Claimed, Lapsed, WorkStays, WorkIs
  <2> QED
    BY <1>6, <2>1, <2>2 DEF ClaimOutbound
<1> QED
  BY <1>1, <1>2, <1>3, <1>4, <1>5, <1>6

\* Of the locals of a goroutine only those of its own message move
LEMMA GoToMoves ==
  ASSUME Typed, NEW m \in Msg, NEW j, GoTo(m, j)
  PROVE  /\ WorkGoes(m, j)
         /\ \A n \in Msg \ {m} : WorkStays(n)
         /\ \A n \in Msg : ClaimStays(n) /\ AnswersStay(n)
<1>1. WorkGoes(m, j) /\ \A n \in Msg \ {m} : WorkStays(n)
  BY DEF GoTo, Typed, WorkGoes, WorkStays, WorkIs
<1>2. \A n \in Msg : ClaimStays(n) /\ AnswersStay(n)
  BY DEF GoTo, ClaimStays, Claimed, Lapsed, AnswersStay
<1> QED
  BY <1>1, <1>2

\* deliver: a worker begins with its message, and the attempt ends
LEMMA AttemptMoves ==
  ASSUME TypeOK, MailInv, UNCHANGED <<intakeVars, adminVars>>, NEW m \in Msg, Attempt(m)
  PROVE  (Begun(m) \/ Failed(m) \/ TurnedDown(m) \/ Parted(m)) /\ Alone(m)
<1>t. Typed /\ LoopInv /\ twice \in [Msg -> SUBSET Rcpt] /\ shaken \subseteq Msg
  BY TypedState DEF MailInv, TypeOK, SenderTypeOK
<1>h. \A n \in Msg : SessionStays(n) /\ DeleteStays(n)
  BY DeskRests
<1>1. CASE Begin(m)
  <2>0. /\ UNCHANGED <<queue, spool, domain, home, rcpts, writtenOff, loop, held, dsn, reached,
                       twice, refused, told, shaken>>
        /\ loop = "work" /\ m \in batch /\ batch' = batch \ {m}
        /\ parts' = [parts EXCEPT ![m] = NoParts]
    BY <1>1 DEF Begin, Take, historyVars
  <2>1. \A n \in Msg : StoreStays(n) /\ HandsStay(n) /\ TaleStays(n)
    BY <1>h, <2>0, StoreRests DEF HandsStay, BoundStays, Bound, TaleStays, AnswersStay, ToldStays,
                                  ShakenStays
  <2>2. Claimed(m) /\ job[m] = "none" /\ Unclaimed(m)' /\ \A n \in Msg \ {m} : ClaimStays(n)
    BY <1>t, <2>0 DEF Claimed, Lapsed, Unclaimed, ClaimStays, LoopInv, Working
  <2>3. /\ \/ outcome'[m] = "temporary" /\ job'[m] = "mark"
           \/ outcome'[m] = "none" /\ job'[m] = "open" /\ m \in spool
           \/ outcome'[m] = "lost" /\ job'[m] = "mark" /\ m \notin spool
        /\ parts'[m] = NoParts /\ held'[m] = held[m]
        /\ \A n \in Msg \ {m} : WorkStays(n)
    BY <1>1, <1>t, <2>0 DEF Begin, WorkStays, WorkIs, Typed
  <2>4. Begun(m)
    BY <2>1, <2>2, <2>3 DEF Begun, AtWork, WorkIs, TaleStays
  <2>5. Alone(m)
    BY <2>1, <2>2, <2>3 DEF Alone, Still, WorkerStays
  <2> QED
    BY <2>4, <2>5
\* the frame of an attempt that ends
<1>e. ASSUME NEW how, NEW p, Ending(m, how, p),
             \A n \in Msg \ {m} : job'[n] = job[n] /\ AnswersStay(n) /\ ShakenStays(n)
      PROVE  /\ AtWork(m) /\ ClaimStays(m) /\ Alone(m)
             /\ outcome'[m] = how /\ parts'[m] = p /\ held'[m] = held[m]
  <2>0. /\ UNCHANGED <<queue, spool, domain, home, rcpts, writtenOff, loop, batch, held, dsn,
                       told>>
        /\ outcome' = [outcome EXCEPT ![m] = how] /\ parts' = [parts EXCEPT ![m] = p]
    BY <1>e DEF Ending, storeVars
  <2>1. \A n \in Msg : StoreStays(n) /\ HandsStay(n) /\ ToldStays(n) /\ ClaimStays(n)
    BY <1>h, <2>0, StoreRests DEF HandsStay, BoundStays, Bound, ToldStays, ClaimStays, Claimed,
                                  Lapsed
  <2>2. /\ outcome'[m] = how /\ parts'[m] = p /\ held'[m] = held[m]
        /\ \A n \in Msg \ {m} : WorkStays(n)
    BY <1>e, <1>t, <2>0 DEF WorkStays, WorkIs, Typed
  <2> QED
    BY <1>e, <2>1, <2>2 DEF AtWork, Alone, Still, WorkerStays, TaleStays
<1>2. ASSUME NEW G \in SUBSET held[m], AttemptFails(m, G)
      PROVE  Failed(m) /\ Alone(m)
  <2>0. /\ job[m] = "open" /\ Ending(m, "temporary", NoParts) /\ UNCHANGED refused
        /\ job' = [job EXCEPT ![m] = "mark"]
        /\ reached' = [reached EXCEPT ![m] = @ \cup G]
        /\ twice' = [twice EXCEPT ![m] = @ \cup (G \cap reached[m])]
        /\ shaken' = IF G = {} THEN shaken ELSE shaken \cup {m}
    BY <1>2 DEF AttemptFails, Reach
  <2>1. \A n \in Msg \ {m} : job'[n] = job[n] /\ AnswersStay(n) /\ ShakenStays(n)
    BY <1>t, <2>0 DEF AnswersStay, ShakenStays, Typed
  <2>2. Answers(m, {}, {}, G) /\ job'[m] = "mark"
    BY <1>t, <2>0 DEF Answers, ShakenStays, Typed
  <2>3. G \in SUBSET Rcpt
    BY <1>t DEF Typed
  <2> QED
    BY <1>e, <2>0, <2>1, <2>2, <2>3 DEF Failed, WorkIs
<1>3. CASE AttemptRefused(m)
  <2>0. /\ job[m] = "open" /\ Ending(m, "permanent", NoParts)
        /\ UNCHANGED <<reached, twice, shaken>>
        /\ job' = [job EXCEPT ![m] = "mark"]
        /\ refused' = [refused EXCEPT ![m] = @ \cup held[m]]
    BY <1>3 DEF AttemptRefused
  <2>1. \A n \in Msg \ {m} : job'[n] = job[n] /\ AnswersStay(n) /\ ShakenStays(n)
    BY <1>t, <2>0 DEF AnswersStay, ShakenStays, Typed
  <2>2. Answers(m, {}, held[m], {}) /\ job'[m] = "mark"
    BY <1>t, <2>0 DEF Answers, ShakenStays, Typed
  <2> QED
    BY <1>e, <2>0, <2>1, <2>2 DEF TurnedDown, WorkIs
<1>4. ASSUME NEW A \in SUBSET held[m], NEW D \in SUBSET held[m], NEW R \in SUBSET held[m],
             NEW U \in SUBSET held[m], NEW G \in SUBSET held[m],
             AttemptSettles(m, A, D, R, U, G)
      PROVE  Parted(m) /\ Alone(m)
  <2> DEFINE p == [acc |-> A, def |-> D, rej |-> R]
             j == IF R # {} THEN ToBounce(m, "parts", p) ELSE AfterBounce(m, "parts", p)
  <2>0. /\ job[m] = "open" /\ Ending(m, "parts", p)
        /\ job' = [job EXCEPT ![m] = j]
        /\ A \cap (D \cup R) = {} /\ D \cap R = {} /\ G \subseteq D
        /\ refused' = [refused EXCEPT ![m] = @ \cup R]
        /\ reached' = [reached EXCEPT ![m] = @ \cup (A \cup G)]
        /\ twice' = [twice EXCEPT ![m] = @ \cup ((A \cup G) \cap reached[m])]
        /\ shaken' = IF G = {} THEN shaken ELSE shaken \cup {m}
    BY <1>4 DEF AttemptSettles, Reach
  <2> HIDE DEF p, j
  <2>1. \A n \in Msg \ {m} : job'[n] = job[n] /\ AnswersStay(n) /\ ShakenStays(n)
    BY <1>t, <2>0 DEF AnswersStay, ShakenStays, Typed
  <2>2. Answers(m, A, R, G) /\ job'[m] = j
    BY <1>t, <2>0 DEF Answers, ShakenStays, Typed
  <2>3. /\ AtWork(m) /\ ClaimStays(m) /\ Alone(m)
        /\ WorkIs(m, j, "parts", held[m], p)
    BY <1>e, <2>0, <2>1, <2>2 DEF WorkIs
  <2>4. SettledIn(m, A, D, R, G)
    BY <2>0, <2>2, <2>3 DEF SettledIn, p, j
  <2>5. A \in SUBSET Rcpt /\ D \in SUBSET Rcpt /\ R \in SUBSET Rcpt /\ G \in SUBSET Rcpt
    BY <1>t DEF Typed
  <2> QED
    BY <2>0, <2>3, <2>4, <2>5 DEF Parted
<1> QED
  BY <1>1, <1>2, <1>3, <1>4 DEF Attempt

\* maintain begins with an expired message; a claimed one is left on shutdown
LEMMA TakenMoves ==
  ASSUME TypeOK, MailInv, UNCHANGED <<intakeVars, adminVars>>, NEW m \in Msg,
         Abandon(m) \/ ExpireOne(m)
  PROVE  (Abandoned(m) \/ ExpiryTaken(m)) /\ Alone(m)
<1>t. Typed /\ LoopInv /\ shaken \subseteq Msg
  BY TypedState DEF MailInv, TypeOK, SenderTypeOK
<1>0. /\ UNCHANGED <<queue, spool, domain, home, rcpts, writtenOff, loop, dsn, reached, twice,
                     refused, told>>
      /\ m \in batch /\ batch' = batch \ {m}
  BY DEF Abandon, ExpireOne, storeVars
<1>1. \A n \in Msg : StoreStays(n) /\ HandsStay(n) /\ AnswersStay(n) /\ ToldStays(n)
  BY <1>0, DeskRests, StoreRests DEF HandsStay, BoundStays, Bound, AnswersStay, ToldStays
<1>2. Unclaimed(m)' /\ \A n \in Msg \ {m} : ClaimStays(n)
  BY <1>0 DEF Unclaimed, ClaimStays, Claimed, Lapsed
<1>3. CASE Abandon(m)
  <2>1. /\ Claimed(m) /\ shaken' = shaken \cup {m} /\ \A n \in Msg : WorkStays(n)
    BY <1>3 DEF Abandon, Claimed, WorkStays, WorkIs
  <2>2. \A n \in Msg \ {m} : ShakenStays(n)
    BY <2>1 DEF ShakenStays
  <2> QED
    BY <1>1, <1>2, <2>1, <2>2 DEF Abandoned, Alone, Still, WorkerStays, TaleStays
<1>4. CASE ExpireOne(m)
  <2>1. /\ Lapsed(m) /\ job[m] = "none"
        /\ outcome' = [outcome EXCEPT ![m] = "expired"]
        /\ parts' = [parts EXCEPT ![m] = NoParts]
    BY <1>4 DEF ExpireOne, Lapsed, Working
  <2> DEFINE j == ToBounce(m, "expired", NoParts)
  <2> HIDE DEF j
  <2>2. \/ /\ Stored(m) /\ held' = [held EXCEPT ![m] = queue[m].to] /\ UNCHANGED shaken
           /\ job' = [job EXCEPT ![m] = j]
        \/ /\ job' = [job EXCEPT ![m] = "unlink"] /\ UNCHANGED held
           /\ shaken' = shaken \cup {m}
    BY <1>4 DEF ExpireOne, j
  <2>3. \A n \in Msg \ {m} : WorkStays(n) /\ ShakenStays(n)
    BY <1>t, <2>1, <2>2 DEF WorkStays, WorkIs, ShakenStays, Typed
  <2>4. \/ Stored(m) /\ ShakenStays(m) /\ WorkIs(m, j, "expired", queue[m].to, NoParts)
        \/ m \in shaken' /\ WorkIs(m, "unlink", "expired", held[m], NoParts)
    BY <1>t, <2>1, <2>2 DEF WorkIs, ShakenStays, Typed
  <2>5. ExpiryTaken(m)
    BY <1>1, <1>2, <2>1, <2>4 DEF ExpiryTaken, j
  <2>6. Alone(m)
    BY <1>1, <1>2, <2>3 DEF Alone, Still, WorkerStays, TaleStays
  <2> QED
    BY <2>5, <2>6
<1> QED
  BY <1>3, <1>4

\* The bounce of m: its worker moves, and the report with the id b
WithReport(m, b) == /\ \/ Reporting(m) /\ ReportSpooled(b)
                       \/ Reported(m) /\ ReportQueued(b)
                       \/ Unreported(m) /\ ReportDropped(b)
                    /\ \A n \in Msg \ {m, b} : Still(n)

\* settle and bounce: the writes that end an attempt
LEMMA WrapupMoves ==
  ASSUME TypeOK, MailInv, PathInv, UNCHANGED <<intakeVars, adminVars>>, NEW m \in Msg, Wrapup(m)
  PROVE  \/ /\ \/ Narrowed(m) \/ Rescheduled(m) \/ Completed(m) \/ GivenUp(m) \/ Unlinked(m)
               \/ Unreported(m)
            /\ Alone(m)
         \/ \E b \in Msg \ {m} : WithReport(m, b)
<1>t. Typed /\ DsnInv /\ IdInv(m) /\ ReportInv(m) /\ shaken \subseteq Msg
      /\ told \in [Msg -> SUBSET Rcpt] /\ \A n \in Msg : IdInv(n)
  BY TypedState DEF MailInv, PathInv, TypeOK, SenderTypeOK
<1>h. \A n \in Msg : SessionStays(n) /\ DeleteStays(n)
  BY DeskRests
\* the frame of a write to the row of m
<1>f. ASSUME UNCHANGED <<spool, domain, home, rcpts, writtenOff, dsn, told>>,
             NEW j, GoTo(m, j),
             \A n \in Msg \ {m} : queue'[n] = queue[n],
             UNCHANGED shaken \/ shaken' = shaken \cup {m}
      PROVE  /\ AtRow(m) /\ WorkGoes(m, j) /\ Alone(m)
             /\ ShakenStays(m) \/ m \in shaken'
             /\ UNCHANGED shaken => ShakenStays(m)
  <2>1. \A n \in Msg : /\ OriginStays(n) /\ BodyStays(n) /\ FateStays(n) /\ BoundStays(n)
                       /\ ToldStays(n)
    BY <1>f DEF OriginStays, BodyStays, FateStays, BoundStays, Bound, ToldStays
  <2>2. \A n \in Msg \ {m} : ShakenStays(n) /\ RowStays(n)
    BY <1>f, RowKept DEF ShakenStays
  <2>3. (UNCHANGED shaken => ShakenStays(m)) /\ (ShakenStays(m) \/ m \in shaken')
    BY <1>f DEF ShakenStays
  <2>4. AtRow(m) /\ WorkGoes(m, j)
    BY <1>f, <1>t, <1>h, <2>1, GoToMoves DEF AtRow, HandsStay
  <2>5. Alone(m)
    BY <1>f, <1>t, <1>h, <2>1, <2>2, GoToMoves
    DEF Alone, Still, StoreStays, HandsStay, WorkerStays, TaleStays
  <2> QED
    BY <2>3, <2>4, <2>5
<1>w. (Written(m) => Stored(m)) /\ (UNCHANGED queue => RowStays(m))
  BY RowKept DEF Written
<1>1. CASE Narrow(m)
  <2>0. /\ job[m] = "narrow" /\ GoTo(m, "mark")
        /\ UNCHANGED <<spool, domain, home, rcpts, writtenOff, dsn, told>>
        /\ \/ Stored(m) /\ SetRecipients(m, parts[m].def) /\ UNCHANGED shaken
           \/ UNCHANGED queue /\ shaken' = shaken \cup {m}
    BY <1>1 DEF Narrow, Written
  <2>1. parts[m].def \in SUBSET Rcpt
    BY <1>t DEF Typed, Parts
  <2>2. SetRecipients(m, parts[m].def) =>
          /\ \A n \in Msg \ {m} : queue'[n] = queue[n]
          /\ RowIs(m, queue[m].status, parts[m].def)
    BY <1>t, <2>1, StatementsOnOneRow, HoldColumn DEF Typed, RowBecomes, RowIs
  <2>3. AtRow(m) /\ WorkGoes(m, "mark") /\ Alone(m) /\ (UNCHANGED shaken => ShakenStays(m))
    BY <1>f, <2>0, <2>2
  <2> QED
    BY <1>w, <2>0, <2>2, <2>3 DEF Narrowed
<1>2. CASE MarkDeferred(m)
  <2>0. /\ job[m] = "mark" /\ Deferred(m) /\ GoTo(m, "none")
        /\ UNCHANGED <<spool, domain, home, rcpts, writtenOff, dsn, told>>
        /\ \/ Stored(m) /\ Reschedule(m) /\ UNCHANGED shaken
           \/ UNCHANGED queue /\ shaken' = shaken \cup {m}
    BY <1>2 DEF MarkDeferred, Written
  <2>2. Reschedule(m) => /\ \A n \in Msg \ {m} : queue'[n] = queue[n]
                         /\ RowIs(m, "queued", queue[m].to)
    BY <1>t, StatementsOnOneRow, HoldColumn DEF Typed, RowBecomes, RowIs
  <2>3. AtRow(m) /\ WorkGoes(m, "none") /\ Alone(m) /\ (UNCHANGED shaken => ShakenStays(m))
    BY <1>f, <2>0, <2>2
  <2> QED
    BY <1>w, <2>0, <2>2, <2>3 DEF Rescheduled
<1>3. CASE MarkDone(m)
  <2>0. /\ job[m] = "mark" /\ Done(m)
        /\ UNCHANGED <<spool, domain, home, rcpts, writtenOff, dsn, told>>
        /\ \/ Stored(m) /\ MarkDelivered(m) /\ GoTo(m, "unlink") /\ UNCHANGED shaken
           \/ UNCHANGED queue /\ GoTo(m, "none") /\ shaken' = shaken \cup {m}
    BY <1>3 DEF MarkDone, Written
  <2>2. MarkDelivered(m) => /\ \A n \in Msg \ {m} : queue'[n] = queue[n]
                            /\ RowIs(m, "delivered", queue[m].to)
    BY <1>t, StatementsOnOneRow, HoldColumn DEF Typed, RowBecomes, RowIs
  <2>3. CASE Stored(m) /\ MarkDelivered(m) /\ GoTo(m, "unlink") /\ UNCHANGED shaken
    <3>1. AtRow(m) /\ WorkGoes(m, "unlink") /\ Alone(m) /\ ShakenStays(m)
      BY <1>f, <2>0, <2>2, <2>3
    <3> QED
      BY <2>0, <2>2, <2>3, <3>1 DEF Completed
  <2>4. CASE UNCHANGED queue /\ GoTo(m, "none") /\ shaken' = shaken \cup {m}
    <3>1. AtRow(m) /\ WorkGoes(m, "none") /\ Alone(m)
      BY <1>f, <2>0, <2>4
    <3> QED
      BY <1>w, <2>0, <2>4, <3>1 DEF Completed
  <2> QED
    BY <2>0, <2>3, <2>4
<1>4. CASE MarkGivenUp(m)
  <2> DEFINE j == IF outcome[m] = "parts" THEN "unlink" ELSE ToBounce(m, outcome[m], parts[m])
  <2>0. /\ job[m] = "mark" /\ ~Deferred(m) /\ ~Done(m) /\ GoTo(m, j)
        /\ UNCHANGED <<spool, domain, home, rcpts, writtenOff, dsn, told>>
        /\ \/ Stored(m) /\ MarkFailed(m) /\ UNCHANGED shaken
           \/ UNCHANGED queue /\ shaken' = shaken \cup {m}
    BY <1>4 DEF MarkGivenUp, Written
  <2> HIDE DEF j
  <2>2. MarkFailed(m) => /\ \A n \in Msg \ {m} : queue'[n] = queue[n]
                         /\ RowIs(m, "failed", queue[m].to)
    BY <1>t, StatementsOnOneRow, HoldColumn DEF Typed, RowBecomes, RowIs
  <2>3. AtRow(m) /\ WorkGoes(m, j) /\ Alone(m) /\ (UNCHANGED shaken => ShakenStays(m))
    BY <1>f, <2>0, <2>2
  <2> QED
    BY <1>w, <2>0, <2>2, <2>3 DEF GivenUp, j
<1>5. CASE Unlink(m)
  <2>0. /\ job[m] = "unlink" /\ GoTo(m, "none") /\ spool' = spool \ {m}
        /\ UNCHANGED <<queue, domain, home, rcpts, writtenOff, dsn, told, shaken>>
    BY <1>5 DEF Unlink
  <2>1. \A n \in Msg : /\ RowStays(n) /\ OriginStays(n) /\ FateStays(n) /\ BoundStays(n)
                       /\ ToldStays(n) /\ ShakenStays(n)
    BY <2>0, RowKept DEF OriginStays, FateStays, BoundStays, Bound, ToldStays, ShakenStays
  <2>2. m \notin spool' /\ \A n \in Msg \ {m} : BodyStays(n)
    BY <2>0 DEF BodyStays
  <2> QED
    BY <1>t, <1>h, <2>0, <2>1, <2>2, GoToMoves
    DEF Unlinked, Alone, Still, StoreStays, HandsStay, WorkerStays, TaleStays
<1>6. CASE BouncePut(m)
  <2>0. job[m] = "bounce" /\ UNCHANGED <<queue, domain, home, rcpts, writtenOff, told>>
        /\ dsn[m] = {}
    BY <1>6, <1>t DEF BouncePut, ReportInv
  <2>f. \A n \in Msg : RowStays(n) /\ OriginStays(n) /\ FateStays(n) /\ ToldStays(n)
    BY <2>0, RowKept DEF OriginStays, FateStays, ToldStays
  <2>1. ASSUME NEW b \in DsnMsg, Fresh(b), spool' = spool \cup {b},
               dsn' = [dsn EXCEPT ![m] = {b}], GoTo(m, "report"), UNCHANGED shaken
        PROVE  b \in Msg \ {m} /\ WithReport(m, b)
    <3>1. b \in Msg /\ b # m /\ ~Known(b) /\ b \notin writtenOff
          /\ b \notin batch /\ job[b] = "none"
      <4>1. b \in Msg /\ ~Known(b)
        BY <2>1 DEF Fresh, Known, Msg
      <4> QED
        BY <1>t, <2>0, <4>1 DEF IdInv
    <3>2. \A n \in Msg : ShakenStays(n) /\ (n # b => BodyStays(n) /\ BoundStays(n))
      <4>1. \A n \in Msg : dsn'[n] = IF n = m THEN {b} ELSE dsn[n]
        BY <1>t, <2>1 DEF Typed
      <4> QED
        BY <2>0, <2>1, <4>1 DEF ShakenStays, BodyStays, BoundStays, Bound
    <3>3. b \in spool' /\ Bound(b)'
      BY <1>t, <2>1 DEF Bound, Typed
    <3>4. Reporting(m)
      BY <1>t, <1>h, <2>0, <2>f, <2>1, <3>1, <3>2, GoToMoves
      DEF Reporting, StoreStays, HandsStay, TaleStays
    <3>5. ReportSpooled(b)
      <4>1. Unclaimed(b)
        BY <3>1 DEF Unclaimed, Claimed, Lapsed
      <4> QED
        BY <1>t, <1>h, <2>f, <2>1, <3>1, <3>2, <3>3, <4>1, GoToMoves
        DEF ReportSpooled, ReportStays, WorkerStays, TaleStays
    <3>6. \A n \in Msg \ {m, b} : Still(n)
      BY <1>t, <1>h, <2>f, <2>1, <3>2, GoToMoves
      DEF Still, StoreStays, HandsStay, WorkerStays, TaleStays
    <3> QED
      BY <3>1, <3>4, <3>5, <3>6 DEF WithReport
  <2>2. CASE /\ shaken' = shaken \cup {m} /\ UNCHANGED <<spool, dsn>>
             /\ GoTo(m, AfterBounce(m, outcome[m], parts[m]))
    <3>1. \A n \in Msg : BodyStays(n) /\ BoundStays(n)
      BY <2>2 DEF BodyStays, BoundStays, Bound
    <3>2. \A n \in Msg \ {m} : ShakenStays(n)
      BY <2>2 DEF ShakenStays
    <3>3. Unreported(m)
      BY <1>t, <1>h, <2>0, <2>f, <2>2, <3>1, GoToMoves DEF Unreported, StoreStays, HandsStay
    <3>4. Alone(m)
      BY <1>t, <1>h, <2>f, <2>2, <3>1, <3>2, GoToMoves
      DEF Alone, Still, StoreStays, HandsStay, WorkerStays, TaleStays
    <3> QED
      BY <3>3, <3>4
  <2> QED
    BY <1>6, <2>1, <2>2 DEF BouncePut
<1>7. CASE BounceEnqueue(m)
  <2> DEFINE j == AfterBounce(m, outcome[m], parts[m])
  <2>0. /\ job[m] = "report" /\ dsn' = [dsn EXCEPT ![m] = {}] /\ GoTo(m, j)
        /\ UNCHANGED <<domain, writtenOff>>
    BY <1>7 DEF BounceEnqueue
  <2> HIDE DEF j
  <2> PICK b \in dsn[m] :
       \/ /\ Succeeds
          /\ \E s \in Rcpt : Enqueue(b, home[m], {s})
          /\ told' = [told EXCEPT ![m] = @ \cup Failures(m)]
          /\ UNCHANGED <<spool, shaken>>
       \/ /\ (Succeeds /\ ~domain[home[m]].exists) \/ Fails
          /\ spool' = spool \ {b}
          /\ shaken' = shaken \cup {m}
          /\ UNCHANGED <<queue, home, rcpts, told>>
    BY <1>7 DEF BounceEnqueue
  <2>b. b \in Msg /\ b \in DsnMsg /\ b \in spool /\ ~Known(b) /\ dsn[m] = {b}
        /\ \A n \in Msg \ {m} : b \notin dsn[n]
    <3>1. dsn[m] = {b}
      BY <1>t DEF ReportInv
    <3> QED
      BY <1>t, <3>1 DEF DsnInv, Typed, Msg
  <2>m. b # m /\ job[b] = "none" /\ b \notin batch /\ b \notin writtenOff
    BY <1>t, <2>0, <2>b DEF IdInv
  <2>d. ~Bound(b)' /\ \A n \in Msg \ {b} : BoundStays(n)
    <3>1. \A n \in Msg : dsn'[n] = IF n = m THEN {} ELSE dsn[n]
      BY <1>t, <2>0 DEF Typed
    <3> QED
      BY <2>b, <3>1 DEF BoundStays, Bound
  <2>g. /\ WorkGoes(m, j) /\ \A n \in Msg \ {m} : WorkStays(n)
        /\ \A n \in Msg : ClaimStays(n) /\ AnswersStay(n) /\ FateStays(n)
    BY <1>t, <2>0, GoToMoves DEF FateStays
  <2>u. Unclaimed(b)
    BY <2>m DEF Unclaimed, Claimed, Lapsed
  <2>1. ASSUME NEW s \in Rcpt, Enqueue(b, home[m], {s}), UNCHANGED <<spool, shaken>>,
               told' = [told EXCEPT ![m] = @ \cup Failures(m)]
        PROVE  WithReport(m, b)
    <3>q. /\ RowBecomes(b, "queued", {s}) /\ ~queue'[b].quarantined
          /\ rcpts' = [rcpts EXCEPT ![b] = {s}] /\ home' = [home EXCEPT ![b] = home[m]]
      <4>1. home[m] \in Domain /\ {s} \in SUBSET Rcpt
        BY <1>t DEF Typed, StoreTypeOK
      <4> QED
        BY <1>t, <2>1, <2>b, <4>1, StatementsOnOneRow, HoldColumn DEF Typed, Enqueue
    <3>r. /\ \A n \in Msg \ {b} : rcpts'[n] = rcpts[n] /\ home'[n] = home[n]
          /\ rcpts'[b] = {s}
      BY <1>t, <2>b, <3>q DEF Typed, StoreTypeOK
    <3>1. \A n \in Msg \ {b} : RowStays(n) /\ OriginStays(n)
      BY <2>0, <3>q, <3>r, RowKept DEF RowBecomes, OriginStays
    <3>2. \A n \in Msg : BodyStays(n) /\ ShakenStays(n)
      BY <2>1 DEF BodyStays, ShakenStays
    <3>3. told'[m] = told[m] \cup Failures(m) /\ \A n \in Msg \ {m} : ToldStays(n)
      BY <1>t, <2>1 DEF ToldStays
    <3>4. Reported(m)
      BY <1>h, <2>0, <2>d, <2>g, <2>m, <3>1, <3>2, <3>3
      DEF Reported, StoreStays, HandsStay, j
    <3>5. ReportQueued(b)
      <4>1. /\ queue'[b].status = "queued" /\ ~queue'[b].quarantined
            /\ queue'[b].to = rcpts'[b] /\ rcpts'[b] # {} /\ rcpts'[b] \subseteq Rcpt
            /\ b \in spool' /\ b \in spool
        BY <2>1, <2>b, <3>q, <3>r DEF RowBecomes
      <4>2. ReportStays(b)
        BY <1>h, <2>b, <2>g, <2>m, <2>u, <3>2, <3>3 DEF ReportStays, WorkerStays, TaleStays
      <4> QED
        BY <2>d, <4>1, <4>2 DEF ReportQueued
    <3>6. \A n \in Msg \ {m, b} : Still(n)
      BY <1>h, <2>d, <2>g, <3>1, <3>2, <3>3
      DEF Still, StoreStays, HandsStay, WorkerStays, TaleStays
    <3> QED
      BY <3>4, <3>5, <3>6 DEF WithReport
  <2>2. CASE /\ spool' = spool \ {b} /\ shaken' = shaken \cup {m}
             /\ UNCHANGED <<queue, home, rcpts, told>>
    <3>1. \A n \in Msg : RowStays(n) /\ OriginStays(n) /\ ToldStays(n)
      BY <2>0, <2>2, RowKept DEF OriginStays, ToldStays
    <3>2. /\ \A n \in Msg \ {m} : ShakenStays(n)
          /\ \A n \in Msg \ {b} : BodyStays(n)
          /\ m \in shaken' /\ b \notin spool'
      BY <2>2 DEF BodyStays, ShakenStays
    <3>4. Unreported(m)
      BY <1>h, <2>0, <2>d, <2>g, <2>m, <3>1, <3>2
      DEF Unreported, StoreStays, HandsStay, j
    <3>5. ReportDropped(b)
      <4>1. ReportStays(b)
        BY <1>h, <2>b, <2>g, <2>m, <2>u, <3>1, <3>2 DEF ReportStays, WorkerStays, TaleStays
      <4> QED
        BY <2>b, <2>d, <3>1, <3>2, <4>1 DEF ReportDropped
    <3>6. \A n \in Msg \ {m, b} : Still(n)
      BY <1>h, <2>d, <2>g, <3>1, <3>2
      DEF Still, StoreStays, HandsStay, WorkerStays, TaleStays
    <3> QED
      BY <2>b, <2>m, <3>4, <3>5, <3>6 DEF WithReport
  <2> QED
    BY <2>1, <2>2, <2>b, <2>m
<1> QED
  BY <1>1, <1>2, <1>3, <1>4, <1>5, <1>6, <1>7 DEF Wrapup

-----------------------------------------------------------------------------
(* A step of the mail path.                                                *)

\* A goroutine, a request or a transaction moves one message
Moves(m) ==
  \/ Spools(m) \/ Refuses(m) \/ Accepts(m) \/ IsHeld(m)
  \/ Retried(m) \/ Released(m) \/ DeleteGoes(m) \/ RowDeleted(m) \/ BodyDeleted(m)
  \/ ExpiryTaken(m) \/ Abandoned(m) \/ Begun(m) \/ Failed(m) \/ TurnedDown(m) \/ Parted(m)
  \/ Narrowed(m) \/ Rescheduled(m) \/ Completed(m) \/ GivenUp(m) \/ Unlinked(m) \/ Unreported(m)

\* A statement on many rows, or the end of the process, moves some of them alike
AllMove ==
  \/ \A n \in Msg : Still(n) \/ BodyDropped(n)
  \/ \A n \in Msg : Still(n) \/ RowDropped(n)
  \/ \A n \in Msg : Still(n) \/ Claims(n)
  \/ \A n \in Msg : Still(n) \/ GivenBack(n)
  \/ \A n \in Msg : Still(n) \/ Purged(n)
  \/ \A n \in Msg : Still(n) \/ Expires(n)
  \/ \A n \in Msg : Stops(n)

\* Every step of the mail path has one of three shapes: one message moves, a
\* message and its report move, or the messages of one statement move alike.
LEMMA StepShape ==
  ASSUME TypeOK, MailInv, PathInv, [Next]_vars
  PROVE  \/ \E m \in Msg : Moves(m) /\ Alone(m)
         \/ \E m \in Msg : \E b \in Msg \ {m} : WithReport(m, b)
         \/ AllMove
<1>1. CASE IntakeNext
  BY <1>1, IntakeMoves DEF Moves
<1>2. CASE AdminNext
  BY <1>2, AdminMoves DEF Moves, AllMove
<1>3. CASE Stop
  BY <1>3, StopMoves DEF AllMove
<1>4. CASE Signal \/ EnvNext \/ UNCHANGED vars
  BY <1>4, EnvMoves DEF AllMove
<1>5. CASE SenderNext
  <2>u. UNCHANGED <<intakeVars, adminVars>> /\ SenderStep
    BY <1>5 DEF SenderNext
  <2>1. CASE \/ Start \/ Wake \/ ClaimInbound \/ ClaimOutbound \/ BatchDone
             \/ MaintainExpire \/ ExpireDone \/ MaintainRelease \/ MaintainPurge
    BY <2>u, <2>1, LoopMoves DEF AllMove
  <2>2. ASSUME NEW m \in Msg, Abandon(m) \/ ExpireOne(m) PROVE Moves(m) /\ Alone(m)
    BY <2>u, <2>2, TakenMoves DEF Moves
  <2>3. ASSUME NEW m \in Msg, Attempt(m) PROVE Moves(m) /\ Alone(m)
    BY <2>u, <2>3, AttemptMoves DEF Moves
  <2>4. ASSUME NEW m \in Msg, Wrapup(m)
        PROVE  (Moves(m) /\ Alone(m)) \/ \E b \in Msg \ {m} : WithReport(m, b)
    BY <2>u, <2>4, WrapupMoves DEF Moves
  <2> QED
    BY <2>u, <2>1, <2>2, <2>3, <2>4 DEF SenderStep
<1> QED
  BY <1>1, <1>2, <1>3, <1>4, <1>5 DEF Next

-----------------------------------------------------------------------------
(* What a message that does not rest is.                                   *)


\* What TypeOK and MailInv say of a single message: its id, and no worker has it
\* while it is still to be handed to one
Sound(n) == /\ IdInv(n) /\ outcome[n] \in Outcome
            /\ queue[n].status \in Pending \cup Settled \cup {"absent"}
            /\ Claimed(n) \/ Lapsed(n) => job[n] = "none"

\* Busy of Spool in the terms of the moves
Owned(n) == \/ session[n] = "spooled" \/ deleting[n] = "body" \/ Bound(n)
            \/ Claimed(n) \/ Lapsed(n) \/ job[n] # "none"

\* Claimed and Lapsed share the batch of the loop between them
LEMMA BusyIsOwned == \A n \in Msg : (Busy(n) <=> Owned(n)) /\ (Busy(n)' <=> Owned(n)')
BY DEF Busy, Owned, Bound, Claimed, Lapsed

-----------------------------------------------------------------------------
(* The moves, one by one: each of the seven parts of OnPath is kept.       *)

\* A message that does not move stays on its path
LEMMA StillKeeps ==
  ASSUME NEW n \in Msg, Sound(n), OnPath(n), Still(n)
  PROVE  OnPath(n)'
<1>1. EnvelopeInv(n)'
  BY DEF OnPath, EnvelopeInv, Still, StoreStays, RowStays, RowIs, OriginStays, WorkStays,
         WorkIs, WorkerStays, AnswersStay, ToldStays, TaleStays
<1>2. StageInv(n)'
  BY DEF OnPath, StageInv, Still, StoreStays, BodyStays, WorkStays, WorkIs, WorkerStays
<1>3. OwnerInv(n)'
  BY DEF OnPath, OwnerInv, Stored, Still, StoreStays, RowStays, RowIs, HandsStay, SessionStays,
         ClaimStays, WorkStays, WorkIs, WorkerStays
<1>4. BodyInv(n)'
  BY BusyIsOwned
  DEF OnPath, BodyInv, Owned, Still, StoreStays, RowStays, RowIs, OriginStays, BodyStays,
      HandsStay, SessionStays, DeleteStays, BoundStays, ClaimStays, WorkStays, WorkIs,
      WorkerStays, ShakenStays, TaleStays
<1>5. n \notin shaken' => CopyInv(n)'
  BY DEF OnPath, CopyInv, Unwritten, Still, StoreStays, RowStays, RowIs, BodyStays, ClaimStays,
         WorkStays, WorkIs, WorkerStays, AnswersStay, ShakenStays, TaleStays
<1>6. n \notin shaken' \cup hold' => TellInv(n)'
  BY DEF OnPath, TellInv, Unwritten, Still, StoreStays, RowStays, RowIs, BodyStays, HandsStay,
         SessionStays, ClaimStays, WorkStays, WorkIs, WorkerStays, AnswersStay, ToldStays,
         ShakenStays, TaleStays
<1>7. n \notin shaken' /\ shouldBounce(n) => RefusalInv(n)'
  BY DEF OnPath, RefusalInv, Failures, Still, WorkStays, WorkIs, WorkerStays, AnswersStay,
         ToldStays, ShakenStays, TaleStays
<1> QED
  BY <1>1, <1>2, <1>3, <1>4, <1>5, <1>6, <1>7 DEF OnPath

\* A body is spooled for an id nobody used before
LEMMA SpoolsKeeps ==
  ASSUME NEW n \in Msg, Sound(n), OnPath(n), Spools(n)
  PROVE  OnPath(n)'
<1>0. rcpts[n] = {} /\ queue[n].to = {} /\ reached[n] = {} /\ refused[n] = {} /\ told[n] = {}
      /\ held[n] = {} /\ job[n] = "none" /\ outcome[n] = "none" /\ Unclaimed(n)
  <2>1. rcpts[n] = {} /\ Unclaimed(n) /\ job[n] = "none"
    BY IdsAssumption DEF Spools, Sound, IdInv, Known, Unclaimed, Claimed, Lapsed
  <2> QED
    BY <2>1 DEF OnPath, EnvelopeInv, StageInv
<1>1. EnvelopeInv(n)'
  BY <1>0
  DEF OnPath, EnvelopeInv, Spools, RowStays, RowIs, OriginStays, WorkStays, WorkIs, WorkerStays,
      AnswersStay, ToldStays, TaleStays
<1>2. StageInv(n)'
  BY <1>0 DEF OnPath, StageInv, Spools, WorkStays, WorkIs, WorkerStays
<1>3. OwnerInv(n)'
  BY <1>0
  DEF OnPath, OwnerInv, Stored, Spools, RowStays, RowIs, ClaimStays, WorkStays, WorkIs,
      WorkerStays
<1>4. BodyInv(n)'
  BY <1>0, BusyIsOwned
  DEF OnPath, BodyInv, Owned, Spools, RowStays, RowIs, OriginStays, DeleteStays, BoundStays,
      ClaimStays, WorkStays, WorkIs, WorkerStays, ShakenStays, TaleStays
<1>5. n \notin shaken' => CopyInv(n)'
  BY <1>0
  DEF OnPath, CopyInv, Unwritten, Spools, RowStays, RowIs, ClaimStays, WorkStays, WorkIs,
      WorkerStays, AnswersStay, ShakenStays, TaleStays
<1>6. n \notin shaken' \cup hold' => TellInv(n)'
  BY <1>0
  DEF OnPath, TellInv, Unwritten, Spools, RowStays, RowIs, ClaimStays, WorkStays, WorkIs,
      WorkerStays, AnswersStay, ToldStays, ShakenStays, TaleStays
<1>7. n \notin shaken' /\ shouldBounce(n) => RefusalInv(n)'
  BY <1>0
  DEF OnPath, RefusalInv, Failures, Spools, WorkStays, WorkIs, WorkerStays, AnswersStay,
      ToldStays, ShakenStays, TaleStays
<1> QED
  BY <1>1, <1>2, <1>3, <1>4, <1>5, <1>6, <1>7 DEF OnPath

\* A refused body had no row and no worker
LEMMA RefusesKeeps ==
  ASSUME NEW n \in Msg, Sound(n), OnPath(n), Refuses(n)
  PROVE  OnPath(n)'
<1>0. rcpts[n] = {} /\ queue[n].to = {} /\ reached[n] = {} /\ refused[n] = {} /\ told[n] = {}
      /\ held[n] = {} /\ job[n] = "none" /\ outcome[n] = "none" /\ Unclaimed(n)
  <2>1. rcpts[n] = {} /\ Unclaimed(n) /\ job[n] = "none"
    BY IdsAssumption DEF Refuses, Sound, IdInv, Known, Unclaimed, Claimed, Lapsed
  <2> QED
    BY <2>1 DEF OnPath, EnvelopeInv, StageInv
<1>1. EnvelopeInv(n)'
  BY <1>0
  DEF OnPath, EnvelopeInv, Refuses, RowStays, RowIs, OriginStays, WorkStays, WorkIs,
      WorkerStays, AnswersStay, ToldStays, TaleStays
<1>2. StageInv(n)'
  BY <1>0 DEF OnPath, StageInv, Refuses, WorkStays, WorkIs, WorkerStays
<1>3. OwnerInv(n)'
  BY <1>0
  DEF OnPath, OwnerInv, Stored, Refuses, RowStays, RowIs, ClaimStays, WorkStays, WorkIs,
      WorkerStays
<1>4. BodyInv(n)'
  BY <1>0, BusyIsOwned
  DEF OnPath, BodyInv, Owned, Refuses, RowStays, RowIs, OriginStays, DeleteStays, BoundStays,
      ClaimStays, WorkStays, WorkIs, WorkerStays, ShakenStays, TaleStays
<1>5. n \notin shaken' => CopyInv(n)'
  BY <1>0
  DEF OnPath, CopyInv, Unwritten, Refuses, RowStays, RowIs, ClaimStays, WorkStays, WorkIs,
      WorkerStays, AnswersStay, ShakenStays, TaleStays
<1>6. n \notin shaken' \cup hold' => TellInv(n)'
  BY <1>0
  DEF OnPath, TellInv, Unwritten, Refuses, RowStays, RowIs, ClaimStays, WorkStays, WorkIs,
      WorkerStays, AnswersStay, ToldStays, ShakenStays, TaleStays
<1>7. n \notin shaken' /\ shouldBounce(n) => RefusalInv(n)'
  BY <1>0
  DEF OnPath, RefusalInv, Failures, Refuses, WorkStays, WorkIs, WorkerStays, AnswersStay,
      ToldStays, ShakenStays, TaleStays
<1> QED
  BY <1>1, <1>2, <1>3, <1>4, <1>5, <1>6, <1>7 DEF OnPath

\* A new row has nobody served, refused or told
LEMMA AcceptsKeeps ==
  ASSUME NEW n \in Msg, Sound(n), OnPath(n), Accepts(n)
  PROVE  OnPath(n)'
<1>0. rcpts[n] = {} /\ queue[n].to = {} /\ reached[n] = {} /\ refused[n] = {} /\ told[n] = {}
      /\ held[n] = {} /\ job[n] = "none" /\ outcome[n] = "none" /\ Unclaimed(n)
  <2>1. rcpts[n] = {} /\ Unclaimed(n) /\ job[n] = "none"
    BY IdsAssumption DEF Accepts, Sound, IdInv, Known, Unclaimed, Claimed, Lapsed
  <2> QED
    BY <2>1 DEF OnPath, EnvelopeInv, StageInv
<1>1. EnvelopeInv(n)'
  BY <1>0
  DEF OnPath, EnvelopeInv, Accepts, WorkStays, WorkIs, WorkerStays, AnswersStay, ToldStays,
      TaleStays
<1>2. StageInv(n)'
  BY <1>0 DEF OnPath, StageInv, Accepts, BodyStays, WorkStays, WorkIs, WorkerStays
<1>3. OwnerInv(n)'
  BY <1>0
  DEF OnPath, OwnerInv, Stored, Settled, Unclaimed, Accepts, ClaimStays, WorkStays, WorkIs,
      WorkerStays
<1>4. BodyInv(n)'
  BY <1>0, BusyIsOwned
  DEF OnPath, BodyInv, Owned, Pending, Accepts, BodyStays, DeleteStays, BoundStays, ClaimStays,
      WorkStays, WorkIs, WorkerStays, ShakenStays, TaleStays
<1>5. n \notin shaken' => CopyInv(n)'
  BY <1>0
  DEF OnPath, CopyInv, Unwritten, Accepts, BodyStays, ClaimStays, WorkStays, WorkIs,
      WorkerStays, AnswersStay, ShakenStays, TaleStays
<1>6. n \notin shaken' \cup hold' => TellInv(n)'
  BY <1>0
  DEF OnPath, TellInv, Unwritten, Accepts, BodyStays, ClaimStays, WorkStays, WorkIs,
      WorkerStays, AnswersStay, ToldStays, ShakenStays, TaleStays
<1>7. n \notin shaken' /\ shouldBounce(n) => RefusalInv(n)'
  BY <1>0
  DEF OnPath, RefusalInv, Failures, Accepts, WorkStays, WorkIs, WorkerStays, AnswersStay,
      ToldStays, ShakenStays, TaleStays
<1> QED
  BY <1>1, <1>2, <1>3, <1>4, <1>5, <1>6, <1>7 DEF OnPath

\* Only a message a verdict sent to quarantine is held
LEMMA IsHeldKeeps ==
  ASSUME NEW n \in Msg, Sound(n), OnPath(n), IsHeld(n)
  PROVE  OnPath(n)'
<1>1. EnvelopeInv(n)'
  BY DEF OnPath, EnvelopeInv, IsHeld, OriginStays, WorkStays, WorkIs, WorkerStays, AnswersStay,
         ToldStays, TaleStays
<1>2. StageInv(n)'
  BY DEF OnPath, StageInv, IsHeld, BodyStays, WorkStays, WorkIs, WorkerStays
<1>3. OwnerInv(n)'
  BY DEF OnPath, OwnerInv, Stored, IsHeld, ClaimStays, WorkStays, WorkIs, WorkerStays
<1>4. BodyInv(n)'
  BY BusyIsOwned
  DEF OnPath, BodyInv, Owned, IsHeld, OriginStays, BodyStays, DeleteStays, BoundStays,
      ClaimStays, WorkStays, WorkIs, WorkerStays, ShakenStays, TaleStays
<1>5. n \notin shaken' => CopyInv(n)'
  BY DEF OnPath, CopyInv, Unwritten, IsHeld, BodyStays, ClaimStays, WorkStays, WorkIs,
         WorkerStays, AnswersStay, ShakenStays, TaleStays
<1>6. n \notin shaken' \cup hold' => TellInv(n)'
  BY DEF OnPath, TellInv, Unwritten, IsHeld, BodyStays, ClaimStays, WorkStays, WorkIs,
         WorkerStays, AnswersStay, ToldStays, ShakenStays, TaleStays
<1>7. n \notin shaken' /\ shouldBounce(n) => RefusalInv(n)'
  BY DEF OnPath, RefusalInv, Failures, IsHeld, WorkStays, WorkIs, WorkerStays, AnswersStay,
         ToldStays, ShakenStays, TaleStays
<1> QED
  BY <1>1, <1>2, <1>3, <1>4, <1>5, <1>6, <1>7 DEF OnPath

\* A retry asks for those who were not served: a delivered row is not retried
LEMMA RetriedKeeps ==
  ASSUME NEW n \in Msg, Sound(n), OnPath(n), Retried(n)
  PROVE  OnPath(n)'
<1>1. EnvelopeInv(n)'
  BY DEF OnPath, EnvelopeInv, Retried, RowIs, OriginStays, WorkStays, WorkIs, WorkerStays,
         AnswersStay, ToldStays, TaleStays, AsAdministrator
<1>2. StageInv(n)'
  BY DEF OnPath, StageInv, Retried, BodyStays, WorkStays, WorkIs, WorkerStays, AsAdministrator
<1>3. OwnerInv(n)'
  BY DEF OnPath, OwnerInv, Stored, Settled, Retried, RowIs, SessionStays, ClaimStays, WorkStays,
         WorkIs, WorkerStays, AsAdministrator
<1>4. BodyInv(n)'
  BY BusyIsOwned
  DEF OnPath, BodyInv, Owned, Pending, Retried, RowIs, OriginStays, BodyStays, SessionStays,
      DeleteStays, BoundStays, ClaimStays, WorkStays, WorkIs, WorkerStays, ShakenStays,
      TaleStays, AsAdministrator
<1>5. n \notin shaken' => CopyInv(n)'
  BY DEF OnPath, CopyInv, Unwritten, Retried, RowIs, BodyStays, ClaimStays, WorkStays, WorkIs,
         WorkerStays, AnswersStay, ShakenStays, TaleStays, AsAdministrator
<1>6. n \notin shaken' \cup hold' => TellInv(n)'
  BY DEF OnPath, TellInv, Unwritten, Retried, RowIs, BodyStays, SessionStays, ClaimStays,
         WorkStays, WorkIs, WorkerStays, AnswersStay, ToldStays, ShakenStays, TaleStays,
         AsAdministrator
<1>7. n \notin shaken' /\ shouldBounce(n) => RefusalInv(n)'
  BY DEF OnPath, RefusalInv, Failures, Retried, WorkStays, WorkIs, WorkerStays, AnswersStay,
         ToldStays, ShakenStays, TaleStays, AsAdministrator
<1> QED
  BY <1>1, <1>2, <1>3, <1>4, <1>5, <1>6, <1>7 DEF OnPath

\* A release may revive any row, but only of a message in quarantine
LEMMA ReleasedKeeps ==
  ASSUME NEW n \in Msg, Sound(n), OnPath(n), Released(n)
  PROVE  OnPath(n)'
<1>1. EnvelopeInv(n)'
  BY DEF OnPath, EnvelopeInv, Released, OriginStays, WorkStays, WorkIs, WorkerStays,
         AnswersStay, ToldStays, TaleStays, AsAdministrator
<1>2. StageInv(n)'
  BY DEF OnPath, StageInv, Released, BodyStays, WorkStays, WorkIs, WorkerStays, AsAdministrator
<1>3. OwnerInv(n)'
  BY DEF OnPath, OwnerInv, Stored, Settled, Released, SessionStays, ClaimStays, WorkStays,
         WorkIs, WorkerStays, AsAdministrator
<1>4. BodyInv(n)'
  BY BusyIsOwned
  DEF OnPath, BodyInv, Owned, Pending, Released, OriginStays, BodyStays, SessionStays,
      DeleteStays, BoundStays, ClaimStays, WorkStays, WorkIs, WorkerStays, ShakenStays,
      TaleStays, AsAdministrator
<1>5. n \notin shaken' => CopyInv(n)'
  BY DEF OnPath, CopyInv, Unwritten, Released, BodyStays, ClaimStays, WorkStays, WorkIs,
         WorkerStays, AnswersStay, ShakenStays, TaleStays, AsAdministrator
<1>6. n \notin shaken' \cup hold' => TellInv(n)'
  BY DEF OnPath, TellInv, Unwritten, OwnerInv, Released, BodyStays, SessionStays, ClaimStays,
         WorkStays, WorkIs, WorkerStays, AnswersStay, ToldStays, ShakenStays, TaleStays,
         AsAdministrator
<1>7. n \notin shaken' /\ shouldBounce(n) => RefusalInv(n)'
  BY DEF OnPath, RefusalInv, Failures, Released, WorkStays, WorkIs, WorkerStays, AnswersStay,
         ToldStays, ShakenStays, TaleStays, AsAdministrator
<1> QED
  BY <1>1, <1>2, <1>3, <1>4, <1>5, <1>6, <1>7 DEF OnPath

\* A delete request that changes nothing yet
LEMMA DeleteGoesKeeps ==
  ASSUME NEW n \in Msg, Sound(n), OnPath(n), DeleteGoes(n)
  PROVE  OnPath(n)'
<1>1. EnvelopeInv(n)'
  BY DEF OnPath, EnvelopeInv, DeleteGoes, RowStays, RowIs, OriginStays, WorkStays, WorkIs,
         WorkerStays, AnswersStay, ToldStays, TaleStays, AsAdministrator
<1>2. StageInv(n)'
  BY DEF OnPath, StageInv, DeleteGoes, BodyStays, WorkStays, WorkIs, WorkerStays,
         AsAdministrator
<1>3. OwnerInv(n)'
  BY DEF OnPath, OwnerInv, Stored, DeleteGoes, RowStays, RowIs, SessionStays, ClaimStays,
         WorkStays, WorkIs, WorkerStays, AsAdministrator
<1>4. BodyInv(n)'
  BY BusyIsOwned
  DEF OnPath, BodyInv, Owned, DeleteGoes, RowStays, RowIs, OriginStays, BodyStays, SessionStays,
      BoundStays, ClaimStays, WorkStays, WorkIs, WorkerStays, ShakenStays, TaleStays,
      AsAdministrator
<1>5. n \notin shaken' => CopyInv(n)'
  BY DEF OnPath, CopyInv, Unwritten, DeleteGoes, RowStays, RowIs, BodyStays, ClaimStays,
         WorkStays, WorkIs, WorkerStays, AnswersStay, ShakenStays, TaleStays, AsAdministrator
<1>6. n \notin shaken' \cup hold' => TellInv(n)'
  BY DEF OnPath, TellInv, Unwritten, DeleteGoes, RowStays, RowIs, BodyStays, SessionStays,
         ClaimStays, WorkStays, WorkIs, WorkerStays, AnswersStay, ToldStays, ShakenStays,
         TaleStays, AsAdministrator
<1>7. n \notin shaken' /\ shouldBounce(n) => RefusalInv(n)'
  BY DEF OnPath, RefusalInv, Failures, DeleteGoes, WorkStays, WorkIs, WorkerStays, AnswersStay,
         ToldStays, ShakenStays, TaleStays, AsAdministrator
<1> QED
  BY <1>1, <1>2, <1>3, <1>4, <1>5, <1>6, <1>7 DEF OnPath

\* A deleted row asks for nobody, and its body is with the handler
LEMMA RowDeletedKeeps ==
  ASSUME NEW n \in Msg, Sound(n), OnPath(n), RowDeleted(n)
  PROVE  OnPath(n)'
<1>1. EnvelopeInv(n)'
  BY DEF OnPath, EnvelopeInv, RowDeleted, RowGone, OriginStays, WorkStays, WorkIs, WorkerStays,
         AnswersStay, ToldStays, TaleStays, AsAdministrator
<1>2. StageInv(n)'
  BY DEF OnPath, StageInv, RowDeleted, BodyStays, WorkStays, WorkIs, WorkerStays,
         AsAdministrator
<1>3. OwnerInv(n)'
  BY DEF OnPath, OwnerInv, Stored, Settled, RowDeleted, RowGone, SessionStays, ClaimStays,
         WorkStays, WorkIs, WorkerStays, AsAdministrator
<1>4. BodyInv(n)'
  BY BusyIsOwned
  DEF OnPath, BodyInv, Owned, RowDeleted, RowGone, OriginStays, BodyStays, SessionStays,
      BoundStays, ClaimStays, WorkStays, WorkIs, WorkerStays, ShakenStays, TaleStays,
      AsAdministrator
<1>5. n \notin shaken' => CopyInv(n)'
  BY DEF OnPath, CopyInv, Unwritten, RowDeleted, RowGone, BodyStays, ClaimStays, WorkStays,
         WorkIs, WorkerStays, AnswersStay, ShakenStays, TaleStays, AsAdministrator
<1>6. n \notin shaken' \cup hold' => TellInv(n)'
  BY DEF OnPath, TellInv, Unwritten, RowDeleted, RowGone, BodyStays, SessionStays, ClaimStays,
         WorkStays, WorkIs, WorkerStays, AnswersStay, ToldStays, ShakenStays, TaleStays,
         AsAdministrator
<1>7. n \notin shaken' /\ shouldBounce(n) => RefusalInv(n)'
  BY DEF OnPath, RefusalInv, Failures, RowDeleted, WorkStays, WorkIs, WorkerStays, AnswersStay,
         ToldStays, ShakenStays, TaleStays, AsAdministrator
<1> QED
  BY <1>1, <1>2, <1>3, <1>4, <1>5, <1>6, <1>7 DEF OnPath

\* A handler removes the body of a row it deleted
LEMMA BodyDeletedKeeps ==
  ASSUME NEW n \in Msg, Sound(n), OnPath(n), BodyDeleted(n)
  PROVE  OnPath(n)'
<1>1. EnvelopeInv(n)'
  BY DEF OnPath, EnvelopeInv, BodyDeleted, RowStays, RowIs, OriginStays, WorkStays, WorkIs,
         WorkerStays, AnswersStay, ToldStays, TaleStays, AsAdministrator
<1>2. StageInv(n)'
  BY DEF OnPath, StageInv, BodyDeleted, WorkStays, WorkIs, WorkerStays, AsAdministrator
<1>3. OwnerInv(n)'
  BY DEF OnPath, OwnerInv, Stored, BodyDeleted, RowStays, RowIs, SessionStays, ClaimStays,
         WorkStays, WorkIs, WorkerStays, AsAdministrator
<1>4. BodyInv(n)'
  BY BusyIsOwned
  DEF OnPath, BodyInv, Owned, BodyDeleted, RowStays, RowIs, OriginStays, SessionStays,
      BoundStays, ClaimStays, WorkStays, WorkIs, WorkerStays, ShakenStays, TaleStays,
      AsAdministrator
<1>5. n \notin shaken' => CopyInv(n)'
  BY DEF OnPath, CopyInv, Unwritten, BodyDeleted, RowStays, RowIs, ClaimStays, WorkStays,
         WorkIs, WorkerStays, AnswersStay, ShakenStays, TaleStays, AsAdministrator
<1>6. n \notin shaken' \cup hold' => TellInv(n)'
  BY DEF OnPath, TellInv, Unwritten, BodyDeleted, RowStays, RowIs, SessionStays, ClaimStays,
         WorkStays, WorkIs, WorkerStays, AnswersStay, ToldStays, ShakenStays, TaleStays,
         AsAdministrator
<1>7. n \notin shaken' /\ shouldBounce(n) => RefusalInv(n)'
  BY DEF OnPath, RefusalInv, Failures, BodyDeleted, WorkStays, WorkIs, WorkerStays, AnswersStay,
         ToldStays, ShakenStays, TaleStays, AsAdministrator
<1> QED
  BY <1>1, <1>2, <1>3, <1>4, <1>5, <1>6, <1>7 DEF OnPath

\* A body that goes with its domain
LEMMA BodyDroppedKeeps ==
  ASSUME NEW n \in Msg, Sound(n), OnPath(n), BodyDropped(n)
  PROVE  OnPath(n)'
<1>1. EnvelopeInv(n)'
  BY DEF OnPath, EnvelopeInv, BodyDropped, RowStays, RowIs, OriginStays, WorkStays, WorkIs,
         WorkerStays, AnswersStay, ToldStays, TaleStays, AsAdministrator
<1>2. StageInv(n)'
  BY DEF OnPath, StageInv, BodyDropped, WorkStays, WorkIs, WorkerStays, AsAdministrator
<1>3. OwnerInv(n)'
  BY DEF OnPath, OwnerInv, Stored, BodyDropped, RowStays, RowIs, SessionStays, ClaimStays,
         WorkStays, WorkIs, WorkerStays, AsAdministrator
<1>4. BodyInv(n)'
  BY BusyIsOwned
  DEF OnPath, BodyInv, Owned, BodyDropped, RowStays, RowIs, OriginStays, SessionStays,
      DeleteStays, BoundStays, ClaimStays, WorkStays, WorkIs, WorkerStays, ShakenStays,
      TaleStays, AsAdministrator
<1>5. n \notin shaken' => CopyInv(n)'
  BY DEF OnPath, CopyInv, Unwritten, BodyDropped, RowStays, RowIs, ClaimStays, WorkStays,
         WorkIs, WorkerStays, AnswersStay, ShakenStays, TaleStays, AsAdministrator
<1>6. n \notin shaken' \cup hold' => TellInv(n)'
  BY DEF OnPath, TellInv, Unwritten, BodyDropped, RowStays, RowIs, SessionStays, ClaimStays,
         WorkStays, WorkIs, WorkerStays, AnswersStay, ToldStays, ShakenStays, TaleStays,
         AsAdministrator
<1>7. n \notin shaken' /\ shouldBounce(n) => RefusalInv(n)'
  BY DEF OnPath, RefusalInv, Failures, BodyDropped, WorkStays, WorkIs, WorkerStays, AnswersStay,
         ToldStays, ShakenStays, TaleStays, AsAdministrator
<1> QED
  BY <1>1, <1>2, <1>3, <1>4, <1>5, <1>6, <1>7 DEF OnPath

\* A row that goes with its domain leaves no body behind that has a domain
LEMMA RowDroppedKeeps ==
  ASSUME NEW n \in Msg, Sound(n), OnPath(n), RowDropped(n)
  PROVE  OnPath(n)'
<1>1. EnvelopeInv(n)'
  BY DEF OnPath, EnvelopeInv, RowDropped, RowGone, OriginStays, WorkStays, WorkIs, WorkerStays,
         AnswersStay, ToldStays, TaleStays, AsAdministrator
<1>2. StageInv(n)'
  BY DEF OnPath, StageInv, RowDropped, BodyStays, WorkStays, WorkIs, WorkerStays,
         AsAdministrator
<1>3. OwnerInv(n)'
  BY DEF OnPath, OwnerInv, Stored, Settled, RowDropped, RowGone, SessionStays, ClaimStays,
         WorkStays, WorkIs, WorkerStays, AsAdministrator
<1>4. BodyInv(n)'
  BY BusyIsOwned
  DEF OnPath, BodyInv, Owned, RowDropped, RowGone, OriginStays, BodyStays, SessionStays,
      DeleteStays, BoundStays, ClaimStays, WorkStays, WorkIs, WorkerStays, ShakenStays,
      TaleStays, AsAdministrator
<1>5. n \notin shaken' => CopyInv(n)'
  BY DEF OnPath, CopyInv, Unwritten, RowDropped, RowGone, BodyStays, ClaimStays, WorkStays,
         WorkIs, WorkerStays, AnswersStay, ShakenStays, TaleStays, AsAdministrator
<1>6. n \notin shaken' \cup hold' => TellInv(n)'
  BY DEF OnPath, TellInv, Unwritten, RowDropped, RowGone, BodyStays, SessionStays, ClaimStays,
         WorkStays, WorkIs, WorkerStays, AnswersStay, ToldStays, ShakenStays, TaleStays,
         AsAdministrator
<1>7. n \notin shaken' /\ shouldBounce(n) => RefusalInv(n)'
  BY DEF OnPath, RefusalInv, Failures, RowDropped, WorkStays, WorkIs, WorkerStays, AnswersStay,
         ToldStays, ShakenStays, TaleStays, AsAdministrator
<1> QED
  BY <1>1, <1>2, <1>3, <1>4, <1>5, <1>6, <1>7 DEF OnPath

\* A claim takes the recipients of the row, none of whom was served
LEMMA ClaimsKeeps ==
  ASSUME NEW n \in Msg, Sound(n), OnPath(n), Claims(n)
  PROVE  OnPath(n)'
<1>1. EnvelopeInv(n)'
  BY DEF OnPath, EnvelopeInv, Claims, RowIs, OriginStays, WorkIs, AnswersStay, ToldStays,
         TaleStays
<1>2. StageInv(n)'
  BY DEF OnPath, StageInv, Claims, BodyStays, WorkIs
<1>3. OwnerInv(n)'
  BY DEF OnPath, OwnerInv, Stored, Settled, Claims, RowIs, HandsStay, SessionStays, WorkIs
<1>4. BodyInv(n)'
  BY BusyIsOwned
  DEF OnPath, BodyInv, Owned, Pending, Claims, RowIs, OriginStays, BodyStays, HandsStay,
      SessionStays, DeleteStays, BoundStays, WorkIs, ShakenStays, TaleStays
<1>5. n \notin shaken' => CopyInv(n)'
  BY DEF OnPath, CopyInv, Unwritten, StageInv, Claims, RowIs, BodyStays, WorkIs, AnswersStay,
         ShakenStays, TaleStays
<1>6. n \notin shaken' \cup hold' => TellInv(n)'
  BY DEF OnPath, TellInv, Unwritten, StageInv, Claims, RowIs, BodyStays, HandsStay,
         SessionStays, WorkIs, AnswersStay, ToldStays, ShakenStays, TaleStays
<1>7. n \notin shaken' /\ shouldBounce(n) => RefusalInv(n)'
  BY DEF OnPath, RefusalInv, Failures, Claims, WorkIs, AnswersStay, ToldStays, ShakenStays,
         TaleStays
<1> QED
  BY <1>1, <1>2, <1>3, <1>4, <1>5, <1>6, <1>7 DEF OnPath

\* A claim that is given back has no worker
LEMMA GivenBackKeeps ==
  ASSUME NEW n \in Msg, Sound(n), OnPath(n), GivenBack(n)
  PROVE  OnPath(n)'
<1>1. EnvelopeInv(n)'
  BY DEF OnPath, EnvelopeInv, GivenBack, RowIs, OriginStays, WorkStays, WorkIs, WorkerStays,
         AnswersStay, ToldStays, TaleStays, Idles
<1>2. StageInv(n)'
  BY DEF OnPath, StageInv, GivenBack, BodyStays, WorkStays, WorkIs, WorkerStays, Idles
<1>3. OwnerInv(n)'
  BY DEF OnPath, OwnerInv, Stored, Settled, GivenBack, RowIs, HandsStay, SessionStays,
         ClaimStays, Unclaimed, WorkStays, WorkIs, WorkerStays, Idles
<1>4. BodyInv(n)'
  BY BusyIsOwned
  DEF OnPath, BodyInv, Owned, Pending, GivenBack, RowIs, OriginStays, BodyStays, HandsStay,
      SessionStays, DeleteStays, BoundStays, ClaimStays, Unclaimed, WorkStays, WorkIs,
      WorkerStays, ShakenStays, TaleStays, Idles
<1>5. n \notin shaken' => CopyInv(n)'
  BY DEF OnPath, CopyInv, Unwritten, GivenBack, RowIs, BodyStays, ClaimStays, Unclaimed,
         WorkStays, WorkIs, WorkerStays, AnswersStay, ShakenStays, TaleStays, Idles
<1>6. n \notin shaken' \cup hold' => TellInv(n)'
  BY DEF OnPath, TellInv, Unwritten, GivenBack, RowIs, BodyStays, HandsStay, SessionStays,
         ClaimStays, Unclaimed, WorkStays, WorkIs, WorkerStays, AnswersStay, ToldStays,
         ShakenStays, TaleStays, Idles
<1>7. n \notin shaken' /\ shouldBounce(n) => RefusalInv(n)'
  BY DEF OnPath, RefusalInv, Failures, GivenBack, WorkStays, WorkIs, WorkerStays, AnswersStay,
         ToldStays, ShakenStays, TaleStays, Idles
<1> QED
  BY <1>1, <1>2, <1>3, <1>4, <1>5, <1>6, <1>7 DEF OnPath

\* A purged row was settled
LEMMA PurgedKeeps ==
  ASSUME NEW n \in Msg, Sound(n), OnPath(n), Purged(n)
  PROVE  OnPath(n)'
<1>1. EnvelopeInv(n)'
  BY DEF OnPath, EnvelopeInv, Purged, RowGone, OriginStays, WorkStays, WorkIs, WorkerStays,
         AnswersStay, ToldStays, TaleStays, Idles
<1>2. StageInv(n)'
  BY DEF OnPath, StageInv, Purged, BodyStays, WorkStays, WorkIs, WorkerStays, Idles
<1>3. OwnerInv(n)'
  BY DEF OnPath, OwnerInv, Stored, Settled, Purged, RowGone, HandsStay, SessionStays,
         ClaimStays, Unclaimed, WorkStays, WorkIs, WorkerStays, Idles
<1>4. BodyInv(n)'
  BY BusyIsOwned
  DEF OnPath, BodyInv, Owned, Pending, Settled, Purged, RowGone, OriginStays, BodyStays,
      HandsStay, SessionStays, DeleteStays, BoundStays, ClaimStays, Unclaimed, WorkStays,
      WorkIs, WorkerStays, ShakenStays, TaleStays, Idles
<1>5. n \notin shaken' => CopyInv(n)'
  BY DEF OnPath, CopyInv, Unwritten, Purged, RowGone, BodyStays, ClaimStays, Unclaimed,
         WorkStays, WorkIs, WorkerStays, AnswersStay, ShakenStays, TaleStays, Idles
<1>6. n \notin shaken' \cup hold' => TellInv(n)'
  BY DEF OnPath, TellInv, Unwritten, Purged, RowGone, BodyStays, HandsStay, SessionStays,
         ClaimStays, Unclaimed, WorkStays, WorkIs, WorkerStays, AnswersStay, ToldStays,
         ShakenStays, TaleStays, Idles
<1>7. n \notin shaken' /\ shouldBounce(n) => RefusalInv(n)'
  BY DEF OnPath, RefusalInv, Failures, Purged, WorkStays, WorkIs, WorkerStays, AnswersStay,
         ToldStays, ShakenStays, TaleStays, Idles
<1> QED
  BY <1>1, <1>2, <1>3, <1>4, <1>5, <1>6, <1>7 DEF OnPath

\* An expired row was queued
LEMMA ExpiresKeeps ==
  ASSUME NEW n \in Msg, Sound(n), OnPath(n), Expires(n)
  PROVE  OnPath(n)'
<1>1. EnvelopeInv(n)'
  BY DEF OnPath, EnvelopeInv, Expires, RowIs, OriginStays, WorkStays, WorkIs, AnswersStay,
         ToldStays, TaleStays
<1>2. StageInv(n)'
  BY DEF OnPath, StageInv, Expires, BodyStays, WorkStays, WorkIs
<1>3. OwnerInv(n)'
  BY DEF OnPath, OwnerInv, Stored, Settled, Expires, RowIs, HandsStay, SessionStays, Unclaimed,
         WorkStays, WorkIs
<1>4. BodyInv(n)'
  BY BusyIsOwned
  DEF OnPath, BodyInv, Owned, Expires, RowIs, OriginStays, BodyStays, HandsStay, SessionStays,
      DeleteStays, BoundStays, Unclaimed, WorkStays, WorkIs, ShakenStays, TaleStays
<1>5. n \notin shaken' => CopyInv(n)'
  BY DEF OnPath, CopyInv, Unwritten, Expires, RowIs, BodyStays, Unclaimed, WorkStays, WorkIs,
         AnswersStay, ShakenStays, TaleStays
<1>6. n \notin shaken' \cup hold' => TellInv(n)'
  BY DEF OnPath, TellInv, Unwritten, Expires, RowIs, BodyStays, HandsStay, SessionStays,
         Unclaimed, WorkStays, WorkIs, AnswersStay, ToldStays, ShakenStays, TaleStays
<1>7. n \notin shaken' /\ shouldBounce(n) => RefusalInv(n)'
  BY DEF OnPath, RefusalInv, Failures, Expires, WorkStays, WorkIs, AnswersStay, ToldStays,
         ShakenStays, TaleStays
<1> QED
  BY <1>1, <1>2, <1>3, <1>4, <1>5, <1>6, <1>7 DEF OnPath

\* The bounce of an expired message names the recipients of its row
LEMMA ExpiryTakenKeeps ==
  ASSUME NEW n \in Msg, Sound(n), OnPath(n), ExpiryTaken(n)
  PROVE  OnPath(n)'
<1>0. /\ job'[n] \in {"bounce", "unlink"} /\ outcome'[n] = "expired" /\ outcome[n] = "none"
      /\ n \notin shaken' => held'[n] = queue[n].to /\ job[n] = "none"
      /\ shouldBounce(n) /\ n \notin shaken' => job'[n] = "bounce"
  BY DEF ExpiryTaken, WorkIs, ToBounce, AfterBounce, OnPath, StageInv
<1>1. EnvelopeInv(n)'
  BY <1>0
  DEF OnPath, EnvelopeInv, ExpiryTaken, StoreStays, RowStays, RowIs, OriginStays, WorkIs,
      AnswersStay, ToldStays
<1>2. StageInv(n)'
  BY <1>0 DEF OnPath, StageInv, ExpiryTaken, StoreStays, BodyStays, WorkIs
<1>3. OwnerInv(n)'
  BY <1>0
  DEF OnPath, OwnerInv, Stored, ExpiryTaken, StoreStays, RowStays, RowIs, HandsStay,
      SessionStays, Unclaimed, WorkIs
<1>4. BodyInv(n)'
  BY <1>0, BusyIsOwned
  DEF OnPath, BodyInv, Owned, ExpiryTaken, StoreStays, RowStays, RowIs, OriginStays, BodyStays,
      HandsStay, SessionStays, DeleteStays, BoundStays, Unclaimed, WorkIs, ShakenStays
<1>5. n \notin shaken' => CopyInv(n)'
  BY <1>0
  DEF OnPath, CopyInv, Unwritten, ExpiryTaken, StoreStays, RowStays, RowIs, BodyStays,
      Unclaimed, WorkIs, AnswersStay, ShakenStays
<1>6. n \notin shaken' \cup hold' => TellInv(n)'
  BY <1>0
  DEF OnPath, TellInv, Unwritten, OwnerInv, ExpiryTaken, StoreStays, RowStays, RowIs, BodyStays,
      HandsStay, SessionStays, Unclaimed, WorkIs, AnswersStay, ToldStays, ShakenStays
<1>7. n \notin shaken' /\ shouldBounce(n) => RefusalInv(n)'
  BY <1>0
  DEF OnPath, RefusalInv, Failures, ExpiryTaken, WorkIs, AnswersStay, ToldStays, ShakenStays
<1> QED
  BY <1>1, <1>2, <1>3, <1>4, <1>5, <1>6, <1>7 DEF OnPath

\* An abandoned claim is shaken
LEMMA AbandonedKeeps ==
  ASSUME NEW n \in Msg, Sound(n), OnPath(n), Abandoned(n)
  PROVE  OnPath(n)'
<1>1. EnvelopeInv(n)'
  BY DEF OnPath, EnvelopeInv, Abandoned, StoreStays, RowStays, RowIs, OriginStays, WorkStays,
         WorkIs, AnswersStay, ToldStays
<1>2. StageInv(n)'
  BY DEF OnPath, StageInv, Abandoned, StoreStays, BodyStays, WorkStays, WorkIs
<1>3. OwnerInv(n)'
  BY DEF OnPath, OwnerInv, Stored, Abandoned, StoreStays, RowStays, RowIs, HandsStay,
         SessionStays, Unclaimed, WorkStays, WorkIs
<1>4. BodyInv(n)'
  BY BusyIsOwned
  DEF OnPath, BodyInv, Owned, Abandoned, StoreStays, RowStays, RowIs, OriginStays, BodyStays,
      HandsStay, SessionStays, DeleteStays, BoundStays, Unclaimed, WorkStays, WorkIs
<1>5. n \notin shaken' => CopyInv(n)'
  BY DEF OnPath, CopyInv, Unwritten, Abandoned, StoreStays, RowStays, RowIs, BodyStays,
         Unclaimed, WorkStays, WorkIs, AnswersStay
<1>6. n \notin shaken' \cup hold' => TellInv(n)'
  BY DEF OnPath, TellInv, Unwritten, Abandoned, StoreStays, RowStays, RowIs, BodyStays,
         HandsStay, SessionStays, Unclaimed, WorkStays, WorkIs, AnswersStay, ToldStays
<1>7. n \notin shaken' /\ shouldBounce(n) => RefusalInv(n)'
  BY DEF OnPath, RefusalInv, Failures, Abandoned, WorkStays, WorkIs, AnswersStay, ToldStays
<1> QED
  BY <1>1, <1>2, <1>3, <1>4, <1>5, <1>6, <1>7 DEF OnPath

\* What a goroutine owned when the process ends is shaken
LEMMA StopsKeeps ==
  ASSUME NEW n \in Msg, Sound(n), OnPath(n), Stops(n)
  PROVE  OnPath(n)'
<1>0. n \notin shaken' => ~Owned(n)
  BY BusyIsOwned DEF Stops
<1>1. EnvelopeInv(n)'
  BY DEF OnPath, EnvelopeInv, Stops, StoreStays, RowStays, RowIs, OriginStays, WorkIs,
         AnswersStay, ToldStays
<1>2. StageInv(n)'
  BY DEF OnPath, StageInv, Stops, StoreStays, BodyStays, WorkIs
<1>3. OwnerInv(n)'
  BY DEF OnPath, OwnerInv, Stored, Stops, StoreStays, RowStays, RowIs, Unclaimed, WorkIs
<1>4. BodyInv(n)'
  BY BusyIsOwned
  DEF OnPath, BodyInv, Owned, Stops, StoreStays, RowStays, RowIs, OriginStays, BodyStays,
      Unclaimed, WorkIs
<1>5. n \notin shaken' => CopyInv(n)'
  BY <1>0
  DEF OnPath, CopyInv, Unwritten, Owned, StageInv, Stops, StoreStays, RowStays, RowIs,
      BodyStays, Unclaimed, WorkIs, AnswersStay
<1>6. n \notin shaken' \cup hold' => TellInv(n)'
  BY <1>0
  DEF OnPath, TellInv, Unwritten, Owned, StageInv, Stops, StoreStays, RowStays, RowIs,
      BodyStays, Unclaimed, WorkIs, AnswersStay, ToldStays
<1>7. n \notin shaken' /\ shouldBounce(n) => RefusalInv(n)'
  BY <1>0 DEF OnPath, RefusalInv, Failures, Owned, Stops, WorkIs, AnswersStay, ToldStays
<1> QED
  BY <1>1, <1>2, <1>3, <1>4, <1>5, <1>6, <1>7 DEF OnPath

\* A worker begins with what the claim returned
LEMMA BegunKeeps ==
  ASSUME NEW n \in Msg, Sound(n), OnPath(n), Begun(n)
  PROVE  OnPath(n)'
<1>1. EnvelopeInv(n)'
  BY DEF OnPath, EnvelopeInv, Begun, StoreStays, RowStays, RowIs, OriginStays, WorkIs,
         AnswersStay, ToldStays, TaleStays, AtWork
<1>2. StageInv(n)'
  BY DEF OnPath, StageInv, NoParts, Begun, StoreStays, BodyStays, WorkIs, AtWork
<1>3. OwnerInv(n)'
  BY DEF OnPath, OwnerInv, Stored, Begun, StoreStays, RowStays, RowIs, HandsStay, SessionStays,
         Unclaimed, WorkIs, AtWork
<1>4. BodyInv(n)'
  BY BusyIsOwned
  DEF OnPath, BodyInv, Owned, Begun, StoreStays, RowStays, RowIs, OriginStays, BodyStays,
      HandsStay, SessionStays, DeleteStays, BoundStays, Unclaimed, WorkIs, ShakenStays,
      TaleStays, AtWork
<1>5. n \notin shaken' => CopyInv(n)'
  BY DEF OnPath, CopyInv, Unwritten, StageInv, Begun, StoreStays, RowStays, RowIs, BodyStays,
         Unclaimed, WorkIs, AnswersStay, ShakenStays, TaleStays, AtWork
<1>6. n \notin shaken' \cup hold' => TellInv(n)'
  BY DEF OnPath, TellInv, Unwritten, StageInv, Begun, StoreStays, RowStays, RowIs, BodyStays,
         HandsStay, SessionStays, Unclaimed, WorkIs, AnswersStay, ToldStays, ShakenStays,
         TaleStays, AtWork
<1>7. n \notin shaken' /\ shouldBounce(n) => RefusalInv(n)'
  BY DEF OnPath, RefusalInv, Failures, Begun, WorkIs, AnswersStay, ToldStays, ShakenStays,
         TaleStays, AtWork
<1> QED
  BY <1>1, <1>2, <1>3, <1>4, <1>5, <1>6, <1>7 DEF OnPath

\* A lost reply shakes the message; otherwise nobody was served
LEMMA FailedKeeps ==
  ASSUME NEW n \in Msg, Sound(n), OnPath(n), Failed(n)
  PROVE  OnPath(n)'
<1>1. EnvelopeInv(n)'
  BY DEF OnPath, EnvelopeInv, Failed, StoreStays, RowStays, RowIs, OriginStays, WorkIs,
         ToldStays, AtWork, Answers
<1>2. StageInv(n)'
  BY DEF OnPath, StageInv, Failed, StoreStays, BodyStays, WorkIs, AtWork, Answers
<1>3. OwnerInv(n)'
  BY DEF OnPath, OwnerInv, Stored, Failed, StoreStays, RowStays, RowIs, HandsStay, SessionStays,
         ClaimStays, WorkIs, AtWork, Answers
<1>4. BodyInv(n)'
  BY BusyIsOwned
  DEF OnPath, BodyInv, Owned, Failed, StoreStays, RowStays, RowIs, OriginStays, BodyStays,
      HandsStay, SessionStays, DeleteStays, BoundStays, ClaimStays, WorkIs, ShakenStays, AtWork,
      Answers
<1>5. n \notin shaken' => CopyInv(n)'
  BY DEF OnPath, CopyInv, Unwritten, Failed, StoreStays, RowStays, RowIs, BodyStays, ClaimStays,
         WorkIs, ShakenStays, AtWork, Answers
<1>6. n \notin shaken' \cup hold' => TellInv(n)'
  BY DEF OnPath, TellInv, Unwritten, Failed, StoreStays, RowStays, RowIs, BodyStays, HandsStay,
         SessionStays, ClaimStays, WorkIs, ToldStays, ShakenStays, AtWork, Answers
<1>7. n \notin shaken' /\ shouldBounce(n) => RefusalInv(n)'
  BY DEF OnPath, RefusalInv, Failures, Failed, WorkIs, ToldStays, ShakenStays, AtWork, Answers
<1> QED
  BY <1>1, <1>2, <1>3, <1>4, <1>5, <1>6, <1>7 DEF OnPath

\* Those the server refused as a whole are those the bounce names
LEMMA TurnedDownKeeps ==
  ASSUME NEW n \in Msg, Sound(n), OnPath(n), TurnedDown(n)
  PROVE  OnPath(n)'
<1>1. EnvelopeInv(n)'
  BY DEF OnPath, EnvelopeInv, TurnedDown, StoreStays, RowStays, RowIs, OriginStays, WorkIs,
         ToldStays, AtWork, Answers
<1>2. StageInv(n)'
  BY DEF OnPath, StageInv, TurnedDown, StoreStays, BodyStays, WorkIs, AtWork, Answers
<1>3. OwnerInv(n)'
  BY DEF OnPath, OwnerInv, Stored, TurnedDown, StoreStays, RowStays, RowIs, HandsStay,
         SessionStays, ClaimStays, WorkIs, AtWork, Answers
<1>4. BodyInv(n)'
  BY BusyIsOwned
  DEF OnPath, BodyInv, Owned, TurnedDown, StoreStays, RowStays, RowIs, OriginStays, BodyStays,
      HandsStay, SessionStays, DeleteStays, BoundStays, ClaimStays, WorkIs, ShakenStays, AtWork,
      Answers
<1>5. n \notin shaken' => CopyInv(n)'
  BY DEF OnPath, CopyInv, Unwritten, TurnedDown, StoreStays, RowStays, RowIs, BodyStays,
         ClaimStays, WorkIs, ShakenStays, AtWork, Answers
<1>6. n \notin shaken' \cup hold' => TellInv(n)'
  BY DEF OnPath, TellInv, Unwritten, TurnedDown, StoreStays, RowStays, RowIs, BodyStays,
         HandsStay, SessionStays, ClaimStays, WorkIs, ToldStays, ShakenStays, AtWork, Answers
<1>7. n \notin shaken' /\ shouldBounce(n) => RefusalInv(n)'
  BY DEF OnPath, RefusalInv, Failures, TurnedDown, WorkIs, ToldStays, ShakenStays, AtWork,
         Answers
<1> QED
  BY <1>1, <1>2, <1>3, <1>4, <1>5, <1>6, <1>7 DEF OnPath

\* The recipients of an attempt are split, and each is served at most once
LEMMA PartedKeeps ==
  ASSUME NEW n \in Msg, Sound(n), OnPath(n), Parted(n)
  PROVE  OnPath(n)'
<1>0. PICK A \in SUBSET Rcpt, D \in SUBSET Rcpt, R \in SUBSET Rcpt, G \in SUBSET Rcpt :
        SettledIn(n, A, D, R, G)
  BY DEF Parted
<1>p. /\ A \cup D \cup R \subseteq held[n] /\ A \cap (D \cup R) = {} /\ D \cap R = {}
      /\ G \subseteq D /\ outcome'[n] = "parts" /\ held'[n] = held[n]
      /\ parts'[n].acc = A /\ parts'[n].def = D /\ parts'[n].rej = R
      /\ reached'[n] = reached[n] \cup A \cup G /\ refused'[n] = refused[n] \cup R
      /\ twice'[n] = twice[n] \cup ((A \cup G) \cap reached[n])
      /\ G # {} => n \in shaken'
      /\ n \notin shaken' => n \notin shaken
      /\ job'[n] \in {"bounce", "narrow", "mark"}
      /\ job'[n] = "narrow" => D # {}
      /\ job'[n] = "mark" => D = {}
      /\ shouldBounce(n) /\ R # {} => job'[n] = "bounce"
  BY <1>0 DEF SettledIn, Answers, ShakenStays, WorkIs, ToBounce, AfterBounce
<1>f. /\ job[n] = "open" /\ StoreStays(n) /\ HandsStay(n) /\ ToldStays(n) /\ ClaimStays(n)
      /\ outcome[n] = "none" /\ ~Claimed(n) /\ ~Lapsed(n)
  BY DEF Parted, AtWork, OnPath, StageInv, Sound
<1>1. EnvelopeInv(n)'
  BY <1>p, <1>f DEF OnPath, EnvelopeInv, StoreStays, RowStays, RowIs, OriginStays, ToldStays
<1>2. StageInv(n)'
  BY <1>p DEF StageInv
<1>3. OwnerInv(n)'
  BY <1>p, <1>f DEF OnPath, OwnerInv, Stored, StoreStays, RowStays, RowIs, HandsStay, SessionStays, ClaimStays
<1>4. BodyInv(n)'
  BY BusyIsOwned, <1>p DEF BodyInv, Owned
<1>5. n \notin shaken' => CopyInv(n)'
  BY <1>p, <1>f DEF OnPath, CopyInv, OwnerInv, Unwritten, StoreStays, RowStays, RowIs, BodyStays, ClaimStays
<1>6. n \notin shaken' \cup hold' => TellInv(n)'
  BY <1>p, <1>f DEF OnPath, TellInv, OwnerInv, Unwritten, StoreStays, RowStays, RowIs, BodyStays, HandsStay,
                      SessionStays, ToldStays, ClaimStays
<1>7. n \notin shaken' /\ shouldBounce(n) => RefusalInv(n)'
  BY <1>p, <1>f DEF OnPath, RefusalInv, Failures, ToldStays
<1> QED
  BY <1>1, <1>2, <1>3, <1>4, <1>5, <1>6, <1>7 DEF OnPath

\* The row keeps those who are to be tried again
LEMMA NarrowedKeeps ==
  ASSUME NEW n \in Msg, Sound(n), OnPath(n), Narrowed(n)
  PROVE  OnPath(n)'
<1>0. Unclaimed(n)
  BY DEF Sound, Unclaimed, Narrowed
<1>1. EnvelopeInv(n)'
  BY <1>0
  DEF OnPath, EnvelopeInv, StageInv, Narrowed, RowStays, RowIs, OriginStays, WorkIs, WorkGoes,
      AnswersStay, ToldStays, AtRow
<1>2. StageInv(n)'
  BY <1>0 DEF OnPath, StageInv, Narrowed, BodyStays, WorkIs, WorkGoes, AtRow
<1>3. OwnerInv(n)'
  BY <1>0
  DEF OnPath, OwnerInv, Stored, Unclaimed, Narrowed, RowStays, RowIs, HandsStay, SessionStays,
      ClaimStays, WorkIs, WorkGoes, AtRow
<1>4. BodyInv(n)'
  BY <1>0, BusyIsOwned
  DEF OnPath, BodyInv, Owned, Narrowed, RowStays, RowIs, OriginStays, BodyStays, HandsStay,
      SessionStays, DeleteStays, BoundStays, ClaimStays, WorkIs, WorkGoes, ShakenStays, AtRow
<1>5. n \notin shaken' => CopyInv(n)'
  BY <1>0
  DEF OnPath, CopyInv, Unwritten, StageInv, Narrowed, RowStays, RowIs, BodyStays, ClaimStays,
      WorkIs, WorkGoes, AnswersStay, ShakenStays, AtRow
<1>6. n \notin shaken' \cup hold' => TellInv(n)'
  BY <1>0
  DEF OnPath, TellInv, Unwritten, StageInv, Narrowed, RowStays, RowIs, BodyStays, HandsStay,
      SessionStays, ClaimStays, WorkIs, WorkGoes, AnswersStay, ToldStays, ShakenStays, AtRow
<1>7. n \notin shaken' /\ shouldBounce(n) => RefusalInv(n)'
  BY <1>0
  DEF OnPath, RefusalInv, Narrowed, WorkIs, WorkGoes, AnswersStay, ToldStays, ShakenStays, AtRow
<1> QED
  BY <1>1, <1>2, <1>3, <1>4, <1>5, <1>6, <1>7 DEF OnPath

\* A row is due again with those who were deferred
LEMMA RescheduledKeeps ==
  ASSUME NEW n \in Msg, Sound(n), OnPath(n), Rescheduled(n)
  PROVE  OnPath(n)'
<1>0. Unclaimed(n)
  BY DEF Sound, Unclaimed, Rescheduled
<1>1. EnvelopeInv(n)'
  BY <1>0
  DEF OnPath, EnvelopeInv, Rescheduled, RowStays, RowIs, OriginStays, WorkIs, WorkGoes,
      AnswersStay, ToldStays, AtRow
<1>2. StageInv(n)'
  BY <1>0 DEF OnPath, StageInv, Rescheduled, BodyStays, WorkIs, WorkGoes, AtRow
<1>3. OwnerInv(n)'
  BY <1>0
  DEF OnPath, OwnerInv, Stored, Unclaimed, Rescheduled, RowStays, RowIs, HandsStay, SessionStays,
      ClaimStays, WorkIs, WorkGoes, AtRow
<1>4. BodyInv(n)'
  BY <1>0, BusyIsOwned
  DEF OnPath, BodyInv, Owned, Pending, Rescheduled, RowStays, RowIs, OriginStays, BodyStays,
      HandsStay, SessionStays, DeleteStays, BoundStays, ClaimStays, WorkIs, WorkGoes, ShakenStays,
      AtRow
<1>5. n \notin shaken' => CopyInv(n)'
  BY <1>0
  DEF OnPath, CopyInv, Unwritten, Deferred, Rescheduled, RowStays, RowIs, BodyStays, ClaimStays,
      WorkIs, WorkGoes, AnswersStay, ShakenStays, AtRow
<1>6. n \notin shaken' \cup hold' => TellInv(n)'
  <2>1. /\ job'[n] = "none" /\ outcome'[n] = "none" /\ ~Unwritten(n) /\ job[n] = "mark"
        /\ queue[n].status # "delivered" /\ ~Claimed(n)' /\ ToldStays(n) /\ BodyStays(n)
        /\ (n \in hold' <=> n \in hold) /\ reached'[n] = reached[n] /\ queue'[n].to = queue[n].to
        /\ n \notin shaken' => n \notin shaken
    BY <1>0
    DEF OnPath, OwnerInv, Unwritten, Rescheduled, Deferred, AtRow, WorkGoes, WorkIs, RowStays,
        RowIs, ClaimStays, Unclaimed, HandsStay, SessionStays, AnswersStay, ShakenStays, Settled
  <2> QED
    BY <2>1 DEF OnPath, TellInv, ToldStays, BodyStays
<1>7. n \notin shaken' /\ shouldBounce(n) => RefusalInv(n)'
  BY <1>0
  DEF OnPath, RefusalInv, Deferred, Rescheduled, WorkIs, WorkGoes, AnswersStay, ToldStays,
      ShakenStays, AtRow
<1> QED
  BY <1>1, <1>2, <1>3, <1>4, <1>5, <1>6, <1>7 DEF OnPath

\* A delivered row asks for those who have the message
LEMMA CompletedKeeps ==
  ASSUME NEW n \in Msg, Sound(n), OnPath(n), Completed(n)
  PROVE  OnPath(n)'
<1>0. Unclaimed(n)
  BY DEF Sound, Unclaimed, Completed
<1>1. EnvelopeInv(n)'
  BY <1>0
  DEF OnPath, EnvelopeInv, Completed, RowStays, RowIs, OriginStays, WorkIs, WorkGoes, AnswersStay,
      ToldStays, AtRow
<1>2. StageInv(n)'
  BY <1>0 DEF OnPath, StageInv, Done, Completed, BodyStays, WorkIs, WorkGoes, AtRow
<1>3. OwnerInv(n)'
  BY <1>0
  DEF OnPath, OwnerInv, Stored, Unclaimed, Completed, RowStays, RowIs, HandsStay, SessionStays,
      ClaimStays, WorkIs, WorkGoes, AtRow
<1>4. BodyInv(n)'
  BY <1>0, BusyIsOwned
  DEF OnPath, BodyInv, Owned, Completed, RowStays, RowIs, OriginStays, BodyStays, HandsStay,
      SessionStays, DeleteStays, BoundStays, ClaimStays, WorkIs, WorkGoes, ShakenStays, AtRow
<1>5. n \notin shaken' => CopyInv(n)'
  BY <1>0
  DEF OnPath, CopyInv, Unwritten, Completed, RowStays, RowIs, BodyStays, ClaimStays, WorkIs,
      WorkGoes, AnswersStay, ShakenStays, AtRow
<1>6. n \notin shaken' \cup hold' => TellInv(n)'
  BY <1>0
  DEF OnPath, TellInv, Unwritten, Completed, RowStays, RowIs, BodyStays, HandsStay, SessionStays,
      ClaimStays, WorkIs, WorkGoes, AnswersStay, ToldStays, ShakenStays, AtRow
<1>7. n \notin shaken' /\ shouldBounce(n) => RefusalInv(n)'
  BY <1>0
  DEF OnPath, RefusalInv, Done, Completed, WorkIs, WorkGoes, AnswersStay, ToldStays, ShakenStays,
      AtRow
<1> QED
  BY <1>1, <1>2, <1>3, <1>4, <1>5, <1>6, <1>7 DEF OnPath

\* A failed row asks for nobody who has the message
LEMMA GivenUpKeeps ==
  ASSUME NEW n \in Msg, Sound(n), OnPath(n), GivenUp(n)
  PROVE  OnPath(n)'
<1>0. Unclaimed(n)
  BY DEF Sound, Unclaimed, GivenUp
<1>1. EnvelopeInv(n)'
  BY <1>0
  DEF OnPath, EnvelopeInv, GivenUp, RowStays, RowIs, OriginStays, WorkIs, WorkGoes, AnswersStay,
      ToldStays, AtRow
<1>2. StageInv(n)'
  BY <1>0
  DEF OnPath, StageInv, Deferred, ToBounce, AfterBounce, GivenUp, BodyStays, WorkIs, WorkGoes,
      AtRow
<1>3. OwnerInv(n)'
  BY <1>0
  DEF OnPath, OwnerInv, Stored, Unclaimed, ToBounce, AfterBounce, GivenUp, RowStays, RowIs,
      HandsStay, SessionStays, ClaimStays, WorkIs, WorkGoes, AtRow
<1>4. BodyInv(n)'
  BY <1>0, BusyIsOwned
  DEF OnPath, BodyInv, Owned, ToBounce, AfterBounce, StageInv, GivenUp, RowStays, RowIs,
      OriginStays, BodyStays, HandsStay, SessionStays, DeleteStays, BoundStays, ClaimStays,
      WorkIs, WorkGoes, ShakenStays, AtRow
<1>5. n \notin shaken' => CopyInv(n)'
  BY <1>0
  DEF OnPath, CopyInv, Unwritten, ToBounce, AfterBounce, GivenUp, RowStays, RowIs, BodyStays,
      ClaimStays, WorkIs, WorkGoes, AnswersStay, ShakenStays, AtRow
<1>6. n \notin shaken' \cup hold' => TellInv(n)'
  <2>1. /\ ToldStays(n) /\ BodyStays(n) /\ ~Claimed(n)' /\ job[n] = "mark"
        /\ (n \in hold' <=> n \in hold) /\ reached'[n] = reached[n] /\ queue'[n].to = queue[n].to
        /\ n \notin shaken' => n \notin shaken
        /\ queue[n].status # "delivered"
    BY <1>0
    DEF OnPath, OwnerInv, GivenUp, AtRow, RowStays, RowIs, ClaimStays, Unclaimed, HandsStay,
        SessionStays, AnswersStay, ShakenStays, Settled
  <2>2. /\ Unwritten(n) => parts[n].acc = {}
        /\ Unwritten(n) => job'[n] = "unlink"
        /\ outcome'[n] # "none" => outcome'[n] = outcome[n] /\ held'[n] = held[n]
                                  /\ parts'[n] = parts[n]
        /\ job'[n] # "open"
    BY DEF GivenUp, Done, Unwritten, WorkGoes, WorkIs, ToBounce, AfterBounce
  <2> QED
    BY <2>1, <2>2 DEF OnPath, TellInv, ToldStays, BodyStays
<1>7. n \notin shaken' /\ shouldBounce(n) => RefusalInv(n)'
  BY <1>0
  DEF OnPath, RefusalInv, Failures, ToBounce, GivenUp, WorkIs, WorkGoes, AnswersStay, ToldStays,
      ShakenStays, AtRow
<1> QED
  BY <1>1, <1>2, <1>3, <1>4, <1>5, <1>6, <1>7 DEF OnPath

\* The body goes last
LEMMA UnlinkedKeeps ==
  ASSUME NEW n \in Msg, Sound(n), OnPath(n), Unlinked(n)
  PROVE  OnPath(n)'
<1>0. Unclaimed(n)
  BY DEF Sound, Unclaimed, Unlinked
<1>1. EnvelopeInv(n)'
  BY <1>0
  DEF OnPath, EnvelopeInv, Unlinked, RowStays, RowIs, OriginStays, WorkIs, WorkGoes, AnswersStay,
      ToldStays, TaleStays
<1>2. StageInv(n)'
  BY <1>0 DEF OnPath, StageInv, Unlinked, WorkIs, WorkGoes
<1>3. OwnerInv(n)'
  BY <1>0
  DEF OnPath, OwnerInv, Stored, Unclaimed, Unlinked, RowStays, RowIs, HandsStay, SessionStays,
      ClaimStays, WorkIs, WorkGoes
<1>4. BodyInv(n)'
  BY <1>0, BusyIsOwned
  DEF OnPath, BodyInv, Owned, Unlinked, RowStays, RowIs, OriginStays, HandsStay, SessionStays,
      DeleteStays, BoundStays, ClaimStays, WorkIs, WorkGoes, ShakenStays, TaleStays
<1>5. n \notin shaken' => CopyInv(n)'
  BY <1>0
  DEF OnPath, CopyInv, Unwritten, Unlinked, RowStays, RowIs, ClaimStays, WorkIs, WorkGoes,
      AnswersStay, ShakenStays, TaleStays
<1>6. n \notin shaken' \cup hold' => TellInv(n)'
  BY <1>0
  DEF OnPath, TellInv, Unwritten, Unlinked, RowStays, RowIs, HandsStay, SessionStays, ClaimStays,
      WorkIs, WorkGoes, AnswersStay, ToldStays, ShakenStays, TaleStays
<1>7. n \notin shaken' /\ shouldBounce(n) => RefusalInv(n)'
  BY <1>0
  DEF OnPath, RefusalInv, Unlinked, WorkIs, WorkGoes, AnswersStay, ToldStays, ShakenStays,
      TaleStays
<1> QED
  BY <1>1, <1>2, <1>3, <1>4, <1>5, <1>6, <1>7 DEF OnPath

\* The report is in the spool before it is queued
LEMMA ReportingKeeps ==
  ASSUME NEW n \in Msg, Sound(n), OnPath(n), Reporting(n)
  PROVE  OnPath(n)'
<1>0. Unclaimed(n)
  BY DEF Sound, Unclaimed, Reporting
<1>1. EnvelopeInv(n)'
  BY <1>0
  DEF OnPath, EnvelopeInv, Reporting, StoreStays, RowStays, RowIs, OriginStays, WorkIs, WorkGoes,
      AnswersStay, ToldStays, TaleStays
<1>2. StageInv(n)'
  BY <1>0 DEF OnPath, StageInv, Reporting, StoreStays, BodyStays, WorkIs, WorkGoes
<1>3. OwnerInv(n)'
  BY <1>0
  DEF OnPath, OwnerInv, Stored, Reporting, StoreStays, RowStays, RowIs, HandsStay, SessionStays,
      ClaimStays, WorkIs, WorkGoes
<1>4. BodyInv(n)'
  BY <1>0, BusyIsOwned
  DEF OnPath, BodyInv, Owned, Reporting, StoreStays, RowStays, RowIs, OriginStays, BodyStays,
      HandsStay, SessionStays, DeleteStays, BoundStays, ClaimStays, WorkIs, WorkGoes, ShakenStays,
      TaleStays
<1>5. n \notin shaken' => CopyInv(n)'
  BY <1>0
  DEF OnPath, CopyInv, Unwritten, Reporting, StoreStays, RowStays, RowIs, BodyStays, ClaimStays,
      WorkIs, WorkGoes, AnswersStay, ShakenStays, TaleStays
<1>6. n \notin shaken' \cup hold' => TellInv(n)'
  BY <1>0
  DEF OnPath, TellInv, Unwritten, Reporting, StoreStays, RowStays, RowIs, BodyStays, HandsStay,
      SessionStays, ClaimStays, WorkIs, WorkGoes, AnswersStay, ToldStays, ShakenStays, TaleStays
<1>7. n \notin shaken' /\ shouldBounce(n) => RefusalInv(n)'
  BY <1>0
  DEF OnPath, RefusalInv, Failures, Reporting, WorkIs, WorkGoes, AnswersStay, ToldStays,
      ShakenStays, TaleStays
<1> QED
  BY <1>1, <1>2, <1>3, <1>4, <1>5, <1>6, <1>7 DEF OnPath

\* A message whose bounce is lost is shaken
LEMMA UnreportedKeeps ==
  ASSUME NEW n \in Msg, Sound(n), OnPath(n), Unreported(n)
  PROVE  OnPath(n)'
<1>0. Unclaimed(n)
  BY DEF Sound, Unclaimed, Unreported
<1>1. EnvelopeInv(n)'
  BY <1>0
  DEF OnPath, EnvelopeInv, Unreported, StoreStays, RowStays, RowIs, OriginStays, WorkIs, WorkGoes,
      AnswersStay, ToldStays
<1>2. StageInv(n)'
  BY <1>0 DEF OnPath, StageInv, AfterBounce, Unreported, StoreStays, BodyStays, WorkIs, WorkGoes
<1>3. OwnerInv(n)'
  BY <1>0
  DEF OnPath, OwnerInv, Stored, Unclaimed, AfterBounce, Unreported, StoreStays, RowStays, RowIs,
      HandsStay, SessionStays, ClaimStays, WorkIs, WorkGoes
<1>4. BodyInv(n)'
  BY <1>0, BusyIsOwned
  DEF OnPath, BodyInv, Owned, Unreported, StoreStays, RowStays, RowIs, OriginStays, BodyStays,
      HandsStay, SessionStays, DeleteStays, BoundStays, ClaimStays, WorkIs, WorkGoes
<1>5. n \notin shaken' => CopyInv(n)'
  BY <1>0
  DEF OnPath, CopyInv, Unwritten, Unreported, StoreStays, RowStays, RowIs, BodyStays, ClaimStays,
      WorkIs, WorkGoes, AnswersStay
<1>6. n \notin shaken' \cup hold' => TellInv(n)'
  BY <1>0
  DEF OnPath, TellInv, Unwritten, Unreported, StoreStays, RowStays, RowIs, BodyStays, HandsStay,
      SessionStays, ClaimStays, WorkIs, WorkGoes, AnswersStay, ToldStays
<1>7. n \notin shaken' /\ shouldBounce(n) => RefusalInv(n)'
  BY <1>0 DEF OnPath, RefusalInv, Unreported, WorkIs, WorkGoes, AnswersStay, ToldStays
<1> QED
  BY <1>1, <1>2, <1>3, <1>4, <1>5, <1>6, <1>7 DEF OnPath

\* Those who are told were refused or given up, and are not asked for again
LEMMA ReportedKeeps ==
  ASSUME NEW n \in Msg, Sound(n), OnPath(n), Reported(n)
  PROVE  OnPath(n)'
<1>0. Unclaimed(n)
  BY DEF Sound, Unclaimed, Reported
<1>1. EnvelopeInv(n)'
  BY <1>0
  DEF OnPath, EnvelopeInv, Failures, StageInv, Reported, StoreStays, RowStays, RowIs, OriginStays,
      WorkIs, WorkGoes, AnswersStay
<1>2. StageInv(n)'
  BY <1>0 DEF OnPath, StageInv, AfterBounce, Reported, StoreStays, BodyStays, WorkIs, WorkGoes
<1>3. OwnerInv(n)'
  BY <1>0
  DEF OnPath, OwnerInv, Stored, Unclaimed, AfterBounce, Reported, StoreStays, RowStays, RowIs,
      HandsStay, SessionStays, ClaimStays, WorkIs, WorkGoes
<1>4. BodyInv(n)'
  BY <1>0, BusyIsOwned
  DEF OnPath, BodyInv, Owned, AfterBounce, StageInv, Reported, StoreStays, RowStays, RowIs,
      OriginStays, BodyStays, HandsStay, SessionStays, DeleteStays, BoundStays, ClaimStays,
      WorkIs, WorkGoes, ShakenStays
<1>5. n \notin shaken' => CopyInv(n)'
  BY <1>0
  DEF OnPath, CopyInv, Unwritten, AfterBounce, Reported, StoreStays, RowStays, RowIs, BodyStays,
      ClaimStays, WorkIs, WorkGoes, AnswersStay, ShakenStays
<1>6. n \notin shaken' \cup hold' => TellInv(n)'
  <2>1. /\ RowStays(n) /\ BodyStays(n) /\ ~Claimed(n)' /\ job[n] = "report" /\ ShakenStays(n)
        /\ (n \in hold' <=> n \in hold) /\ reached'[n] = reached[n]
        /\ told'[n] = told[n] \cup Failures(n)
    BY <1>0 DEF Reported, StoreStays, HandsStay, ClaimStays, Unclaimed, SessionStays, AnswersStay
  <2>2. CASE outcome[n] = "parts"
    <3>1. /\ Failures(n) = parts[n].rej /\ job'[n] \in {"narrow", "mark"} /\ Unwritten(n)'
          /\ outcome'[n] = "parts" /\ parts'[n] = parts[n] /\ parts[n].def \cap parts[n].rej = {}
          /\ Unwritten(n)
      BY <2>1, <2>2
      DEF Reported, Failures, AfterBounce, WorkGoes, WorkIs, Unwritten, OnPath, StageInv
    <3>2. ASSUME n \notin shaken' \cup hold' PROVE TellInv(n)'
      <4>1. TellInv(n)
        BY <2>1, <3>2 DEF OnPath, ShakenStays
      <4>2. told'[n] \cap reached'[n] = {} /\ parts'[n].def \cap told'[n] = {}
            /\ (parts'[n].rej \cup parts'[n].def) \cap reached'[n] = {}
        BY <2>1, <2>2, <3>1, <4>1 DEF TellInv
      <4> QED
        BY <2>1, <3>1, <4>1, <4>2 DEF TellInv, RowStays, RowIs
    <3> QED
      BY <3>2
  <2>3. CASE outcome[n] # "parts"
    <3>1. /\ Failures(n) = held[n] /\ job'[n] \in {"none", "unlink"} /\ ~Unwritten(n)
          /\ outcome[n] \in {"permanent", "lost", "expired"}
          /\ job'[n] = "none" => n \notin spool /\ outcome'[n] = "none"
          /\ job'[n] = "unlink" => outcome'[n] = outcome[n] /\ held'[n] = held[n]
      BY <2>1, <2>3
      DEF Reported, Failures, AfterBounce, WorkGoes, WorkIs, Unwritten, OnPath, StageInv, Sound,
          Outcome
    <3> QED
      BY <2>1, <3>1 DEF OnPath, TellInv, RowStays, RowIs, BodyStays, ShakenStays, Unwritten
  <2> QED
    BY <2>2, <2>3
<1>7. n \notin shaken' /\ shouldBounce(n) => RefusalInv(n)'
  BY <1>0 DEF OnPath, RefusalInv, Reported, WorkIs, WorkGoes, AnswersStay, ShakenStays
<1> QED
  BY <1>1, <1>2, <1>3, <1>4, <1>5, <1>6, <1>7 DEF OnPath

\* The body of a report belongs to the worker that queues it
LEMMA ReportSpooledKeeps ==
  ASSUME NEW n \in Msg, Sound(n), OnPath(n), ReportSpooled(n)
  PROVE  OnPath(n)'
<1>0. rcpts[n] = {} /\ queue[n].to = {} /\ reached[n] = {} /\ refused[n] = {} /\ told[n] = {}
      /\ held[n] = {} /\ job[n] = "none" /\ outcome[n] = "none" /\ Unclaimed(n)
  BY DEF OnPath, EnvelopeInv, StageInv, ReportStays, Known, ReportSpooled
<1>1. EnvelopeInv(n)'
  BY <1>0
  DEF OnPath, EnvelopeInv, ReportSpooled, RowStays, RowIs, OriginStays, WorkStays, WorkIs,
      WorkerStays, AnswersStay, ToldStays, TaleStays, ReportStays
<1>2. StageInv(n)'
  BY <1>0 DEF OnPath, StageInv, ReportSpooled, WorkStays, WorkIs, WorkerStays, ReportStays
<1>3. OwnerInv(n)'
  BY <1>0
  DEF OnPath, OwnerInv, Stored, Unclaimed, ReportSpooled, RowStays, RowIs, SessionStays,
      ClaimStays, WorkStays, WorkIs, WorkerStays, ReportStays
<1>4. BodyInv(n)'
  BY <1>0, BusyIsOwned
  DEF OnPath, BodyInv, Owned, ReportSpooled, RowStays, RowIs, OriginStays, SessionStays,
      DeleteStays, ClaimStays, Unclaimed, WorkStays, WorkIs, WorkerStays, ShakenStays,
      TaleStays, ReportStays
<1>5. n \notin shaken' => CopyInv(n)'
  BY <1>0
  DEF OnPath, CopyInv, Unwritten, ReportSpooled, RowStays, RowIs, ClaimStays, Unclaimed,
      WorkStays, WorkIs, WorkerStays, AnswersStay, ShakenStays, TaleStays, ReportStays
<1>6. n \notin shaken' \cup hold' => TellInv(n)'
  BY <1>0
  DEF OnPath, TellInv, Unwritten, ReportSpooled, RowStays, RowIs, SessionStays, ClaimStays,
      Unclaimed, WorkStays, WorkIs, WorkerStays, AnswersStay, ToldStays, ShakenStays, TaleStays,
      ReportStays
<1>7. n \notin shaken' /\ shouldBounce(n) => RefusalInv(n)'
  BY <1>0
  DEF OnPath, RefusalInv, Failures, ReportSpooled, WorkStays, WorkIs, WorkerStays, AnswersStay,
      ToldStays, ShakenStays, TaleStays, ReportStays
<1> QED
  BY <1>1, <1>2, <1>3, <1>4, <1>5, <1>6, <1>7 DEF OnPath

\* A report is a new row
LEMMA ReportQueuedKeeps ==
  ASSUME NEW n \in Msg, Sound(n), OnPath(n), ReportQueued(n)
  PROVE  OnPath(n)'
<1>0. rcpts[n] = {} /\ queue[n].to = {} /\ reached[n] = {} /\ refused[n] = {} /\ told[n] = {}
      /\ held[n] = {} /\ job[n] = "none" /\ outcome[n] = "none" /\ Unclaimed(n)
  BY DEF OnPath, EnvelopeInv, StageInv, ReportStays, Known, ReportQueued
<1>1. EnvelopeInv(n)'
  BY <1>0
  DEF OnPath, EnvelopeInv, ReportQueued, WorkStays, WorkIs, WorkerStays, AnswersStay, ToldStays,
      TaleStays, ReportStays
<1>2. StageInv(n)'
  BY <1>0 DEF OnPath, StageInv, ReportQueued, WorkStays, WorkIs, WorkerStays, ReportStays
<1>3. OwnerInv(n)'
  BY <1>0
  DEF OnPath, OwnerInv, Stored, Unclaimed, Sound, IdInv, ReportQueued, SessionStays, ClaimStays,
      WorkStays, WorkIs, WorkerStays, ReportStays
<1>4. BodyInv(n)'
  BY <1>0, BusyIsOwned
  DEF OnPath, BodyInv, Owned, Pending, ReportQueued, SessionStays, DeleteStays, ClaimStays,
      Unclaimed, WorkStays, WorkIs, WorkerStays, ShakenStays, TaleStays, ReportStays
<1>5. n \notin shaken' => CopyInv(n)'
  BY <1>0
  DEF OnPath, CopyInv, Unwritten, ReportQueued, ClaimStays, Unclaimed, WorkStays, WorkIs,
      WorkerStays, AnswersStay, ShakenStays, TaleStays, ReportStays
<1>6. n \notin shaken' \cup hold' => TellInv(n)'
  BY <1>0
  DEF OnPath, TellInv, Unwritten, ReportQueued, SessionStays, ClaimStays, Unclaimed, WorkStays,
      WorkIs, WorkerStays, AnswersStay, ToldStays, ShakenStays, TaleStays, ReportStays
<1>7. n \notin shaken' /\ shouldBounce(n) => RefusalInv(n)'
  BY <1>0
  DEF OnPath, RefusalInv, Failures, ReportQueued, WorkStays, WorkIs, WorkerStays, AnswersStay,
      ToldStays, ShakenStays, TaleStays, ReportStays
<1> QED
  BY <1>1, <1>2, <1>3, <1>4, <1>5, <1>6, <1>7 DEF OnPath

\* A report that is not queued goes
LEMMA ReportDroppedKeeps ==
  ASSUME NEW n \in Msg, Sound(n), OnPath(n), ReportDropped(n)
  PROVE  OnPath(n)'
<1>0. rcpts[n] = {} /\ queue[n].to = {} /\ reached[n] = {} /\ refused[n] = {} /\ told[n] = {}
      /\ held[n] = {} /\ job[n] = "none" /\ outcome[n] = "none" /\ Unclaimed(n)
  BY DEF OnPath, EnvelopeInv, StageInv, ReportStays, Known, ReportDropped
<1>1. EnvelopeInv(n)'
  BY <1>0
  DEF OnPath, EnvelopeInv, ReportDropped, RowStays, RowIs, OriginStays, WorkStays, WorkIs,
      WorkerStays, AnswersStay, ToldStays, TaleStays, ReportStays
<1>2. StageInv(n)'
  BY <1>0 DEF OnPath, StageInv, ReportDropped, WorkStays, WorkIs, WorkerStays, ReportStays
<1>3. OwnerInv(n)'
  BY <1>0
  DEF OnPath, OwnerInv, Stored, Unclaimed, ReportDropped, RowStays, RowIs, SessionStays,
      ClaimStays, WorkStays, WorkIs, WorkerStays, ReportStays
<1>4. BodyInv(n)'
  BY <1>0, BusyIsOwned
  DEF OnPath, BodyInv, Owned, ReportDropped, RowStays, RowIs, OriginStays, SessionStays,
      DeleteStays, ClaimStays, Unclaimed, WorkStays, WorkIs, WorkerStays, ShakenStays,
      TaleStays, ReportStays
<1>5. n \notin shaken' => CopyInv(n)'
  BY <1>0
  DEF OnPath, CopyInv, Unwritten, ReportDropped, RowStays, RowIs, ClaimStays, Unclaimed,
      WorkStays, WorkIs, WorkerStays, AnswersStay, ShakenStays, TaleStays, ReportStays
<1>6. n \notin shaken' \cup hold' => TellInv(n)'
  BY <1>0
  DEF OnPath, TellInv, Unwritten, ReportDropped, RowStays, RowIs, SessionStays, ClaimStays,
      Unclaimed, WorkStays, WorkIs, WorkerStays, AnswersStay, ToldStays, ShakenStays, TaleStays,
      ReportStays
<1>7. n \notin shaken' /\ shouldBounce(n) => RefusalInv(n)'
  BY <1>0
  DEF OnPath, RefusalInv, Failures, ReportDropped, WorkStays, WorkIs, WorkerStays, AnswersStay,
      ToldStays, ShakenStays, TaleStays, ReportStays
<1> QED
  BY <1>1, <1>2, <1>3, <1>4, <1>5, <1>6, <1>7 DEF OnPath

-----------------------------------------------------------------------------
(* The bounce under way.                                                   *)

\* A worker leaves the report it wrote to the spool only by queueing it or
\* removing it: dsn goes with the job
LEMMA ReportKept ==
  ASSUME TypeOK, MailInv, \A n \in Msg : ReportInv(n), [Next]_vars
  PROVE  \A n \in Msg : ReportInv(n)'
<1>t. Typed /\ batch \cap Working = {} /\ \A n \in batch : job[n] = "none"
  BY TypedState DEF MailInv, LoopInv, Typed, Working
<1>s. ASSUME UNCHANGED <<job, dsn>> PROVE \A n \in Msg : ReportInv(n)'
  BY <1>s DEF ReportInv
\* one worker that had no report yet
<1>o. ASSUME NEW m \in Msg, job[m] # "report", UNCHANGED dsn, NEW j, job' = [job EXCEPT ![m] = j]
      PROVE  \A n \in Msg : ReportInv(n)'
  BY <1>o, <1>t DEF ReportInv, Typed
<1>1. CASE IntakeNext \/ AdminNext \/ Signal \/ EnvNext \/ UNCHANGED vars
  BY <1>1, <1>s DEF IntakeNext, AdminNext, Signal, Shutdown, EnvNext, PrimaryFlips, BackoffElapses,
                    RetentionElapses, EnvRest, senderVars, vars
<1>2. CASE Stop
  BY <1>2 DEF Stop, SenderStop, ReportInv
<1>3. ASSUME NEW m \in Msg, Attempt(m) \/ ExpireOne(m) PROVE \A n \in Msg : ReportInv(n)'
  <2> DEFINE Steps == job[m] # "report" /\ UNCHANGED dsn /\ \E j : job' = [job EXCEPT ![m] = j]
  <2>1. ASSUME Begin(m) PROVE Steps
    BY <1>t, <2>1 DEF Begin, Take
  <2>2. ASSUME ExpireOne(m) PROVE Steps
    BY <1>t, <2>2 DEF ExpireOne
  <2>3. ASSUME NEW G \in SUBSET held[m], AttemptFails(m, G) PROVE Steps
    BY <2>3 DEF AttemptFails, Ending
  <2>4. ASSUME AttemptRefused(m) PROVE Steps
    BY <2>4 DEF AttemptRefused, Ending
  <2>5. ASSUME NEW A \in SUBSET held[m], NEW D \in SUBSET held[m], NEW R \in SUBSET held[m],
               NEW U \in SUBSET held[m], NEW G \in SUBSET held[m], AttemptSettles(m, A, D, R, U, G)
        PROVE  Steps
    BY <2>5 DEF AttemptSettles, Ending
  <2>6. Steps
    BY <1>3, <2>1, <2>2, <2>3, <2>4, <2>5 DEF Attempt
  <2> QED
    BY <1>o, <2>6
<1>4. ASSUME NEW m \in Msg, Wrapup(m) PROVE \A n \in Msg : ReportInv(n)'
  <2>1. CASE Narrow(m) \/ MarkDeferred(m) \/ MarkDone(m) \/ MarkGivenUp(m) \/ Unlink(m)
    <3>1. job[m] # "report" /\ UNCHANGED dsn /\ \E j : job' = [job EXCEPT ![m] = j]
      BY <2>1 DEF Narrow, MarkDeferred, MarkDone, MarkGivenUp, Unlink, GoTo
    <3> QED
      BY <1>o, <3>1
  <2>2. CASE BouncePut(m)
    <3>1. job[m] = "bounce" /\ dsn[m] = {} /\ \E j : GoTo(m, j)
      BY <2>2 DEF BouncePut, ReportInv
    <3>2. CASE UNCHANGED dsn
      BY <1>o, <3>1, <3>2 DEF GoTo
    <3>3. ASSUME NEW b \in DsnMsg, dsn' = [dsn EXCEPT ![m] = {b}], GoTo(m, "report")
          PROVE  \A n \in Msg : ReportInv(n)'
      BY <1>t, <3>3 DEF ReportInv, Typed, GoTo
    <3> QED
      BY <2>2, <3>2, <3>3 DEF BouncePut
  <2>3. CASE BounceEnqueue(m)
    <3>1. dsn' = [dsn EXCEPT ![m] = {}] /\ \E j : job' = [job EXCEPT ![m] = j]
      BY <2>3 DEF BounceEnqueue, GoTo
    <3> QED
      BY <1>t, <3>1 DEF ReportInv, Typed
  <2> QED
    BY <1>4, <2>1, <2>2, <2>3 DEF Wrapup
<1>5. CASE SenderNext
  <2>1. CASE \/ Start \/ Wake \/ ClaimInbound \/ ClaimOutbound \/ BatchDone
             \/ MaintainExpire \/ ExpireDone \/ MaintainRelease \/ MaintainPurge
             \/ \E m \in Msg : Abandon(m)
    BY <2>1, <1>s DEF Start, Wake, ClaimInbound, ClaimOutbound, BatchDone, MaintainExpire,
                      ExpireDone, MaintainRelease, MaintainPurge, Abandon
  <2> QED
    BY <1>5, <2>1, <1>3, <1>4 DEF SenderNext, SenderStep
<1> QED
  BY <1>1, <1>2, <1>5 DEF Next

-----------------------------------------------------------------------------
(* PathInv is inductive.                                                   *)

\* A step, seen from each message, is one of the moves
Moved(n) ==
  \/ Still(n) \/ Moves(n) \/ Reporting(n) \/ Reported(n) \/ Unreported(n)
  \/ ReportSpooled(n) \/ ReportQueued(n) \/ ReportDropped(n)
  \/ BodyDropped(n) \/ RowDropped(n) \/ Claims(n) \/ GivenBack(n) \/ Purged(n) \/ Expires(n)
  \/ Stops(n)

\* Every message moves by one of the moves above
LEMMA EveryMessageMoves ==
  ASSUME TypeOK, MailInv, PathInv, [Next]_vars, NEW n \in Msg
  PROVE  Moved(n)
BY StepShape DEF Moved, Alone, WithReport, AllMove

\* Every move keeps a message on its path
LEMMA MovedKeeps ==
  ASSUME NEW n \in Msg, Sound(n), OnPath(n), Moved(n)
  PROVE  OnPath(n)'
<1>1. CASE Moves(n)
  BY <1>1, SpoolsKeeps, RefusesKeeps, AcceptsKeeps, IsHeldKeeps, RetriedKeeps, ReleasedKeeps,
     DeleteGoesKeeps, RowDeletedKeeps, BodyDeletedKeeps, ExpiryTakenKeeps, AbandonedKeeps,
     BegunKeeps, FailedKeeps, TurnedDownKeeps, PartedKeeps, NarrowedKeeps, RescheduledKeeps,
     CompletedKeeps, GivenUpKeeps, UnlinkedKeeps, UnreportedKeeps
  DEF Moves
<1> QED
  BY <1>1, StillKeeps, ReportingKeeps, ReportedKeeps, UnreportedKeeps, ReportSpooledKeeps,
     ReportQueuedKeeps, ReportDroppedKeeps, BodyDroppedKeeps, RowDroppedKeeps, ClaimsKeeps,
     GivenBackKeeps, PurgedKeeps, ExpiresKeeps, StopsKeeps
  DEF Moved

\* TypeOK and MailInv say that every message is sound
LEMMA AllSound == TypeOK /\ MailInv => \A n \in Msg : Sound(n)
<1> SUFFICES ASSUME TypeOK, MailInv, NEW n \in Msg PROVE Sound(n)
  OBVIOUS
<1>1. IdInv(n) /\ batch \cap Working = {}
  BY DEF MailInv, LoopInv
<1>2. outcome[n] \in Outcome /\ queue[n] \in Row
  BY TypedState DEF Typed, StoreTypeOK
<1> QED
  BY <1>1, <1>2 DEF Sound, Claimed, Lapsed, Working, Row

\* A step of the mail path keeps every message on its path
LEMMA NextKeepsPath == TypeOK /\ MailInv /\ PathInv /\ [Next]_vars => PathInv'
<1> SUFFICES ASSUME TypeOK, MailInv, PathInv, [Next]_vars PROVE PathInv'
  OBVIOUS
<1>1. \A n \in Msg : ReportInv(n)'
  BY ReportKept DEF PathInv
<1>2. ASSUME NEW n \in Msg PROVE OnPath(n)'
  <2>1. OnPath(n)
    BY DEF PathInv
  <2> QED
    BY <2>1, AllSound, EveryMessageMoves, MovedKeeps
<1> QED
  BY <1>1, <1>2 DEF PathInv

\* At first nobody has a message
LEMMA InitOnPath == Init => PathInv
<1> SUFFICES ASSUME Init, NEW n \in Msg PROVE ReportInv(n) /\ OnPath(n)
  BY DEF PathInv
<1>0. /\ queue[n] = NoRow /\ n \notin spool /\ rcpts[n] = {} /\ session[n] = "none"
      /\ n \notin batch /\ job[n] = "none" /\ outcome[n] = "none" /\ held[n] = {} /\ dsn[n] = {}
      /\ reached[n] = {} /\ twice[n] = {} /\ refused[n] = {} /\ told[n] = {}
  BY DEF Init, StoreInit, IntakeInit, SenderInit, AdminInit
<1> QED
  BY <1>0 DEF ReportInv, OnPath, EnvelopeInv, StageInv, OwnerInv, BodyInv, CopyInv, TellInv,
              RefusalInv, Claimed, Lapsed, Stored, NoRow

\* Wherever the work on a message is, its row, its worker, its body and what its
\* recipients got agree: PathInv is an invariant of the mail path.
THEOREM PathInvariant == Spec => []PathInv
<1>1. TypeOK /\ MailInv /\ PathInv /\ [Next]_vars => PathInv'
  BY NextKeepsPath
<1> QED
  BY InitOnPath, TypeCorrect, MailInvariant, <1>1, PTL DEF Spec

-----------------------------------------------------------------------------
(* What follows from it.                                                   *)

\* No recipient is sent a second copy unless the process ended, a reply was lost
\* or a statement failed on the message: twice stays empty on the path.
THEOREM CopiesAreSingle == Spec => []NoSecondCopy
<1>1. PathInv => NoSecondCopy
  BY DEF PathInv, OnPath, CopyInv, NoSecondCopy
<1> QED
  BY PathInvariant, <1>1, PTL

\* A bounce names nobody who has the message, unless it was shaken or claimed
\* before its quarantine was written.
THEOREM BouncesTrue == Spec => []BouncesAreTrue
<1>1. PathInv => BouncesAreTrue
  BY DEF PathInv, OnPath, TellInv, BouncesAreTrue
<1> QED
  BY PathInvariant, <1>1, PTL

\* Once nobody works on a message whose sender is to be told, everybody who was
\* refused was named in a bounce that was queued.
THEOREM RefusalsTold == Spec => []RefusalsAreTold
<1>1. PathInv => RefusalsAreTold
  BY DEF PathInv, OnPath, RefusalInv, RefusalsAreTold
<1> QED
  BY PathInvariant, <1>1, PTL

\* No body stays in the spool with nothing to remove it, unless the process ended
\* or a write failed on it, or its domain went.
THEOREM BodiesOwned == Spec => []NoOrphanBody
<1>1. TypeOK /\ PathInv => NoOrphanBody
  <2> SUFFICES ASSUME TypeOK, PathInv, NEW m \in spool
               PROVE  \/ queue[m].status \in Pending \/ Busy(m) \/ m \in shaken
                      \/ ~domain[home[m]].exists
    BY DEF NoOrphanBody
  <2>1. m \in Msg
    BY DEF TypeOK, StoreTypeOK
  <2> QED
    BY <2>1 DEF PathInv, OnPath, BodyInv
<1> QED
  BY TypeCorrect, PathInvariant, <1>1, PTL

\* Only a retry or a release of an administrator makes a settled row pending
\* again: a worker writes to a row it owns, a claim takes queued rows, and claim
\* recovery takes rows in delivery.
LEMMA SettledMove ==
  ASSUME NEW n \in Msg, Sound(n), OnPath(n), Moved(n),
         queue[n].status \in Settled, queue'[n].status \in Pending
  PROVE  RetryMessage(n) \/ ReleaseMessage(n)
<1>0. Stored(n) /\ Known(n) /\ session[n] # "spooled" /\ queue[n].status \notin Pending
  BY DEF Settled, Pending, Stored, Sound, IdInv
<1>1. queue'[n].status # queue[n].status /\ queue'[n].status # "absent"
      /\ queue'[n].status \notin Settled
  BY <1>0 DEF Settled, Pending
<1>2. job[n] \in {"narrow", "mark"} => FALSE
  BY DEF OnPath, OwnerInv
<1>3. ~Still(n) /\ ~Reporting(n) /\ ~Reported(n) /\ ~Unreported(n) /\ ~Stops(n)
  BY <1>1 DEF Still, Reporting, Reported, Unreported, Stops, StoreStays, RowStays, RowIs
<1>4. ~ReportSpooled(n) /\ ~ReportQueued(n) /\ ~ReportDropped(n)
  BY <1>0 DEF ReportSpooled, ReportQueued, ReportDropped, ReportStays
<1>5. /\ ~BodyDropped(n) /\ ~RowDropped(n) /\ ~Claims(n) /\ ~GivenBack(n) /\ ~Purged(n)
      /\ ~Expires(n)
  BY <1>0, <1>1 DEF BodyDropped, RowDropped, Claims, GivenBack, Purged, Expires, RowStays, RowIs,
                    RowGone, Settled, Pending
<1>6. CASE Moves(n)
  <2>1. /\ ~Spools(n) /\ ~Refuses(n) /\ ~Accepts(n) /\ ~IsHeld(n) /\ ~DeleteGoes(n)
        /\ ~RowDeleted(n) /\ ~BodyDeleted(n) /\ ~Unlinked(n)
    BY <1>0, <1>1 DEF Spools, Refuses, Accepts, IsHeld, DeleteGoes, RowDeleted, BodyDeleted,
                      Unlinked, RowStays, RowIs, RowGone
  <2>2. /\ ~ExpiryTaken(n) /\ ~Abandoned(n) /\ ~Begun(n) /\ ~Failed(n) /\ ~TurnedDown(n)
        /\ ~Parted(n)
    BY <1>1 DEF ExpiryTaken, Abandoned, Begun, Failed, TurnedDown, Parted, AtWork, StoreStays,
                RowStays, RowIs
  <2>3. ~Narrowed(n) /\ ~Rescheduled(n) /\ ~Completed(n) /\ ~GivenUp(n)
    BY <1>2 DEF Narrowed, Rescheduled, Completed, GivenUp
  <2> QED
    BY <1>3, <1>6, <2>1, <2>2, <2>3 DEF Moves, Retried, Released
<1> QED
  BY <1>3, <1>4, <1>5, <1>6 DEF Moved

\* No late write of a worker, no claim recovery and no restart revives a settled
\* row: it is pending again only because an administrator asked.
THEOREM SettledRowsStay == Spec => SettledStays
<1>1. TypeOK /\ MailInv /\ PathInv /\ [Next]_vars =>
        [\A m \in Msg : queue[m].status \in Settled /\ queue'[m].status \in Pending
                          => RetryMessage(m) \/ ReleaseMessage(m)]_vars
  <2> SUFFICES ASSUME TypeOK, MailInv, PathInv, [Next]_vars, NEW m \in Msg,
                      queue[m].status \in Settled, queue'[m].status \in Pending
               PROVE  RetryMessage(m) \/ ReleaseMessage(m)
    OBVIOUS
  <2>1. Sound(m) /\ OnPath(m) /\ Moved(m)
    BY AllSound, EveryMessageMoves DEF PathInv
  <2> QED
    BY <2>1, SettledMove
<1> QED
  BY TypeCorrect, MailInvariant, PathInvariant, <1>1, PTL DEF Spec, SettledStays

-----------------------------------------------------------------------------
(* The mail path implements MailService: each of the moves is a step       *)
(* of the service for its message, or nothing the service promises changes.*)

OwedTo(n) == IF queue[n].status \in Pending /\ n \in spool THEN queue[n].to ELSE {}

EnvelopeStays(n) == rcpts'[n] = rcpts[n]
AnsweredStays(n) == reached'[n] = reached[n] /\ refused'[n] = refused[n]

Quiet(n) == EnvelopeStays(n) /\ OwedTo(n)' = OwedTo(n) /\ AnsweredStays(n) /\ FateStays(n)

\* The five steps of the service, for message n
TakesOn(n) ==
  /\ rcpts[n] = {} /\ rcpts'[n] # {} /\ rcpts'[n] \subseteq Rcpt /\ OwedTo(n)' = rcpts'[n]
  /\ AnsweredStays(n) /\ FateStays(n)

Hears(n) ==
  /\ \E T, N \in SUBSET rcpts[n] : /\ reached'[n] = reached[n] \cup T
                                   /\ refused'[n] = refused[n] \cup N
  /\ EnvelopeStays(n) /\ OwedTo(n)' = OwedTo(n) /\ FateStays(n)

Settles(n) ==
  /\ OwedTo(n)' \subseteq OwedTo(n)
  /\ OwedTo(n) \ OwedTo(n)' \subseteq reached[n] \cup refused[n] \/ n \in writtenOff
  /\ EnvelopeStays(n) /\ AnsweredStays(n) /\ FateStays(n)

Revives(n) ==
  /\ OwedTo(n) = {} /\ OwedTo(n)' \subseteq rcpts[n]
  /\ EnvelopeStays(n) /\ AnsweredStays(n) /\ FateStays(n)

Drops(n) ==
  /\ rcpts[n] # {} /\ n \in writtenOff' /\ OwedTo(n)' = {}
  /\ EnvelopeStays(n) /\ AnsweredStays(n)

-----------------------------------------------------------------------------
(* A step of the service from what its messages see.                       *)

\* What the mapping shows of one message
LEMMA MappedState ==
  \A n \in Kept : /\ Owed[n] = OwedTo(n) /\ OfKept(rcpts)[n] = rcpts[n]
                  /\ OfKept(reached)[n] = reached[n] /\ OfKept(refused)[n] = refused[n]
BY DEF Owed, OwedTo, OfKept

\* What changes for one message at most changes at that message
LEMMA ChangesAt ==
  ASSUME NEW m \in Kept, \A n \in Kept \ {m} : Quiet(n)
  PROVE  /\ EnvelopeStays(m) => UNCHANGED OfKept(rcpts)
         /\ reached'[m] = reached[m] => UNCHANGED OfKept(reached)
         /\ refused'[m] = refused[m] => UNCHANGED OfKept(refused)
         /\ FateStays(m) => UNCHANGED (writtenOff \cap Kept)
         /\ OwedTo(m)' = OwedTo(m) => UNCHANGED Owed
         /\ OfKept(rcpts)' = [OfKept(rcpts) EXCEPT ![m] = rcpts'[m]]
         /\ OfKept(reached)' = [OfKept(reached) EXCEPT ![m] = reached'[m]]
         /\ OfKept(refused)' = [OfKept(refused) EXCEPT ![m] = refused'[m]]
         /\ Owed' = [Owed EXCEPT ![m] = OwedTo(m)']
<1>1. \A n \in Kept \ {m} : /\ rcpts'[n] = rcpts[n] /\ OwedTo(n)' = OwedTo(n)
                            /\ reached'[n] = reached[n] /\ refused'[n] = refused[n]
                            /\ n \in writtenOff' <=> n \in writtenOff
  BY DEF Quiet, EnvelopeStays, AnsweredStays, FateStays
<1>2. Owed = [n \in Kept |-> OwedTo(n)] /\ Owed' = [n \in Kept |-> OwedTo(n)']
  BY DEF Owed, OwedTo
<1>3. OfKept(rcpts)' = [OfKept(rcpts) EXCEPT ![m] = rcpts'[m]]
  BY <1>1 DEF OfKept
<1>4. OfKept(reached)' = [OfKept(reached) EXCEPT ![m] = reached'[m]]
  BY <1>1 DEF OfKept
<1>5. OfKept(refused)' = [OfKept(refused) EXCEPT ![m] = refused'[m]]
  BY <1>1 DEF OfKept
<1>6. Owed' = [Owed EXCEPT ![m] = OwedTo(m)']
  BY <1>1, <1>2
<1>7. /\ EnvelopeStays(m) => UNCHANGED OfKept(rcpts)
      /\ reached'[m] = reached[m] => UNCHANGED OfKept(reached)
      /\ refused'[m] = refused[m] => UNCHANGED OfKept(refused)
  BY <1>1 DEF OfKept, EnvelopeStays
<1>8. FateStays(m) => UNCHANGED (writtenOff \cap Kept)
  BY <1>1 DEF FateStays
<1>9. OwedTo(m)' = OwedTo(m) => UNCHANGED Owed
  BY <1>1, <1>2
<1> QED
  BY <1>3, <1>4, <1>5, <1>6, <1>7, <1>8, <1>9

\* Nothing the service promises changes
LEMMA AllQuiet ==
  ASSUME \A n \in Kept : Quiet(n)
  PROVE  UNCHANGED Service!serviceVars
<1>1. UNCHANGED OfKept(rcpts) /\ UNCHANGED OfKept(reached) /\ UNCHANGED OfKept(refused)
  BY DEF Quiet, EnvelopeStays, AnsweredStays, OfKept
<1>2. UNCHANGED (writtenOff \cap Kept)
  BY DEF Quiet, FateStays
<1>3. Owed = [n \in Kept |-> OwedTo(n)] /\ Owed' = [n \in Kept |-> OwedTo(n)']
  BY DEF Owed, OwedTo
<1>4. UNCHANGED Owed
  BY <1>3 DEF Quiet
<1> QED
  BY <1>1, <1>2, <1>4 DEF Service!serviceVars

\* One message is taken on, heard of, settled or revived
LEMMA OneServed ==
  ASSUME TypeOK, NEW m \in Kept, \A n \in Kept \ {m} : Quiet(n),
         Quiet(m) \/ TakesOn(m) \/ Hears(m) \/ Settles(m) \/ Revives(m)
  PROVE  [Service!ServiceNext]_Service!serviceVars
<1>m. /\ Owed[m] = OwedTo(m) /\ OfKept(rcpts)[m] = rcpts[m]
      /\ OfKept(reached)[m] = reached[m] /\ OfKept(refused)[m] = refused[m]
  BY MappedState
<1>t. rcpts[m] \subseteq Rcpt /\ OwedTo(m) \subseteq Rcpt
  <2>1. queue[m] \in Row /\ rcpts[m] \in SUBSET Rcpt
    BY DEF TypeOK, StoreTypeOK, Kept, Msg
  <2> QED
    BY <2>1 DEF OwedTo, Row
<1>q. CASE Quiet(m)
  BY <1>q, AllQuiet
<1>1. CASE TakesOn(m)
  <2>1. Service!AcceptMail(m, rcpts'[m])
    BY <1>1, <1>m, ChangesAt DEF TakesOn, AnsweredStays, Service!AcceptMail
  <2>2. rcpts'[m] \in SUBSET Rcpt
    BY <1>1 DEF TakesOn
  <2> QED
    BY <2>1, <2>2 DEF Service!ServiceNext
<1>2. CASE Hears(m)
  <2> PICK T \in SUBSET rcpts[m], N \in SUBSET rcpts[m] :
        reached'[m] = reached[m] \cup T /\ refused'[m] = refused[m] \cup N
    BY <1>2 DEF Hears
  <2>1. CASE T \cup N # {}
    <3>1. Service!Answered(m, T, N)
      BY <1>2, <1>m, <2>1, ChangesAt DEF Hears, Service!Answered
    <3> QED
      BY <1>t, <3>1 DEF Service!ServiceNext
  <2>2. CASE T \cup N = {}
    <3>1. Quiet(m)
      BY <1>2, <2>2 DEF Hears, Quiet, AnsweredStays
    <3> QED
      BY <1>q, <3>1
  <2> QED
    BY <2>1, <2>2
<1>3. CASE Settles(m)
  <2> DEFINE S == OwedTo(m) \ OwedTo(m)'
  <2>1. CASE S # {}
    <3>1. OwedTo(m)' = OwedTo(m) \ S
      BY <1>3 DEF Settles
    <3>2. Service!Discharge(m, S)
      BY <1>3, <1>m, <2>1, <3>1, ChangesAt DEF Settles, AnsweredStays, Service!Discharge
    <3>3. S \in SUBSET Rcpt
      BY <1>t
    <3> QED
      BY <3>2, <3>3 DEF Service!ServiceNext
  <2>2. CASE S = {}
    <3>1. Quiet(m)
      BY <1>3, <2>2 DEF Settles, Quiet
    <3> QED
      BY <1>q, <3>1
  <2> QED
    BY <2>1, <2>2
<1>4. CASE Revives(m)
  <2>1. CASE OwedTo(m)' # {}
    <3>1. Service!Reopen(m, OwedTo(m)')
      BY <1>4, <1>m, <2>1, ChangesAt DEF Revives, AnsweredStays, Service!Reopen
    <3>2. OwedTo(m)' \in SUBSET Rcpt
      BY <1>4, <1>t DEF Revives
    <3> QED
      BY <3>1, <3>2 DEF Service!ServiceNext
  <2>2. CASE OwedTo(m)' = {}
    <3>1. Quiet(m)
      BY <1>4, <2>2 DEF Revives, Quiet
    <3> QED
      BY <1>q, <3>1
  <2> QED
    BY <2>1, <2>2
<1> QED
  BY <1>q, <1>1, <1>2, <1>3, <1>4

\* Messages are written off, and owed to nobody any more
LEMMA SomeDropped ==
  ASSUME \A n \in Kept : Quiet(n) \/ Drops(n)
  PROVE  Service!ServiceNext
<1> DEFINE S == {n \in Kept : Drops(n)}
<1>1. UNCHANGED OfKept(rcpts) /\ UNCHANGED OfKept(reached) /\ UNCHANGED OfKept(refused)
  BY DEF Quiet, Drops, EnvelopeStays, AnsweredStays, OfKept
<1>2. (writtenOff \cap Kept)' = (writtenOff \cap Kept) \cup S
  BY DEF Quiet, Drops, FateStays
<1>3. Owed = [n \in Kept |-> OwedTo(n)] /\ Owed' = [n \in Kept |-> OwedTo(n)']
  BY DEF Owed, OwedTo
<1>4. Owed' = [n \in Kept |-> IF n \in S \ {} THEN {} ELSE Owed[n]]
  BY <1>3 DEF Quiet, Drops
<1>5. \A n \in S : OfKept(rcpts)[n] # {}
  BY MappedState DEF Drops
<1>6. Service!WriteOff(S, {})
  BY <1>1, <1>2, <1>4, <1>5 DEF Service!WriteOff
<1> QED
  BY <1>6 DEF Service!ServiceNext

-----------------------------------------------------------------------------
(* The moves, as the service sees them.                                    *)

\* What the invariants say of one kept message
Trusted(n) == Sound(n) /\ OnPath(n) /\ RowInv(n) /\ JobInv(n)

\* A row that stays where it is, with its body
LEMMA StoreQuiet ==
  ASSUME NEW n \in Msg, StoreStays(n), AnswersStay(n)
  PROVE  Quiet(n)
BY DEF StoreStays, RowStays, RowIs, OriginStays, BodyStays, AnswersStay, Quiet, EnvelopeStays,
       AnsweredStays, OwedTo

\* A message that has no row is owed to nobody
LEMMA UnknownOwed == \A n \in Msg : Sound(n) /\ ~Known(n) => queue[n].status = "absent"
                                                              /\ OwedTo(n) = {}
BY DEF Sound, IdInv, Stored, OwedTo, Pending

\* Moves that change nothing for the recipients
LEMMA QuietMoves ==
  ASSUME NEW n \in Msg, Sound(n), OnPath(n)
  PROVE  /\ Still(n) => Quiet(n)
         /\ Spools(n) \/ Refuses(n) \/ IsHeld(n) \/ DeleteGoes(n) => Quiet(n)
         /\ ExpiryTaken(n) \/ Abandoned(n) \/ Begun(n) \/ Stops(n) => Quiet(n)
         /\ Reporting(n) \/ Reported(n) \/ Unreported(n) => Quiet(n)
         /\ ReportSpooled(n) \/ ReportDropped(n) => Quiet(n)
         /\ Claims(n) \/ GivenBack(n) \/ Purged(n) \/ Rescheduled(n) => Quiet(n)
<1>1. Still(n) => Quiet(n)
  BY StoreQuiet DEF Still, TaleStays
<1>2. ExpiryTaken(n) \/ Abandoned(n) \/ Begun(n) \/ Stops(n) => Quiet(n)
  BY StoreQuiet DEF ExpiryTaken, Abandoned, Begun, Stops, AtWork, TaleStays
<1>3. Reporting(n) \/ Reported(n) \/ Unreported(n) => Quiet(n)
  BY StoreQuiet DEF Reporting, Reported, Unreported, TaleStays
<1>4. IsHeld(n) \/ DeleteGoes(n) => Quiet(n)
  BY DEF IsHeld, DeleteGoes, AsAdministrator, RowStays, RowIs, OriginStays, BodyStays, TaleStays,
         AnswersStay, Quiet, EnvelopeStays, AnsweredStays, OwedTo
<1>5. Spools(n) \/ Refuses(n) => Quiet(n)
  <2>1. Spools(n) \/ Refuses(n) => ~Known(n)
    BY IdsAssumption DEF Spools, Refuses, Sound, IdInv
  <2> QED
    BY <2>1, UnknownOwed DEF Spools, Refuses, RowStays, RowIs, OriginStays, TaleStays, AnswersStay,
                             Quiet, EnvelopeStays, AnsweredStays, OwedTo, Pending
<1>6. ReportSpooled(n) \/ ReportDropped(n) => Quiet(n)
  BY UnknownOwed DEF ReportSpooled, ReportDropped, ReportStays, RowStays, RowIs, OriginStays,
                     TaleStays, AnswersStay, Quiet, EnvelopeStays, AnsweredStays, OwedTo, Pending
<1>7. Claims(n) \/ GivenBack(n) \/ Purged(n) => Quiet(n)
  BY DEF Claims, GivenBack, Purged, RowIs, RowGone, OriginStays, BodyStays, TaleStays, AnswersStay,
         Quiet, EnvelopeStays, AnsweredStays, OwedTo, Pending, Settled
<1>8. Rescheduled(n) => Quiet(n)
  <2>1. Rescheduled(n) /\ Stored(n) => queue[n].status \in Pending
    BY DEF Rescheduled, Sound, OnPath, OwnerInv, Stored, Pending, Settled
  <2> QED
    BY <2>1 DEF Rescheduled, AtRow, RowStays, RowIs, OriginStays, BodyStays, AnswersStay, Quiet,
                EnvelopeStays, AnsweredStays, OwedTo, Pending
<1> QED
  BY <1>1, <1>2, <1>3, <1>4, <1>5, <1>6, <1>7, <1>8

\* A row that is inserted takes responsibility for every recipient
LEMMA TakingOn ==
  ASSUME NEW n \in Msg, Sound(n), Accepts(n) \/ ReportQueued(n)
  PROVE  TakesOn(n)
<1>1. ~Known(n) /\ n \in spool'
  BY DEF Accepts, ReportQueued, ReportStays, BodyStays, Sound, IdInv
<1> QED
  BY <1>1 DEF Accepts, ReportQueued, ReportStays, TaleStays, AnswersStay, TakesOn, AnsweredStays,
              OwedTo, Pending, Known

\* The answers of an attempt are about recipients of the message
LEMMA Hearing ==
  ASSUME NEW n \in Msg, OnPath(n), Failed(n) \/ TurnedDown(n) \/ Parted(n)
  PROVE  Hears(n)
<1>1. PICK T, N, G : Answers(n, T, N, G)
  BY DEF Failed, TurnedDown, Parted, SettledIn
<1>2. StoreStays(n) /\ held[n] \subseteq rcpts[n]
  BY DEF Failed, TurnedDown, Parted, AtWork, OnPath, EnvelopeInv
<1>3. EnvelopeStays(n) /\ OwedTo(n)' = OwedTo(n) /\ FateStays(n)
  BY <1>2 DEF StoreStays, RowStays, RowIs, OriginStays, BodyStays, EnvelopeStays, OwedTo
<1>4. /\ T \cup G \in SUBSET rcpts[n] /\ N \in SUBSET rcpts[n]
      /\ reached'[n] = reached[n] \cup (T \cup G) /\ refused'[n] = refused[n] \cup N
  BY <1>1, <1>2 DEF Answers
<1> QED
  BY <1>3, <1>4 DEF Hears

\* A row is narrowed, settled or left without a body only for recipients who have
\* their answer, or after it was written off
LEMMA Settling ==
  ASSUME NEW n \in Msg, Trusted(n),
         Narrowed(n) \/ Completed(n) \/ GivenUp(n) \/ Unlinked(n) \/ BodyDeleted(n)
  PROVE  Settles(n)
<1>1. EnvelopeStays(n) /\ AnsweredStays(n) /\ FateStays(n)
  BY DEF Narrowed, Completed, GivenUp, Unlinked, BodyDeleted, AtRow, AsAdministrator, OriginStays,
         AnswersStay, TaleStays, EnvelopeStays, AnsweredStays
<1>2. OwedTo(n) \subseteq rcpts[n]
  BY DEF Trusted, OnPath, EnvelopeInv, OwedTo
<1>3. CASE Narrowed(n)
  <2>1. outcome[n] = "parts" /\ parts[n].def \subseteq held[n] /\ Covers(n, parts[n].def)
        /\ (Stored(n) => queue[n].to = held[n])
    BY <1>3 DEF Narrowed, Trusted, OnPath, StageInv, OwnerInv, JobInv
  <2>2. /\ queue'[n].status = queue[n].status /\ BodyStays(n)
        /\ queue'[n].to = queue[n].to \/ (Stored(n) /\ queue'[n].to = parts[n].def)
    BY <1>3 DEF Narrowed, RowStays, RowIs, AtRow
  <2> QED
    BY <1>1, <1>2, <2>1, <2>2 DEF Settles, OwedTo, Covers, BodyStays
<1>4. CASE Completed(n) \/ GivenUp(n) \/ Unlinked(n) \/ BodyDeleted(n)
  <2>1. Over(n)
    BY <1>4 DEF Completed, Done, GivenUp, Deferred, Unlinked, BodyDeleted, Trusted, Sound, IdInv,
                JobInv, Over, Covers
  <2>2. OwedTo(n)' = OwedTo(n) \/ OwedTo(n)' = {}
    BY <1>4 DEF Completed, GivenUp, Unlinked, BodyDeleted, RowStays, RowIs, AtRow, BodyStays,
                OwedTo, Pending
  <2> QED
    BY <1>1, <1>2, <2>1, <2>2 DEF Settles, Over, Covers
<1> QED
  BY <1>3, <1>4

\* An administrator revives a settled row, or nothing changes
LEMMA Reviving ==
  ASSUME NEW n \in Msg, OnPath(n), Retried(n) \/ Released(n)
  PROVE  Quiet(n) \/ Revives(n)
<1>1. EnvelopeStays(n) /\ AnsweredStays(n) /\ FateStays(n) /\ BodyStays(n)
      /\ queue'[n].status = "queued" /\ queue'[n].to = queue[n].to
  BY DEF Retried, Released, RowIs, AsAdministrator, OriginStays, AnswersStay, TaleStays,
         EnvelopeStays, AnsweredStays
<1>2. queue[n].to \subseteq rcpts[n]
  BY DEF OnPath, EnvelopeInv
<1> QED
  BY <1>1, <1>2 DEF Quiet, Revives, OwedTo, BodyStays, Pending

\* Expiry and removal write a message off in the open
LEMMA Dropping ==
  ASSUME NEW n \in Msg, Sound(n), RowDeleted(n) \/ BodyDropped(n) \/ RowDropped(n) \/ Expires(n)
  PROVE  Drops(n)
<1>1. rcpts[n] # {}
  BY DEF RowDeleted, BodyDropped, RowDropped, Expires, Sound, IdInv, Known, Stored
<1> QED
  BY <1>1 DEF RowDeleted, BodyDropped, RowDropped, Expires, AsAdministrator, RowGone, RowIs, RowStays,
              OriginStays, TaleStays, AnswersStay, Drops, EnvelopeStays, AnsweredStays, OwedTo, Pending

-----------------------------------------------------------------------------
(* Refinement.                                                             *)

\* One message that moves is one step of the service, or none
LEMMA MovesServe ==
  ASSUME TypeOK, MailInv, PathInv, NEW m \in Kept, Moves(m)
  PROVE  \/ Quiet(m) \/ TakesOn(m) \/ Hears(m) \/ Settles(m) \/ Revives(m)
         \/ Drops(m)
<1>1. m \in Msg /\ Trusted(m) /\ Sound(m) /\ OnPath(m)
  BY AllSound DEF MailInv, PathInv, Trusted, Kept, Msg
<1> QED
  BY <1>1, QuietMoves, TakingOn, Hearing, Settling, Reviving, Dropping DEF Moves

\* Every step of the mail path is a step of the service, or changes nothing it
\* promises
LEMMA StepServes ==
  ASSUME TypeOK, MailInv, PathInv, [Next]_vars
  PROVE  [Service!ServiceNext]_Service!serviceVars
<1>k. \A n \in Kept : n \in Msg /\ Sound(n) /\ OnPath(n)
  BY AllSound DEF PathInv, Kept, Msg
<1>s. \A n \in Kept : Still(n) => Quiet(n)
  BY <1>k, QuietMoves
<1>1. ASSUME NEW m \in Msg, Moves(m), Alone(m)
      PROVE  [Service!ServiceNext]_Service!serviceVars
  <2>1. \A n \in Kept \ {m} : Quiet(n)
    BY <1>1, <1>k, <1>s DEF Alone
  <2>2. CASE m \notin Kept
    BY <2>1, <2>2, AllQuiet
  <2>3. CASE m \in Kept
    <3>1. CASE Drops(m)
      BY <2>1, <3>1, SomeDropped
    <3>2. CASE Quiet(m) \/ TakesOn(m) \/ Hears(m) \/ Settles(m) \/ Revives(m)
      BY <2>1, <2>3, <3>2, OneServed
    <3> QED
      BY <1>1, <2>3, <3>1, <3>2, MovesServe
  <2> QED
    BY <2>2, <2>3
<1>2. ASSUME NEW m \in Msg, NEW b \in Msg \ {m}, WithReport(m, b)
      PROVE  [Service!ServiceNext]_Service!serviceVars
  <2>1. \A n \in Kept \ {b} : Quiet(n)
    BY <1>2, <1>k, <1>s, QuietMoves DEF WithReport
  <2>2. b \in Kept
    BY <1>2 DEF WithReport, ReportSpooled, ReportQueued, ReportDropped, ReportStays, Kept
  <2>3. Quiet(b) \/ TakesOn(b)
    BY <1>2, <1>k, <2>2, QuietMoves, TakingOn DEF WithReport
  <2> QED
    BY <2>1, <2>2, <2>3, OneServed
<1>3. CASE AllMove
  <2>1. \/ \A n \in Kept : Quiet(n)
        \/ \A n \in Kept : Quiet(n) \/ Drops(n)
    BY <1>3, <1>k, QuietMoves, Dropping DEF AllMove
  <2> QED
    BY <2>1, AllQuiet, SomeDropped
<1> QED
  BY <1>1, <1>2, <1>3, StepShape

\* Nothing is owed at first
LEMMA InitServes == Init => Service!ServiceInit
<1> SUFFICES ASSUME Init PROVE Service!ServiceInit
  OBVIOUS
<1>1. OfKept(rcpts) = [m \in Kept |-> {}]
  BY DEF OfKept, Init, StoreInit, Kept, Msg
<1>2. Owed = [m \in Kept |-> {}]
  BY DEF Owed, Init, StoreInit, Kept, Msg
<1>3. OfKept(reached) = [m \in Kept |-> {}] /\ OfKept(refused) = [m \in Kept |-> {}]
  BY DEF OfKept, Init, SenderInit, Kept, Msg
<1>4. writtenOff = {}
  BY DEF Init, StoreInit
<1> QED
  BY <1>1, <1>2, <1>3, <1>4 DEF Service!ServiceInit, Service!Nobody

\* The queue, the spool, the delivery loop, the administrators and every crash
\* between their statements implement MailService: what the appliance owes to a
\* recipient of received mail or of a bounce ends only with the destination's
\* answer or with a message written off in the open.
THEOREM MailPathImplementsService == Spec => ImplementsMailService
<1>1. TypeOK /\ MailInv /\ PathInv /\ [Next]_vars => [Service!ServiceNext]_Service!serviceVars
  BY StepServes
<1> QED
  BY InitServes, TypeCorrect, MailInvariant, PathInvariant, <1>1, PTL
  DEF Spec, ImplementsMailService, Service!ServiceSpec
=============================================================================
