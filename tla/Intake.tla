-------------------------------- MODULE Intake --------------------------------
(***************************************************************************)
(* The DATA phase of the two SMTP listeners: session.Data of               *)
(* internal/smtpd (port 25, InMsg) and of internal/submission (port 587,   *)
(* OutMsg).  The body is written to the spool first, the verdicts of the   *)
(* filters, the spam filter and the virus scanner may still refuse it, the *)
(* row is inserted, and a verdict "quarantine" is a second statement on    *)
(* the row already inserted.  The client is answered 250 at the end.       *)
(***************************************************************************)
EXTENDS QueueStore

VARIABLES
  session, \* [Msg -> where the transaction that owns the id is]
  hold     \* history: messages a verdict sent to quarantine

intakeVars == <<session, hold>>

\* none: not begun; spooled: body written; queued: row inserted, not held yet;
\* accepted: answered 250; refused: answered 4xx or 5xx, or cut off
Session == {"none", "spooled", "queued", "accepted", "refused"}

IntakeTypeOK == session \in [Msg -> Session] /\ hold \subseteq InMsg

IntakeInit == session = [m \in Msg |-> "none"] /\ hold = {}

-----------------------------------------------------------------------------

\* blobs.Put succeeds; a Put that fails leaves nothing behind
SpoolBody(m) ==
  /\ session[m] = "none" /\ m \in InMsg \cup OutMsg
  /\ spool' = spool \cup {m}
  /\ session' = [session EXCEPT ![m] = "spooled"]
  /\ UNCHANGED <<queue, domain, home, rcpts, writtenOff, faults, hold>>

\* Mutant: a refusal forgets to remove the body
RefuseBodyKept(m) ==
  /\ session[m] = "spooled"
  /\ session' = [session EXCEPT ![m] = "refused"]
  /\ UNCHANGED <<spool, queue, domain, home, rcpts, writtenOff, faults, hold>>

\* A filter, rspamd, ClamAV or the sending limit refuses the message, or the
\* INSERT fails: the body is removed
RefuseBody(m) ==
  /\ session[m] = "spooled"
  /\ spool' = spool \ {m}
  /\ session' = [session EXCEPT ![m] = "refused"]
  /\ UNCHANGED <<queue, domain, home, rcpts, writtenOff, faults, hold>>

\* Enqueue succeeds.  held: a verdict asked for quarantine, which is still to
\* be written; otherwise the client gets its 250
Accept(m, d, R, held) ==
  /\ session[m] = "spooled"
  /\ held => m \in InMsg
  /\ Enqueue(m, d, R)
  /\ hold' = IF held THEN hold \cup {m} ELSE hold
  /\ session' = [session EXCEPT ![m] = IF held THEN "queued" ELSE "accepted"]
  /\ UNCHANGED <<spool, domain, writtenOff, faults>>

\* db.Quarantine; an error, or a row that is gone by now, is only logged, and
\* the client gets its 250 either way
HoldMessage(m) ==
  /\ session[m] = "queued"
  /\ session' = [session EXCEPT ![m] = "accepted"]
  /\ \/ NoFault /\ (IF Stored(m) THEN Quarantine(m) ELSE UNCHANGED queue)
     \/ Fault /\ UNCHANGED queue
  /\ UNCHANGED <<spool, domain, home, rcpts, writtenOff, hold>>

IntakeStep ==
  \E m \in Msg :
    \/ SpoolBody(m)
    \/ RefuseBody(m)
    \/ \E d \in Domain, R \in (SUBSET Rcpt) \ {{}}, held \in BOOLEAN : Accept(m, d, R, held)
    \/ HoldMessage(m)

\* The process dies: the transactions under way are never answered 250
IntakeStop ==
  session' = [m \in Msg |-> IF session[m] \in {"spooled", "queued"} THEN "refused"
                                                                    ELSE session[m]]
=============================================================================
