----------------------------- MODULE GatewayCall -----------------------------
(***************************************************************************)
(* One gateway request from its first selection to its row in the          *)
(* database: the retry loop (RouteAttempt), the attempts it executes       *)
(* (gateway_attempt_execute.go), the fallback it keeps in the durable      *)
(* journal while it runs (call_recorder.go), the fact the handler persists *)
(* when it ends (handler/gateway.go) and the background delivery of that   *)
(* fact (FlushCallRecorder, RecordCall).                                   *)
(*                                                                         *)
(* The process may die between any two steps.  When it is started again    *)
(* (JournalBinding), the journal it opens turns the fallback into the fact *)
(* to deliver (CallFacts!Interrupt, implemented by EventQueue and          *)
(* QuotaLedger), if it is the journal that has it.  Every write to the     *)
(* journal and to the database may fail.  The upstream is modelled by what *)
(* it does: the ghosts open and worked say which attempts it may still     *)
(* carry out and which it has carried out, whether or not anyone hears of  *)
(* it.                                                                     *)
(***************************************************************************)
EXTENDS RouteAttempt, JournalBinding

VARIABLES
  handler,    \* "run", "reserved", "done", "unrecorded" or "dead"
  step,       \* where executeGatewayAttempt is
  attemptId,  \* result.AttemptID # ""
  evidence,   \* the work evidence of result.Attempts
  fact,       \* what the own journal holds for the request
  flush,      \* the entry FlushCallRecorder has in hand
  row,        \* the request's row in the database
  open,       \* ghost: attempts sent that the upstream may carry out
  worked      \* ghost: attempts the upstream has carried out

callVars == <<handler, step, attemptId, evidence, fact, flush, row, open, worked>>
vars == <<runVars, callVars, bindingVars>>
journalVars == <<fact, flush, row>>
upstreamVars == <<open, worked>>

\* What a record says: the evidence of the attempts, and what is settled.
Payload == [work : Seq(Evidence), settled : {"zero", "measured", "unknown"}]

\* No row is different from every row.
ASSUME CallAssumption == None \notin Payload

NoFact == [kind |-> "none"]
Draft(payload) == [kind |-> "draft", payload |-> payload]
Final(payload) == [kind |-> "final", payload |-> payload]

Idle == [phase |-> "idle"]

Init ==
  /\ RunInit /\ BindingInit
  /\ handler = "run" /\ step = "idle" /\ attemptId = FALSE /\ evidence = << >>
  /\ fact = NoFact /\ flush = Idle /\ row = None
  /\ open = {} /\ worked = {}

Number == Len(attempts) + 1

callAttemptsProveNoWork(work) == \A i \in DOMAIN work : ProvesNoWork(work[i])

\* A defect: only the attempts that ended count.
gatewayInterruptedSettlement_Ended(id, work) ==
  IF callAttemptsProveNoWork(work) THEN "zero" ELSE "unknown"

\* What an interruption settles: nothing, only if nothing can have been sent.
gatewayInterruptedSettlement(id, work) ==
  IF ~id /\ callAttemptsProveNoWork(work) THEN "zero" ELSE "unknown"

\* The fact that is delivered if the process dies now.
gatewayFallbackPayload(id, work) ==
  [work |-> IF id THEN Append(work, "unknown") ELSE work,
   settled |-> gatewayInterruptedSettlement(id, work)]

-----------------------------------------------------------------------------
(* The retry loop's hooks that touch the journal.                          *)

Running == handler = "run"

\* CheckpointGatewayCall with the given result; TRUE when it returned nil.
CheckpointGatewayCall(id, work, ok) ==
  fact' = IF ok THEN Draft(gatewayFallbackPayload(id, work)) ELSE fact

\* AdmitGatewayCall reserves the record before anything is sent.
AdmitGatewayCall(ok) ==
  /\ Running
  /\ ok => ledgerZone # NoZone /\ accounting = NoZone
  /\ Admit(ok)
  /\ fact' = IF ok THEN Draft(gatewayFallbackPayload(attemptId, evidence)) ELSE fact
  /\ UNCHANGED <<handler, step, attemptId, evidence, flush, row, upstreamVars>>

\* The steps of Run that change nothing but its own state.
Plan ==
  /\ Running
  /\ \/ \E eligible \in SUBSET Attempt : Select(eligible)
     \/ SelectFails
     \/ \E ok \in BOOLEAN : Prepare(ok)
     \/ Cancel
  /\ UNCHANGED callVars

Enter ==
  /\ Running
  /\ Dispatch
  /\ step' = IF ctx = "live" THEN "entered" ELSE step
  /\ UNCHANGED <<handler, attemptId, evidence, journalVars, upstreamVars>>

-----------------------------------------------------------------------------
(* executeGatewayAttempt.                                                  *)

\* An outcome without output or usage: Execute reports neither itself.
Ended(failure, work) == [failure |-> failure, work |-> work, output |-> FALSE, usage |-> FALSE]
NotSent == Ended("permanent_failure", "not_sent")

\* The authorization, the connection's gate or the credential's holder refuse.
Refuse ==
  /\ Running /\ step = "entered"
  /\ Return(NotSent, TRUE)
  /\ step' = "idle"
  /\ UNCHANGED <<handler, attemptId, evidence, journalVars, upstreamVars>>

\* The attempt is named and its checkpoint stored; without it nothing is sent.
BeginAttempt(ok) ==
  /\ Running /\ step = "entered"
  /\ attemptId' = TRUE
  /\ CheckpointGatewayCall(TRUE, evidence, ok)
  /\ IF ok THEN step' = "named" /\ UNCHANGED runVars
     ELSE step' = "idle" /\ Return(NotSent, TRUE)
  /\ UNCHANGED <<handler, evidence, flush, row, upstreamVars>>

\* The second authorization fails: the attempt is withdrawn.
Withdraw(ok) ==
  /\ Running /\ step = "named"
  /\ attemptId' = FALSE
  /\ CheckpointGatewayCall(FALSE, evidence, ok)
  /\ Return(NotSent, TRUE)
  /\ step' = "idle"
  /\ UNCHANGED <<handler, evidence, flush, row, upstreamVars>>

\* client.Do: from here on the upstream may carry the request out.
Send ==
  /\ Running /\ step = "named"
  /\ step' = "sent"
  /\ open' = open \cup {Number}
  /\ UNCHANGED <<runVars, handler, attemptId, evidence, journalVars, worked>>

\* The upstream carries out what it was sent, answered or given up or not.
UpstreamWorks ==
  /\ \E n \in open \ worked : worked' = worked \cup {n}
  /\ UNCHANGED <<runVars, handler, step, attemptId, evidence, journalVars, open>>

\* What client.Do may come back with.  An answer that proves no work comes from
\* an upstream that did none (external): the request was never written, or the
\* provider rejected the credential or the rate before any work.
Proofs == {"pre_request_connection", "native_auth_rejection", "native_rate_rejection"}
FailedReplies == Proofs \cup {"transport_ambiguous", "upstream_response"}

\* A defect: a timeout is taken for a connection that was never made.
Classified_Timeout(reply) ==
  CASE reply \in {"pre_request_connection", "transport_ambiguous"} ->
         Ended("connection_failure", "not_sent")
    [] reply = "native_auth_rejection" -> Ended("credential_rejected", "rejected_without_work")
    [] reply = "native_rate_rejection" -> Ended("rate_limited", "rejected_without_work")
    [] OTHER -> Ended("permanent_failure", "unknown")

\* executeGatewayAttempt and classifyGatewayHTTPFailure.
Classified(reply) ==
  CASE reply = "pre_request_connection" /\ ctx = "live" ->
         Ended("connection_failure", "not_sent")
    [] reply = "native_auth_rejection" -> Ended("credential_rejected", "rejected_without_work")
    [] reply = "native_rate_rejection" -> Ended("rate_limited", "rejected_without_work")
    [] OTHER -> Ended("permanent_failure", "unknown")

\* finishGatewayFailedAttempt: the evidence is appended and checkpointed; a
\* failed checkpoint is an execution error, which stops the retries.
FailedReply(reply, ok) ==
  LET outcome == Classified(reply)
  IN /\ Running /\ step = "sent"
     /\ reply \in Proofs => Number \notin worked
     /\ open' = IF reply \in Proofs THEN open \ {Number} ELSE open
     /\ evidence' = Append(evidence, outcome.work)
     /\ attemptId' = FALSE
     /\ CheckpointGatewayCall(FALSE, Append(evidence, outcome.work), ok)
     /\ Return(outcome, ~ok)
     /\ step' = "idle"
     /\ UNCHANGED <<handler, flush, row, worked>>

\* A response that can be relayed; the attempt stays named.
GoodReply ==
  /\ Running /\ step = "sent"
  /\ Number \in worked
  /\ Return(Ended("success", "completed"), FALSE)
  /\ step' = "idle"
  /\ UNCHANGED <<handler, attemptId, evidence, journalVars, upstreamVars>>

-----------------------------------------------------------------------------
(* handler/gateway.go recordGatewayCall and PersistGatewayCall.            *)

NoUpstreamWork == admitted /\ ~attemptId /\ callAttemptsProveNoWork(evidence)

\* The evidence of the last attempt depends on the response reaching its end;
\* what the usage in it says is known or not.
FactWork(status) ==
  IF ~attemptId THEN evidence
  ELSE Append(evidence, IF status = "success" THEN "completed" ELSE "unknown")

quotaCallSettlement(work, usage) ==
  IF NoUpstreamWork \/ (work # << >> /\ callAttemptsProveNoWork(work)) THEN "zero" ELSE usage

\* A relayed response may fail on its way; usage is read from a response only.
Facts ==
  {[work |-> FactWork(status), settled |-> quotaCallSettlement(FactWork(status), usage)] :
     status \in IF stop = "succeeded" THEN {"success", "error"} ELSE {"error"},
     usage \in IF stop = "succeeded" THEN {"measured", "unknown"} ELSE {"unknown"}}

\* PersistGatewayCall of an admitted request: Complete.
PersistGatewayCall ==
  /\ Running /\ pc = "stopped" /\ fact.kind = "draft"
  /\ \E payload \in Facts : fact' = Final(payload)
  /\ handler' = "done"
  /\ UNCHANGED <<runVars, step, attemptId, evidence, flush, row, upstreamVars>>

\* A request rejected before admission is queued directly: Reserve, Complete.
ReserveRejected ==
  /\ Running /\ pc = "stopped" /\ fact = NoFact
  /\ \E payload \in Facts : fact' = Draft(payload)
  /\ handler' = "reserved"
  /\ UNCHANGED <<runVars, step, attemptId, evidence, flush, row, upstreamVars>>

CompleteRejected ==
  /\ handler = "reserved"
  /\ fact' = Final(fact.payload)
  /\ handler' = "done"
  /\ UNCHANGED <<runVars, step, attemptId, evidence, flush, row, upstreamVars>>

\* The journal refuses; the handler logs and gives up.
PersistFails ==
  /\ (Running /\ pc = "stopped") \/ handler = "reserved"
  /\ handler' = "unrecorded"
  /\ UNCHANGED <<runVars, step, attemptId, evidence, journalVars, upstreamVars>>

-----------------------------------------------------------------------------
(* FlushCallRecorder and RecordCall.                                       *)

\* A defect: the fallbacks of running calls are read as well.
FlushRead_Drafts ==
  /\ flush = Idle
  /\ fact # NoFact
  /\ flush' = [phase |-> "read", payload |-> fact.payload]
  /\ UNCHANGED <<runVars, handler, step, attemptId, evidence, fact, row, upstreamVars>>

FlushRead ==
  /\ flush = Idle
  /\ fact.kind = "final" /\ path = "own"
  /\ flush' = [phase |-> "read", payload |-> fact.payload]
  /\ UNCHANGED <<runVars, handler, step, attemptId, evidence, fact, row, upstreamVars>>

\* The unique insert: a row that exists is left alone.
Inserted(payload) == IF row = None THEN payload ELSE row

\* The transaction commits and the flusher hears of it, or not in time.
RecordCall(heard) ==
  /\ flush.phase = "read"
  /\ row' = Inserted(flush.payload)
  /\ flush' = IF heard THEN [flush EXCEPT !.phase = "recorded"] ELSE Idle
  /\ UNCHANGED <<runVars, handler, step, attemptId, evidence, fact, upstreamVars>>

Ack ==
  /\ flush.phase = "recorded"
  /\ fact' = NoFact
  /\ flush' = Idle
  /\ UNCHANGED <<runVars, handler, step, attemptId, evidence, row, upstreamVars>>

\* The database or the journal fails: the cycle ends, the next one reads again.
FlushFails ==
  /\ flush # Idle
  /\ flush' = Idle
  /\ UNCHANGED <<runVars, handler, step, attemptId, evidence, fact, row, upstreamVars>>

\* The process dies, and its memory with it; admitted is kept for the properties.
Crash ==
  /\ Up
  /\ handler' = "dead" /\ recorder' = "down" /\ accounting' = NoZone
  /\ pc' = "stopped" /\ ctx' = "canceled"
  /\ attempted' = {} /\ credentials' = {} /\ connections' = {} /\ preferred' = None
  /\ current' = None /\ attempts' = << >> /\ stop' = None
  /\ step' = "idle" /\ attemptId' = FALSE /\ evidence' = << >> /\ flush' = Idle
  /\ UNCHANGED <<admitted, fact, row, upstreamVars, path, bound, installation,
                 setting, ledgerZone>>

\* A defect: what was pending stays pending.
Interrupted_KeepsPending == fact

\* What Open makes of the pending calls of its file.
Interrupted == IF path = "own" /\ fact.kind = "draft" THEN Final(fact.payload) ELSE fact

Reopen ==
  /\ OpenQueue
  /\ fact' = Interrupted
  /\ UNCHANGED <<runVars, handler, step, attemptId, evidence, flush, row, upstreamVars>>

-----------------------------------------------------------------------------
Work ==
  \/ Plan
  \/ Enter
  \/ \E ok \in BOOLEAN : AdmitGatewayCall(ok) \/ BeginAttempt(ok) \/ Withdraw(ok)
  \/ Refuse
  \/ Send
  \/ \E reply \in FailedReplies, ok \in BOOLEAN : FailedReply(reply, ok)
  \/ GoodReply
  \/ PersistGatewayCall
  \/ ReserveRejected
  \/ CompleteRejected
  \/ PersistFails

Deliver == FlushRead \/ (\E heard \in BOOLEAN : RecordCall(heard)) \/ Ack \/ FlushFails

\* A step of the process that serves.
Serving(A) == Up /\ A /\ UNCHANGED bindingVars

\* A step of a start, of an activation of the ledger or of the operator.
Beside(A) == A /\ UNCHANGED <<runVars, callVars>>

Next ==
  \/ Serving(Work)
  \/ Serving(Deliver)
  \/ UpstreamWorks /\ UNCHANGED bindingVars
  \/ Beside(Accounting)
  \/ Crash
  \/ Reopen
  \/ Beside(StartCallRecorder)
  \/ Beside(ReplaceFile)

Spec == Init /\ [][Next]_vars

\* The flusher runs every second, and a server that stopped is started again.
\* The journal, the database, the start and the process itself may fail again and
\* again, but not every time.
FairSpec ==
  /\ Spec
  /\ WF_vars(Serving(Work))
  /\ SF_vars(Serving(FlushRead))
  /\ SF_vars(Serving(RecordCall(TRUE)))
  /\ SF_vars(Serving(Ack))
  /\ WF_vars(Reopen)
  /\ SF_vars(Beside(NameInstallation(TRUE)))
  /\ SF_vars(Beside(BindInstallation))
  /\ SF_vars(Beside(InitializeInstallation(TRUE)))
  /\ SF_vars(Beside(validateQuotaJournal))

-----------------------------------------------------------------------------
(* Properties.                                                             *)

\* Everything that is or may become the record of the request.
Records ==
  {f.payload : f \in ({fact} \ {NoFact}) \cup ({flush} \ {Idle})} \cup ({row} \ {None})

\* No record ever says that a call was free of work when the upstream has, or
\* may still get, something of it to do.  It holds of the fallback too, at
\* every point at which the process may die (CheckpointGatewayCall runs before
\* client.Do, and after it only with proof).
NoFreeWork == \A p \in Records : p.settled = "zero" => open = {}

\* However an attempt ends - a timeout, a canceled client, a late answer - the
\* upstream carries out at most one attempt of a request.
AtMostOneExecution == Cardinality(worked) <= 1

\* A call that was admitted is in the journal or in the database ever after, and
\* whichever file a server is started on, one that serves has it; and the row,
\* delivered once or twice, early or late, is the final fact whatever crashed
\* and whichever write failed (StartCallRecorder, bindLimitJournal, RecordCall).
RecordFaithful ==
  /\ admitted => fact # NoFact \/ row # None
  /\ admitted /\ Up => path = "own" \/ row # None
  /\ row # None /\ fact # NoFact => fact = Final(row)

\* Every admitted call reaches the database, or its handler was refused by the
\* journal; then its fallback waits for the next start of the process.  Whatever
\* the starts and the settings did before, no journal is locked out: as long as
\* the operator leaves the file in its place, a start succeeds.
EveryCallRecorded ==
  (admitted /\ path = "own") ~> (row # None \/ handler = "unrecorded" \/ path # "own")

\* The request uses the journal by its promise: a draft, revised and settled
\* once or interrupted, then acknowledged.
Journal == INSTANCE CallFacts WITH
  Ids <- {"request"},
  Payloads <- [work : UNION {[1..n -> Evidence] : n \in 0..maxAttempts},
               settled : {"zero", "measured", "unknown"}],
  Capacity <- 1,
  facts <- [id \in {"request"} |-> fact]

UsesCallFacts == Journal!Spec
=============================================================================
