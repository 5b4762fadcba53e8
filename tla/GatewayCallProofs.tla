-------------------------- MODULE GatewayCallProofs --------------------------
(***************************************************************************)
(* First what Plan.Run guarantees for every plan New accepts, whatever the *)
(* hooks answer and whenever the context is canceled.  NeverRetried speaks *)
(* of recorded attempts only, so it is not inductive: the attempt under    *)
(* way must differ from the recorded ones (CurrentFresh), and it is        *)
(* selected so because the progress sets still hold everything the         *)
(* recorded attempts ruled out (Remembered).                               *)
(*                                                                         *)
(* Then one request and its record, for every plan, every budget and every *)
(* interleaving of the handler, the flusher, the upstream, crashes and     *)
(* starts.  A step here is a step of the retry loop, leaves it alone or    *)
(* kills it.  Around it: while the handler runs, at most the attempt under *)
(* way is open upstream (Execution) and the fallback in the journal says   *)
(* that it may be (Settlement); the record has one author at a time, first *)
(* the handler and then whoever delivers it (Recorded).                    *)
(***************************************************************************)
EXTENDS GatewayCall, FiniteSetTheorems, TLAPS

\* The attempt later may follow the recorded attempt first.
Fresh(first, later) ==
  /\ first.attempt # later
  /\ first.outcome.failure = "credential_rejected" =>
       first.attempt.credential # later.credential
  /\ first.outcome.failure \in {"connection_failure", "rate_limited"} =>
       ConnectionOf[first.attempt.target] # ConnectionOf[later.target]

\* The progress sets hold what the recorded attempt r rules out.
Ruled(r) ==
  /\ r.attempt \in attempted
  /\ r.outcome.failure = "credential_rejected" => r.attempt.credential \in credentials
  /\ r.outcome.failure \in {"connection_failure", "rate_limited"} =>
       ConnectionOf[r.attempt.target] \in connections

Harmless(r) == ProvesNoWork(r.outcome.work) /\ ~r.outcome.output /\ ~r.outcome.usage

Selected == pc \in {"prepare", "admit", "dispatch", "execute"}

Remembered == pc # "stopped" => \A i \in DOMAIN attempts : Ruled(attempts[i])

CurrentFresh == Selected => \A i \in DOMAIN attempts : Fresh(attempts[i], current)

CurrentMarked == pc = "execute" => current \in attempted

BudgetLeft == /\ Len(attempts) <= maxAttempts
              /\ pc # "stopped" => Len(attempts) < maxAttempts

AdmittedOnce == /\ pc = "admit" => ~admitted
                /\ attempts # << >> \/ pc \in {"dispatch", "execute"} => admitted

Inv ==
  /\ RunTypeOK
  /\ ReplayedOnlyIdle
  /\ NeverRetried
  /\ Remembered
  /\ CurrentFresh
  /\ CurrentMarked
  /\ BudgetLeft
  /\ AdmittedOnce

Record == [attempt : Attempt, outcome : Outcome]

-----------------------------------------------------------------------------

\* What Run records is a declared outcome, and what may be replayed is idle.
LEMMA AcceptedOutcome ==
  ASSUME NEW o \in Returned
  PROVE  /\ Accepted(o) \in Outcome
         /\ Replayable(Accepted(o)) =>
              /\ ProvesNoWork(Accepted(o).work)
              /\ ~Accepted(o).output
              /\ ~Accepted(o).usage
<1>1. CASE validOutcome(o)
  BY <1>1 DEF Accepted, validOutcome, Replayable
<1>2. CASE ~validOutcome(o)
  BY <1>2 DEF Accepted, Returned, Outcome, Failures, Evidence, Replayable
<1>3. QED
  BY <1>1, <1>2

\* The entries of a sequence with one more record.
LEMMA AppendEntries ==
  ASSUME NEW s \in Seq(Record), NEW r \in Record
  PROVE  /\ Append(s, r) \in Seq(Record)
         /\ Append(s, r) # << >>
         /\ Len(s) \in Nat
         /\ Len(Append(s, r)) = Len(s) + 1
         /\ DOMAIN s = 1..Len(s)
         /\ DOMAIN Append(s, r) = 1..(Len(s) + 1)
         /\ \A i \in DOMAIN s : Append(s, r)[i] = s[i]
         /\ Append(s, r)[Len(s) + 1] = r
  OBVIOUS

\* What the selection may return is open to every recorded attempt.
LEMMA ChoicesFresh ==
  ASSUME NEW eligible \in SUBSET Attempt, NEW a \in Choices(eligible),
         NEW r, Ruled(r)
  PROVE  a \in Attempt /\ Fresh(r, a)
<1>1. a \in Candidates(eligible)
  BY DEF Choices
<1>2. /\ a \in Attempt
      /\ ConnectionOf[a.target] \notin connections
      /\ a.credential \in Usable(a.target, eligible)
  BY <1>1 DEF Candidates
<1>3. /\ a.credential \notin credentials
      /\ [target |-> a.target, credential |-> a.credential] \notin attempted
  BY <1>2 DEF Usable
<1>4. a = [target |-> a.target, credential |-> a.credential]
  BY <1>2 DEF Attempt
<1>5. QED
  BY <1>2, <1>3, <1>4 DEF Ruled, Fresh

LEMMA RunInitInv == RunInit => Inv
<1> SUFFICES ASSUME RunInit PROVE Inv
  OBVIOUS
<1>1. RunTypeOK
  <2>1. attempts \in Seq([attempt : Attempt, outcome : Outcome])
    BY DEF RunInit
  <2>2. QED
    BY <2>1 DEF RunInit, RunTypeOK
<1>2. attempts = << >> /\ DOMAIN attempts = {} /\ Len(attempts) = 0
  BY DEF RunInit
<1>3. ReplayedOnlyIdle /\ NeverRetried /\ Remembered /\ CurrentFresh
  BY <1>2 DEF ReplayedOnlyIdle, NeverRetried, Remembered, CurrentFresh
<1>4. CurrentMarked /\ BudgetLeft /\ AdmittedOnce
  BY <1>2, PlanAssumption DEF RunInit, CurrentMarked, BudgetLeft, AdmittedOnce, IsPlan, MaxAttempts
<1>5. QED
  BY <1>1, <1>3, <1>4 DEF Inv

\* The steps that record nothing and exclude nothing.
LEMMA QuietStep ==
  ASSUME Inv,
         UNCHANGED <<credentials, connections, preferred, attempts>>,
         RunTypeOK',
         pc' # "stopped" => pc # "stopped",
         attempted \subseteq attempted',
         CurrentFresh', CurrentMarked', AdmittedOnce'
  PROVE  Inv'
<1>1. ReplayedOnlyIdle'
  BY DEF Inv, ReplayedOnlyIdle
<1>2. NeverRetried'
  BY DEF Inv, NeverRetried
<1>3. Remembered'
  BY DEF Inv, Remembered, Ruled
<1>4. BudgetLeft'
  BY DEF Inv, BudgetLeft
<1>5. QED
  BY <1>1, <1>2, <1>3, <1>4 DEF Inv

LEMMA SelectInv ==
  ASSUME Inv, NEW eligible \in SUBSET Attempt, Select(eligible)
  PROVE  Inv'
<1> USE DEF Select, progress, Stop, Inv
<1>1. UNCHANGED <<credentials, connections, preferred, attempts>> /\ attempted \subseteq attempted'
  OBVIOUS
<1>2. CASE pc' = "stopped"
  <2>1. RunTypeOK'
    BY <1>2 DEF RunTypeOK, StopReason
  <2>2. CurrentFresh' /\ CurrentMarked' /\ AdmittedOnce'
    BY <1>2 DEF CurrentFresh, CurrentMarked, AdmittedOnce, Selected
  <2>3. QED
    BY <1>1, <1>2, <2>1, <2>2, QuietStep
<1>3. CASE current' \in Choices(eligible) /\ pc' = "prepare" /\ UNCHANGED stop
  <2>1. current' \in Attempt
    BY <1>3 DEF Choices, Candidates
  <2>2. RunTypeOK'
    BY <1>3, <2>1 DEF RunTypeOK
  <2>3. ASSUME NEW i \in DOMAIN attempts
        PROVE  Fresh(attempts[i], current')
    BY <1>3, ChoicesFresh DEF Remembered
  <2>4. CurrentFresh'
    BY <1>3, <2>3 DEF CurrentFresh, Fresh
  <2>5. CurrentMarked' /\ AdmittedOnce'
    BY <1>3 DEF CurrentMarked, AdmittedOnce
  <2>6. QED
    BY <1>1, <1>3, <2>2, <2>4, <2>5, QuietStep
<1>4. QED
  BY <1>2, <1>3

\* Steps that stop, or move to the next hook with the selected attempt.
LEMMA HookInv ==
  ASSUME Inv,
         \/ SelectFails
         \/ \E ok \in BOOLEAN : Prepare(ok) \/ Admit(ok)
         \/ Dispatch
         \/ Cancel
  PROVE  Inv'
<1> USE DEF Inv, progress, Stop
<1>1. CASE SelectFails
  <2>1. RunTypeOK'
    BY <1>1 DEF SelectFails, RunTypeOK, StopReason
  <2>2. CurrentFresh' /\ CurrentMarked' /\ AdmittedOnce'
    BY <1>1 DEF SelectFails, CurrentFresh, CurrentMarked, AdmittedOnce, Selected
  <2>3. QED
    BY <1>1, <2>1, <2>2, QuietStep DEF SelectFails
<1>2. ASSUME NEW ok \in BOOLEAN, Prepare(ok)
      PROVE  Inv'
  <2>1. RunTypeOK'
    BY <1>2 DEF Prepare, RunTypeOK, StopReason
  <2>2. CurrentFresh'
    BY <1>2 DEF Prepare, CurrentFresh, Selected, Fresh
  <2>3. CurrentMarked' /\ AdmittedOnce'
    BY <1>2 DEF Prepare, CurrentMarked, AdmittedOnce
  <2>4. QED
    BY <1>2, <2>1, <2>2, <2>3, QuietStep DEF Prepare
<1>3. ASSUME NEW ok \in BOOLEAN, Admit(ok)
      PROVE  Inv'
  <2>1. RunTypeOK'
    BY <1>3 DEF Admit, RunTypeOK, StopReason
  <2>2. CurrentFresh'
    BY <1>3 DEF Admit, CurrentFresh, Selected, Fresh
  <2>3. CurrentMarked' /\ AdmittedOnce'
    BY <1>3 DEF Admit, CurrentMarked, AdmittedOnce
  <2>4. QED
    BY <1>3, <2>1, <2>2, <2>3, QuietStep DEF Admit
<1>4. CASE Dispatch
  <2>1. RunTypeOK'
    BY <1>4 DEF Dispatch, RunTypeOK, StopReason
  <2>2. CurrentFresh'
    BY <1>4 DEF Dispatch, CurrentFresh, Selected, Fresh
  <2>3. CurrentMarked' /\ AdmittedOnce'
    BY <1>4 DEF Dispatch, CurrentMarked, AdmittedOnce
  <2>4. QED
    BY <1>4, <2>1, <2>2, <2>3, QuietStep DEF Dispatch
<1>5. CASE Cancel
  <2>1. RunTypeOK'
    BY <1>5 DEF Cancel, RunTypeOK
  <2>2. CurrentFresh'
    BY <1>5 DEF Cancel, CurrentFresh, Selected, Fresh
  <2>3. CurrentMarked' /\ AdmittedOnce'
    BY <1>5 DEF Cancel, CurrentMarked, AdmittedOnce
  <2>4. QED
    BY <1>5, <2>1, <2>2, <2>3, QuietStep DEF Cancel
<1>6. QED
  BY <1>1, <1>2, <1>3, <1>4, <1>5

LEMMA ReturnInv ==
  ASSUME Inv, NEW returned \in Returned, NEW failed \in BOOLEAN, Return(returned, failed)
  PROVE  Inv'
<1> DEFINE o == Accepted(returned)
           r == [attempt |-> current, outcome |-> o]
<1>1. /\ pc = "execute" /\ current \in Attempt /\ o \in Outcome
      /\ attempts \in Seq(Record) /\ r \in Record
      /\ attempts' = Append(attempts, r)
      /\ UNCHANGED <<ctx, attempted, current, admitted>>
  BY AcceptedOutcome DEF Inv, RunTypeOK, Return, Record
<1>2. /\ attempts' \in Seq(Record) /\ attempts' # << >>
      /\ Len(attempts) \in Nat /\ Len(attempts') = Len(attempts) + 1
      /\ DOMAIN attempts = 1..Len(attempts)
      /\ DOMAIN attempts' = 1..(Len(attempts) + 1)
      /\ \A i \in DOMAIN attempts : attempts'[i] = attempts[i]
      /\ attempts'[Len(attempts) + 1] = r
  BY <1>1, AppendEntries
<1> HIDE DEF o, r
<1>3. /\ \A i \in DOMAIN attempts : Fresh(attempts[i], current)
      /\ \A i \in DOMAIN attempts : Ruled(attempts[i]) /\ Harmless(attempts[i])
      /\ r.attempt = current /\ r.outcome = o
  BY <1>1 DEF Inv, CurrentFresh, Remembered, ReplayedOnlyIdle, Harmless, Selected, r
<1>4. NeverRetried'
  <2> SUFFICES ASSUME NEW i \in DOMAIN attempts', NEW j \in DOMAIN attempts', i < j
               PROVE  Fresh(attempts'[i], attempts'[j].attempt)
    BY DEF NeverRetried, Fresh
  <2>1. i \in DOMAIN attempts /\ attempts'[i] = attempts[i]
    BY <1>2
  <2>2. CASE j = Len(attempts) + 1
    BY <1>2, <1>3, <2>1, <2>2
  <2>3. CASE j # Len(attempts) + 1
    <3>1. j \in DOMAIN attempts /\ attempts'[j] = attempts[j]
      BY <1>2, <2>3
    <3>2. QED
      BY <2>1, <3>1 DEF Inv, NeverRetried, Fresh
  <2>4. QED
    BY <2>2, <2>3
<1>5. CurrentMarked' /\ AdmittedOnce'
      /\ Len(attempts') <= maxAttempts
  <2>1. pc' \in {"stopped", "select"}
    BY DEF Return, Stop, Continue
  <2>2. CurrentMarked' /\ AdmittedOnce'
    BY <1>1, <2>1 DEF Inv, CurrentMarked, AdmittedOnce
  <2>3. Len(attempts') <= maxAttempts
    BY <1>1, <1>2, PlanAssumption DEF Inv, BudgetLeft, IsPlan, MaxAttempts
  <2>4. QED
    BY <2>2, <2>3
<1>6. CASE pc' = "stopped" /\ stop' \in StopReason /\ UNCHANGED <<credentials, connections, preferred>>
  <2>1. RunTypeOK'
    BY <1>1, <1>2, <1>6 DEF Inv, RunTypeOK, Record
  <2>2. ReplayedOnlyIdle'
    <3> SUFFICES ASSUME NEW i \in DOMAIN attempts', i < Len(attempts')
                 PROVE  Harmless(attempts'[i])
      BY <1>6 DEF ReplayedOnlyIdle, Harmless
    <3>1. QED
      BY <1>2, <1>3
  <2>3. Remembered' /\ CurrentFresh' /\ BudgetLeft'
    BY <1>5, <1>6 DEF Remembered, CurrentFresh, BudgetLeft, Selected
  <2>4. QED
    BY <1>4, <1>5, <2>1, <2>2, <2>3 DEF Inv
<1>7. CASE Continue(Len(attempts) + 1) /\ Exclude(o) /\ Replayable(o)
  <2>1. Harmless(r)
    BY <1>3, <1>7, AcceptedOutcome DEF Harmless, o
  <2>2. /\ credentials' \in SUBSET Credentials
        /\ connections' \in SUBSET Connections
        /\ preferred' \in Targets \cup {None}
    <3>1. current.credential \in Credentials /\ current.target \in Targets
          /\ ConnectionOf[current.target] \in Connections
      BY <1>1, PlanAssumption DEF Attempt, IsPlan
    <3>2. QED
      BY <1>7, <3>1 DEF Exclude, Inv, RunTypeOK
  <2>3. RunTypeOK'
    BY <1>1, <1>2, <1>7, <2>2 DEF Inv, RunTypeOK, Record, Continue, Stop, StopReason
  <2>4. ReplayedOnlyIdle'
    <3> SUFFICES ASSUME NEW i \in DOMAIN attempts'
                 PROVE  Harmless(attempts'[i])
      BY DEF ReplayedOnlyIdle, Harmless
    <3>1. QED
      BY <1>2, <1>3, <2>1
  <2>5. Remembered'
    <3>1. credentials \subseteq credentials' /\ connections \subseteq connections'
      BY <1>7 DEF Exclude
    <3>2. \A i \in DOMAIN attempts : Ruled(attempts[i])'
      BY <1>1, <1>2, <1>3, <3>1 DEF Ruled
    <3>3. /\ r.attempt \in attempted'
          /\ r.outcome.failure = "credential_rejected" => r.attempt.credential \in credentials'
          /\ r.outcome.failure \in {"connection_failure", "rate_limited"} =>
               ConnectionOf[r.attempt.target] \in connections'
      BY <1>1, <1>3, <1>7 DEF Exclude, Inv, CurrentMarked
    <3>4. QED
      BY <1>2, <3>2, <3>3 DEF Remembered, Ruled
  <2>6. CurrentFresh' /\ BudgetLeft'
    BY <1>2, <1>5, <1>7, PlanAssumption
    DEF CurrentFresh, BudgetLeft, Selected, Continue, Stop, IsPlan, MaxAttempts
  <2>7. QED
    BY <1>4, <1>5, <2>3, <2>4, <2>5, <2>6 DEF Inv
<1>8. QED
  BY <1>6, <1>7 DEF Return, Stop, StopReason, o

\* Inv is an invariant of Run.
THEOREM RunInvariance == RunSpec => []Inv
<1>1. Inv /\ [RunNext]_runVars => Inv'
  <2> SUFFICES ASSUME Inv, [RunNext]_runVars PROVE Inv'
    OBVIOUS
  <2>1. CASE RunNext
    BY <2>1, SelectInv, HookInv, ReturnInv DEF RunNext, Step
  <2>2. CASE UNCHANGED runVars
    BY <2>2
    DEF runVars, Inv, RunTypeOK, ReplayedOnlyIdle, NeverRetried, Remembered, Ruled, CurrentFresh,
        Fresh, CurrentMarked, BudgetLeft, AdmittedOnce, Selected
  <2>3. QED
    BY <2>1, <2>2
<1>2. QED
  BY RunInitInv, <1>1, PTL DEF RunSpec

\* The state of Run keeps its types: in particular only declared outcomes are
\* recorded, whatever Execute returns.
THEOREM RunTypeCorrect == RunSpec => []RunTypeOK
<1>1. Inv => RunTypeOK
  BY DEF Inv
<1>2. QED
  BY RunInvariance, <1>1, PTL

\* For every plan, an attempt is followed by another only when it is proven to
\* have done no work and to have shown nothing to the client (Run's switch).
THEOREM ReplaySafe == RunSpec => []ReplayedOnlyIdle
<1>1. Inv => ReplayedOnlyIdle
  BY DEF Inv
<1>2. QED
  BY RunInvariance, <1>1, PTL

\* For every plan, no fallback repeats a pair, a rejected credential or a failed
\* connection (progress.excluded and selectAttempt).
THEOREM NoRepetition == RunSpec => []NeverRetried
<1>1. Inv => NeverRetried
  BY DEF Inv
<1>2. QED
  BY RunInvariance, <1>1, PTL

\* The budget holds with the attempt in execution counted, for every MaxAttempts.
THEOREM WithinBudget == RunSpec => []BudgetRespected
<1>1. Inv => BudgetRespected
  <2> SUFFICES ASSUME Inv PROVE BudgetRespected
    OBVIOUS
  <2>1. Len(attempts) \in Nat /\ maxAttempts \in Nat
    BY PlanAssumption DEF Inv, RunTypeOK, IsPlan, MaxAttempts
  <2>2. QED
    BY <2>1 DEF Inv, BudgetLeft, BudgetRespected
<1>2. QED
  BY RunInvariance, <1>1, PTL

\* Nothing is executed, and nothing was, without an admitted request.
THEOREM AdmissionFirst == RunSpec => []AdmittedFirst
<1>1. Inv => AdmittedFirst
  BY DEF Inv, AdmittedOnce, AdmittedFirst
<1>2. QED
  BY RunInvariance, <1>1, PTL

-----------------------------------------------------------------------------
(* One request, its upstream and its record. *)


Bounded == {p \in Payload : Len(p.work) <= maxAttempts}

CallTypes ==
  /\ handler \in {"run", "reserved", "done", "unrecorded", "dead"}
  /\ step \in {"idle", "entered", "named", "sent"}
  /\ attemptId \in BOOLEAN
  /\ evidence \in Seq(Evidence)
  /\ fact \in {NoFact} \cup [kind : {"draft", "final"}, payload : Bounded]
  /\ flush \in {Idle} \cup [phase : {"read", "recorded"}, payload : Bounded]
  /\ row \in {None} \cup Bounded

\* What the upstream may carry out.
Alone == worked \subseteq open /\ \A m, n \in open : m = n
OpenNow == Running /\ pc # "stopped" => open = IF step = "sent" THEN {Number} ELSE {}
Executing == step # "idle" <=> (Running /\ pc = "execute")
Execution == Alone /\ OpenNow /\ Executing

\* What would be recorded of it.
Named == step \in {"named", "sent"}
Warned == Named => attemptId /\ fact.kind = "draft" /\ fact.payload.settled = "unknown"
Unnamed == Running /\ pc # "stopped" /\ ~Named => ~attemptId
Evident == Running /\ open # {} => attemptId \/ ~callAttemptsProveNoWork(evidence)
Honest == /\ fact # NoFact => (fact.payload.settled = "zero" => open = {})
          /\ row # None => (row.settled = "zero" => open = {})
Settlement == Warned /\ Unnamed /\ Evident /\ Honest

\* Every attempt with evidence is an attempt of the loop.
Measured ==
  Running => Len(evidence) + (IF attemptId /\ ~Named THEN 1 ELSE 0) <= Len(attempts)

\* Who may write the record, and what it is.
RunRecord == Running => /\ row = None /\ flush = Idle
                        /\ IF admitted THEN fact.kind = "draft" ELSE fact = NoFact
ReservedRecord == handler = "reserved" => row = None /\ flush = Idle /\ fact.kind = "draft"
Held == handler \in {"run", "reserved"} /\ fact # NoFact => Up
InHand == flush # Idle => /\ fact = Final(flush.payload) /\ Up
                          /\ flush.phase = "recorded" => row # None
SameFact == row # None => fact = NoFact \/ fact = Final(row)
Kept == admitted => fact # NoFact \/ row # None
Recorded == RunRecord /\ ReservedRecord /\ Held /\ InHand /\ SameFact /\ Kept

\* A server that serves was started on the own file.
Bound ==
  /\ path \in {"own", "other"} /\ (path = "other" => Established)
  /\ recorder \in {"bound", "established", "up"} => path = "own"

CallInv ==
  /\ Inv /\ CallTypes /\ Execution /\ Settlement /\ Measured /\ Recorded /\ Bound

-----------------------------------------------------------------------------
(* What the operators on evidence and facts compute.                       *)

LEMMA AppendWork ==
  ASSUME NEW e \in Seq(Evidence), NEW w \in Evidence
  PROVE  /\ Append(e, w) \in Seq(Evidence)
         /\ Len(e) \in Nat /\ Len(Append(e, w)) = Len(e) + 1
         /\ Append(e, w) # << >>
         /\ callAttemptsProveNoWork(Append(e, w)) <=> callAttemptsProveNoWork(e) /\ ProvesNoWork(w)
<1>1. /\ Append(e, w) \in Seq(Evidence)
      /\ Len(e) \in Nat /\ Len(Append(e, w)) = Len(e) + 1
      /\ Append(e, w) # << >>
      /\ DOMAIN e = 1..Len(e) /\ DOMAIN Append(e, w) = 1..(Len(e) + 1)
      /\ \A i \in DOMAIN e : Append(e, w)[i] = e[i]
      /\ Append(e, w)[Len(e) + 1] = w
  OBVIOUS
<1>2. callAttemptsProveNoWork(Append(e, w)) => callAttemptsProveNoWork(e) /\ ProvesNoWork(w)
  BY <1>1 DEF callAttemptsProveNoWork
<1>3. callAttemptsProveNoWork(e) /\ ProvesNoWork(w) => callAttemptsProveNoWork(Append(e, w))
  BY <1>1 DEF callAttemptsProveNoWork
<1>4. QED
  BY <1>1, <1>2, <1>3

\* The fallback: an attempt that is named is never free.
LEMMA FallbackFacts ==
  ASSUME NEW id \in BOOLEAN, NEW e \in Seq(Evidence)
  PROVE  LET p == gatewayFallbackPayload(id, e)
         IN /\ p \in Payload
            /\ Len(p.work) = Len(e) + (IF id THEN 1 ELSE 0)
            /\ p.settled = "zero" => ~id /\ callAttemptsProveNoWork(e)
            /\ id => p.settled = "unknown"
<1>1. "unknown" \in Evidence
  BY DEF Evidence
<1>2. /\ Append(e, "unknown") \in Seq(Evidence)
      /\ Len(e) \in Nat /\ Len(Append(e, "unknown")) = Len(e) + 1
  BY <1>1, AppendWork
<1>3. gatewayInterruptedSettlement(id, e) =
        IF ~id /\ callAttemptsProveNoWork(e) THEN "zero" ELSE "unknown"
  BY DEF gatewayInterruptedSettlement
<1>4. QED
  BY <1>2, <1>3 DEF gatewayFallbackPayload, Payload

\* The final fact: it is free only if no attempt is left unnamed or unproven.
LEMMA FinalFacts ==
  ASSUME attemptId \in BOOLEAN, evidence \in Seq(Evidence), NEW p \in Facts
  PROVE  /\ p \in Payload
         /\ Len(p.work) = Len(evidence) + (IF attemptId THEN 1 ELSE 0)
         /\ p.settled = "zero" => ~attemptId /\ callAttemptsProveNoWork(evidence)
<1>1. PICK status \in {"success", "error"}, usage \in {"measured", "unknown"} :
        p = [work |-> FactWork(status), settled |-> quotaCallSettlement(FactWork(status), usage)]
  BY DEF Facts
<1> DEFINE w == FactWork(status)
           last == IF status = "success" THEN "completed" ELSE "unknown"
<1>2. last \in Evidence /\ ~ProvesNoWork(last)
  BY DEF Evidence, ProvesNoWork
<1>3. /\ Append(evidence, last) \in Seq(Evidence)
      /\ Len(evidence) \in Nat /\ Len(Append(evidence, last)) = Len(evidence) + 1
      /\ ~callAttemptsProveNoWork(Append(evidence, last))
  BY <1>2, AppendWork
<1>4. w = IF ~attemptId THEN evidence ELSE Append(evidence, last)
  BY DEF FactWork
<1>5. quotaCallSettlement(w, usage) \in {"zero", "measured", "unknown"}
      /\ (quotaCallSettlement(w, usage) = "zero" =>
            NoUpstreamWork \/ (w # << >> /\ callAttemptsProveNoWork(w)))
  BY DEF quotaCallSettlement
<1> HIDE DEF w, last
<1>6. quotaCallSettlement(w, usage) = "zero" => ~attemptId /\ callAttemptsProveNoWork(evidence)
  BY <1>3, <1>4, <1>5 DEF NoUpstreamWork
<1>7. w \in Seq(Evidence) /\ Len(w) = Len(evidence) + (IF attemptId THEN 1 ELSE 0)
  BY <1>3, <1>4
<1>8. p.work = w /\ p.settled = quotaCallSettlement(w, usage) /\ p \in Payload
  BY <1>1, <1>5, <1>7 DEF Payload, w
<1>9. QED
  BY <1>6, <1>7, <1>8

LEMMA CallInitInv == Init => CallInv
<1> SUFFICES ASSUME Init PROVE CallInv
  OBVIOUS
<1>1. Inv
  BY RunInitInv DEF Init
<1>2. CallTypes
  <2>1. evidence \in Seq(Evidence)
    BY DEF Init
  <2>2. QED
    BY <2>1 DEF Init, CallTypes
<1>3. Execution
  BY DEF Init, RunInit, Execution, Alone, OpenNow, Executing
<1>4. Settlement
  BY DEF Init, Settlement, Named, Warned, Unnamed, Evident, Honest
<1>5. Measured
  BY DEF Init, RunInit, Measured
<1>6. Recorded
  BY DEF Init, RunInit, Recorded, RunRecord, ReservedRecord, Held, InHand, SameFact, Kept, Running
<1>7. Bound
  BY DEF Init, BindingInit, Bound
<1>8. QED
  BY <1>1, <1>2, <1>3, <1>4, <1>5, <1>6, <1>7 DEF CallInv

-----------------------------------------------------------------------------
(* The retry loop's steps that leave the upstream alone.                   *)

LEMMA PlanInv ==
  ASSUME CallInv, Up, Plan, UNCHANGED bindingVars
  PROVE  CallInv'
<1>1. Running /\ UNCHANGED callVars
  BY DEF Plan
<1>2. Inv'
  BY SelectInv, HookInv DEF Plan, CallInv
<1>3. /\ UNCHANGED <<attempts, admitted>>
      /\ pc' = "execute" <=> pc = "execute"
      /\ pc = "stopped" => pc' = "stopped"
  BY DEF Plan, Select, SelectFails, Prepare, Cancel, Stop, progress
<1> USE <1>1 DEF callVars, CallInv
<1>4. CallTypes'
  BY DEF CallTypes
<1>5. Execution'
  BY <1>3 DEF Execution, Alone, OpenNow, Executing, Running, Number
<1>6. Settlement'
  BY <1>3 DEF Settlement, Warned, Unnamed, Evident, Honest, Named, Running
<1>7. Measured'
  BY <1>3 DEF Measured, Named, Running
<1>8. Recorded'
  BY <1>3 DEF Recorded, RunRecord, ReservedRecord, Held, InHand, SameFact, Kept, Running, Up,
              bindingVars
<1>9. Bound'
  BY DEF Bound, Established, bindingVars
<1>10. QED
  BY <1>2, <1>4, <1>5, <1>6, <1>7, <1>8, <1>9

LEMMA EnterInv ==
  ASSUME CallInv, Up, Enter, UNCHANGED bindingVars
  PROVE  CallInv'
<1>1. /\ Running /\ pc = "dispatch"
      /\ step' = IF ctx = "live" THEN "entered" ELSE step
      /\ UNCHANGED <<handler, attemptId, evidence, fact, flush, row, open, worked>>
  BY DEF Enter, Dispatch, journalVars, upstreamVars
<1>2. Inv'
  BY HookInv DEF Enter, CallInv
<1>3. /\ UNCHANGED <<attempts, admitted>>
      /\ ctx = "live" => pc' = "execute"
      /\ ctx # "live" => pc' = "stopped"
  BY DEF Enter, Dispatch, Stop, CallInv, Inv, RunTypeOK
<1>4. step = "idle" /\ open = {} /\ ~attemptId
  BY <1>1 DEF CallInv, Execution, OpenNow, Executing, Settlement, Unnamed, Named
<1> USE <1>1 DEF CallInv
<1>5. CallTypes'
  BY DEF CallTypes
<1>6. Execution'
  BY <1>3, <1>4 DEF Execution, Alone, OpenNow, Executing, Running
<1>7. Settlement'
  BY <1>3, <1>4 DEF Settlement, Warned, Unnamed, Evident, Honest, Named, Running
<1>8. Measured'
  BY <1>3, <1>4 DEF Measured, Named, Running
<1>9. Recorded'
  BY <1>3 DEF Recorded, RunRecord, ReservedRecord, Held, InHand, SameFact, Kept, Running, Up,
              bindingVars
<1>10. Bound'
  BY DEF Bound, Established, bindingVars
<1>11. QED
  BY <1>2, <1>5, <1>6, <1>7, <1>8, <1>9, <1>10

\* Facts are of their type whatever is drafted or settled.
LEMMA FactTypes ==
  ASSUME NEW p \in Bounded
  PROVE  /\ Draft(p) \in [kind : {"draft", "final"}, payload : Bounded]
         /\ Final(p) \in [kind : {"draft", "final"}, payload : Bounded]
         /\ Draft(p) # NoFact /\ Final(p) # NoFact
         /\ Draft(p).kind = "draft" /\ Draft(p).payload = p
         /\ Final(p).kind = "final" /\ Final(p).payload = p
BY DEF Draft, Final, NoFact

LEMMA AdmitInv ==
  ASSUME CallInv, Up, NEW ok \in BOOLEAN, AdmitGatewayCall(ok), UNCHANGED bindingVars
  PROVE  CallInv'
<1> DEFINE p == gatewayFallbackPayload(attemptId, evidence)
<1>1. /\ Running /\ pc = "admit" /\ admitted' = ok
      /\ fact' = IF ok THEN Draft(p) ELSE fact
      /\ UNCHANGED <<handler, step, attemptId, evidence, flush, row, open, worked, attempts>>
      /\ ok => pc' = "dispatch"
      /\ ~ok => pc' = "stopped"
  BY DEF AdmitGatewayCall, Admit, Stop, upstreamVars
<1>2. Inv'
  BY HookInv DEF AdmitGatewayCall, CallInv
<1>3. /\ step = "idle" /\ open = {} /\ ~attemptId /\ ~admitted /\ fact = NoFact /\ row = None
      /\ flush = Idle
  BY <1>1 DEF CallInv, Execution, OpenNow, Executing, Settlement, Unnamed, Named, Inv, AdmittedOnce,
              Recorded, RunRecord
<1>4. p \in Bounded
  <2>1. p \in Payload /\ Len(p.work) = Len(evidence) /\ Len(evidence) \in Nat
    BY <1>3, FallbackFacts DEF CallInv, CallTypes
  <2>2. Len(evidence) <= Len(attempts) /\ Len(attempts) <= maxAttempts
    BY <1>1, <1>3 DEF CallInv, Measured, Inv, BudgetLeft
  <2>3. Len(attempts) \in Nat /\ maxAttempts \in Nat
    BY PlanAssumption DEF CallInv, Inv, RunTypeOK, IsPlan, MaxAttempts
  <2>4. QED
    BY <2>1, <2>2, <2>3 DEF Bounded
<1> HIDE DEF p
<1> USE <1>1 DEF CallInv
<1>5. CallTypes'
  BY <1>4, FactTypes DEF CallTypes
<1>6. Execution'
  BY <1>3 DEF Execution, Alone, OpenNow, Executing, Running
<1>7. Settlement'
  BY <1>3 DEF Settlement, Warned, Unnamed, Evident, Honest, Named, Running
<1>8. Measured'
  BY <1>3 DEF Measured, Named, Running
<1>9. Recorded'
  BY <1>3, <1>4, FactTypes DEF Recorded, RunRecord, ReservedRecord, Held, InHand, SameFact, Kept,
                               Running, Up, bindingVars
<1>10. Bound'
  BY DEF Bound, Established, bindingVars
<1>11. QED
  BY <1>2, <1>5, <1>6, <1>7, <1>8, <1>9, <1>10

-----------------------------------------------------------------------------
(* The attempt.                                                            *)

\* The loop goes on only over an attempt that proves that it did no work.
LEMMA ReturnFacts ==
  ASSUME Inv, NEW o \in Outcome, NEW failed \in BOOLEAN, Return(o, failed)
  PROVE  /\ Inv' /\ pc = "execute" /\ UNCHANGED admitted
         /\ pc' \in {"select", "stopped"}
         /\ pc' = "select" => ~failed /\ ProvesNoWork(o.work)
         /\ Len(attempts) \in Nat /\ Len(attempts') = Len(attempts) + 1
<1>1. o \in Returned /\ Accepted(o) = o /\ validOutcome(o)
  BY DEF Returned, Outcome, Accepted, validOutcome
<1>2. Inv'
  BY <1>1, ReturnInv
<1>3. /\ pc = "execute" /\ UNCHANGED admitted
      /\ attempts' = Append(attempts, [attempt |-> current, outcome |-> o])
  BY <1>1 DEF Return
<1>4. /\ pc' \in {"select", "stopped"}
      /\ pc' = "select" => ~failed /\ Replayable(o)
  BY <1>1 DEF Return, Stop, Continue
<1>5. [attempt |-> current, outcome |-> o] \in Record /\ attempts \in Seq(Record)
  BY <1>3 DEF Inv, RunTypeOK, Record
<1>6. Len(attempts) \in Nat /\ Len(attempts') = Len(attempts) + 1
  BY <1>3, <1>5, AppendEntries
<1>7. QED
  BY <1>2, <1>3, <1>4, <1>6 DEF Replayable

\* The classified outcomes, and which of them prove no work.
LEMMA OutcomeFacts ==
  /\ NotSent \in Outcome /\ NotSent.work = "not_sent"
  /\ Ended("success", "completed") \in Outcome
  /\ \A reply \in FailedReplies :
       /\ Classified(reply) \in Outcome /\ Classified(reply).work \in Evidence
       /\ ProvesNoWork(Classified(reply).work) => reply \in Proofs
<1>1. ASSUME NEW failure \in Failures, NEW work \in Evidence
      PROVE  Ended(failure, work) \in Outcome /\ Ended(failure, work).work = work
  BY DEF Ended, Outcome
<1>2. NotSent \in Outcome /\ NotSent.work = "not_sent"
      /\ Ended("success", "completed") \in Outcome
  BY <1>1 DEF NotSent, Failures, Evidence
<1>3. ASSUME NEW reply \in FailedReplies
      PROVE  /\ Classified(reply) \in Outcome /\ Classified(reply).work \in Evidence
             /\ ProvesNoWork(Classified(reply).work) => reply \in Proofs
  <2>1. CASE reply = "pre_request_connection" /\ ctx = "live"
    BY <1>1, <2>1 DEF Classified, Failures, Evidence, Proofs
  <2>2. CASE reply = "native_auth_rejection"
    BY <1>1, <2>2 DEF Classified, Failures, Evidence, Proofs
  <2>3. CASE reply = "native_rate_rejection"
    BY <1>1, <2>3 DEF Classified, Failures, Evidence, Proofs
  <2>4. CASE /\ ~(reply = "pre_request_connection" /\ ctx = "live")
             /\ reply # "native_auth_rejection" /\ reply # "native_rate_rejection"
    <3>1. Classified(reply) = Ended("permanent_failure", "unknown")
      BY <2>4 DEF Classified
    <3>2. QED
      BY <1>1, <3>1 DEF Failures, Evidence, ProvesNoWork
  <2>5. QED
    BY <2>1, <2>2, <2>3, <2>4
<1>4. QED
  BY <1>2, <1>3

\* Where the request is while an attempt is executed.
LEMMA InAttempt ==
  ASSUME CallInv, step # "idle"
  PROVE  /\ Running /\ pc = "execute" /\ admitted
         /\ fact \in [kind : {"draft"}, payload : Bounded] /\ row = None /\ flush = Idle
         /\ Len(evidence) \in Nat /\ Len(attempts) \in Nat /\ maxAttempts \in Nat
         /\ Len(evidence) <= Len(attempts) /\ Len(attempts) + 1 <= maxAttempts
         /\ open = (IF step = "sent" THEN {Number} ELSE {})
         /\ attemptId = Named /\ worked \subseteq open
         /\ fact.payload.settled = "zero" => open = {}
<1>1. Running /\ pc = "execute"
  BY DEF CallInv, Execution, Executing
<1>2. admitted
  BY <1>1 DEF CallInv, Inv, AdmittedOnce
<1>3. fact.kind = "draft" /\ row = None /\ flush = Idle
  BY <1>1, <1>2 DEF CallInv, Recorded, RunRecord
<1>4. fact # NoFact /\ fact \in [kind : {"draft"}, payload : Bounded]
  BY <1>3 DEF CallInv, CallTypes, NoFact
<1>5. Len(evidence) \in Nat /\ Len(attempts) \in Nat /\ maxAttempts \in Nat
  BY PlanAssumption DEF CallInv, CallTypes, Inv, RunTypeOK, IsPlan, MaxAttempts
<1>6. attemptId = Named
  BY <1>1 DEF CallInv, CallTypes, Settlement, Warned, Unnamed, Named
<1>7. Len(evidence) <= Len(attempts)
  BY <1>1, <1>5, <1>6 DEF CallInv, Measured
<1>8. Len(attempts) + 1 <= maxAttempts
  BY <1>1, <1>5 DEF CallInv, Inv, BudgetLeft
<1>9. open = (IF step = "sent" THEN {Number} ELSE {}) /\ worked \subseteq open
  BY <1>1 DEF CallInv, Execution, Alone, OpenNow
<1>10. fact.payload.settled = "zero" => open = {}
  BY <1>4 DEF CallInv, Settlement, Honest
<1>11. QED
  BY <1>1, <1>2, <1>3, <1>4, <1>5, <1>6, <1>7, <1>8, <1>9, <1>10

\* An attempt that ends: what its outcome and its record must say of the upstream.
LEMMA AttemptEnds ==
  ASSUME CallInv, Up, UNCHANGED bindingVars, step # "idle",
         NEW o \in Outcome, NEW failed \in BOOLEAN, Return(o, failed),
         step' = "idle", UNCHANGED <<handler, flush, row, worked>>,
         attemptId' \in BOOLEAN, evidence' \in Seq(Evidence),
         Len(evidence') + (IF attemptId' THEN 1 ELSE 0) <= Len(attempts) + 1,
         open' \subseteq open, worked \subseteq open',
         pc' = "select" => open' = {} /\ ~attemptId',
         open' # {} => attemptId' \/ ~callAttemptsProveNoWork(evidence'),
         fact' \in [kind : {"draft"}, payload : Bounded],
         fact'.payload.settled = "zero" => open' = {}
  PROVE  CallInv'
<1>1. /\ Running /\ pc = "execute" /\ admitted /\ row = None /\ flush = Idle
      /\ open = (IF step = "sent" THEN {Number} ELSE {})
  BY InAttempt
<1>2. Inv' /\ UNCHANGED admitted /\ pc' \in {"select", "stopped"}
      /\ Len(attempts) \in Nat /\ Len(attempts') = Len(attempts) + 1
  BY ReturnFacts DEF CallInv
<1>3. fact'.kind = "draft" /\ fact' # NoFact
  BY DEF NoFact
<1>4. CallTypes'
  BY DEF CallInv, CallTypes
<1>5. Execution'
  BY <1>1, <1>2 DEF Execution, Alone, OpenNow, Executing, Running
<1>6. Settlement'
  BY <1>1, <1>2 DEF Settlement, Warned, Unnamed, Evident, Honest, Named, Running
<1>7. Measured'
  BY <1>2 DEF Measured, Named
<1>8. Recorded'
  BY <1>1, <1>2, <1>3 DEF Recorded, RunRecord, ReservedRecord, Held, InHand, SameFact, Kept,
                          Running, Up, bindingVars
<1>9. Bound'
  BY DEF CallInv, Bound, Established, bindingVars
<1>10. QED
  BY <1>2, <1>4, <1>5, <1>6, <1>7, <1>8, <1>9 DEF CallInv

\* A checkpoint in an attempt: what is stored is bounded, and as honest as its
\* evidence.
LEMMA CheckpointFacts ==
  ASSUME fact \in [kind : {"draft"}, payload : Bounded], maxAttempts \in Nat,
         NEW id \in BOOLEAN, NEW e \in Seq(Evidence), NEW ok \in BOOLEAN,
         Len(e) + (IF id THEN 1 ELSE 0) <= maxAttempts,
         CheckpointGatewayCall(id, e, ok)
  PROVE  /\ fact' \in [kind : {"draft"}, payload : Bounded]
         /\ ~ok => fact' = fact
         /\ ok => (fact'.payload.settled = "zero" => ~id /\ callAttemptsProveNoWork(e))
         /\ ok /\ id => fact'.payload.settled = "unknown"
<1> DEFINE p == gatewayFallbackPayload(id, e)
<1>1. /\ p \in Payload
      /\ Len(p.work) = Len(e) + (IF id THEN 1 ELSE 0)
      /\ p.settled = "zero" => ~id /\ callAttemptsProveNoWork(e)
      /\ id => p.settled = "unknown"
  BY FallbackFacts
<1>2. fact' = IF ok THEN Draft(p) ELSE fact
  BY DEF CheckpointGatewayCall
<1> HIDE DEF p
<1>3. p \in Bounded
  BY <1>1 DEF Bounded
<1>4. Draft(p) \in [kind : {"draft"}, payload : Bounded] /\ Draft(p).payload = p
  BY <1>3 DEF Draft
<1>5. QED
  BY <1>1, <1>2, <1>4

LEMMA RefuseInv ==
  ASSUME CallInv, Up, Refuse, UNCHANGED bindingVars
  PROVE  CallInv'
<1>1. /\ step = "entered" /\ Return(NotSent, TRUE) /\ step' = "idle"
      /\ UNCHANGED <<handler, attemptId, evidence, fact, flush, row, open, worked>>
  BY DEF Refuse, journalVars, upstreamVars
<1>2. /\ fact \in [kind : {"draft"}, payload : Bounded]
      /\ Len(evidence) \in Nat /\ Len(attempts) \in Nat /\ Len(evidence) <= Len(attempts)
      /\ open = {} /\ worked \subseteq open
  BY <1>1, InAttempt
<1>3. evidence \in Seq(Evidence) /\ attemptId \in BOOLEAN /\ ~attemptId
  BY <1>1, InAttempt DEF CallInv, CallTypes, Named
<1>4. NotSent \in Outcome
  BY OutcomeFacts
<1> DEFINE failed == TRUE
<1>5. failed \in BOOLEAN /\ Return(NotSent, failed)
  BY <1>1
<1> HIDE DEF failed
<1>6. /\ attemptId' \in BOOLEAN /\ ~attemptId' /\ evidence' \in Seq(Evidence)
      /\ Len(evidence') + (IF attemptId' THEN 1 ELSE 0) <= Len(attempts) + 1
      /\ open' \subseteq open /\ worked \subseteq open' /\ open' = {}
      /\ fact' \in [kind : {"draft"}, payload : Bounded]
  BY <1>1, <1>2, <1>3
<1>7. QED
  BY <1>1, <1>4, <1>5, <1>6, AttemptEnds

LEMMA BeginInv ==
  ASSUME CallInv, Up, NEW ok \in BOOLEAN, BeginAttempt(ok), UNCHANGED bindingVars
  PROVE  CallInv'
<1>1. /\ step = "entered" /\ attemptId' = TRUE
      /\ CheckpointGatewayCall(TRUE, evidence, ok)
      /\ UNCHANGED <<handler, evidence, flush, row, open, worked>>
  BY DEF BeginAttempt, upstreamVars
<1>2. /\ Running /\ pc = "execute" /\ admitted
      /\ fact \in [kind : {"draft"}, payload : Bounded] /\ row = None /\ flush = Idle
      /\ Len(evidence) \in Nat /\ Len(attempts) \in Nat /\ maxAttempts \in Nat
      /\ Len(evidence) <= Len(attempts) /\ Len(attempts) + 1 <= maxAttempts
      /\ open = {} /\ worked \subseteq open
  BY <1>1, InAttempt
<1>3. evidence \in Seq(Evidence)
  BY DEF CallInv, CallTypes
<1>4. /\ fact' \in [kind : {"draft"}, payload : Bounded]
      /\ ok => fact'.payload.settled = "unknown"
  <2> DEFINE id == TRUE
  <2>1. id \in BOOLEAN /\ CheckpointGatewayCall(id, evidence, ok)
    BY <1>1
  <2>2. Len(evidence) + (IF id THEN 1 ELSE 0) <= maxAttempts
    BY <1>2
  <2> HIDE DEF id
  <2>3. /\ fact' \in [kind : {"draft"}, payload : Bounded]
        /\ ok /\ id => fact'.payload.settled = "unknown"
    BY <1>2, <1>3, <2>1, <2>2, CheckpointFacts
  <2>4. QED
    BY <2>3 DEF id
<1>5. CASE ok
  <2>1. step' = "named" /\ UNCHANGED runVars
    BY <1>5 DEF BeginAttempt
  <2>2. Inv'
    BY <2>1 DEF CallInv, runVars, Inv, RunTypeOK, ReplayedOnlyIdle, NeverRetried, Remembered, Ruled,
                CurrentFresh, Fresh, CurrentMarked, BudgetLeft, AdmittedOnce, Selected
  <2>3. CallTypes'
    BY <1>1, <1>4, <2>1 DEF CallInv, CallTypes
  <2>4. Execution'
    BY <1>1, <1>2, <2>1 DEF Execution, Alone, OpenNow, Executing, Running, runVars
  <2>5. Settlement'
    BY <1>1, <1>2, <1>4, <1>5, <2>1 DEF Settlement, Warned, Unnamed, Evident, Honest, Named, Running
  <2>6. Measured'
    BY <1>1, <1>2, <2>1 DEF Measured, Named, runVars
  <2>7. fact'.kind = "draft" /\ fact' # NoFact
    BY <1>4 DEF NoFact
  <2>8. Recorded'
    BY <1>1, <1>2, <2>1, <2>7 DEF Recorded, RunRecord, ReservedRecord, Held, InHand, SameFact, Kept,
                                  Running, Up, bindingVars, runVars
  <2>9. Bound'
    BY DEF CallInv, Bound, Established, bindingVars
  <2>10. QED
    BY <2>2, <2>3, <2>4, <2>5, <2>6, <2>8, <2>9 DEF CallInv
<1>6. CASE ~ok
  <2>1. step' = "idle" /\ Return(NotSent, TRUE)
    BY <1>6 DEF BeginAttempt
  <2>2. NotSent \in Outcome
    BY OutcomeFacts
  <2> DEFINE failed == TRUE
  <2>3. failed \in BOOLEAN /\ Return(NotSent, failed)
    BY <2>1
  <2>4. pc' # "select"
    BY <2>2, <2>3, ReturnFacts DEF CallInv
  <2> HIDE DEF failed
  <2>5. attemptId' \in BOOLEAN /\ Len(evidence') + (IF attemptId' THEN 1 ELSE 0) <= Len(attempts) + 1
    BY <1>1, <1>2
  <2>6. QED
    BY <1>1, <1>2, <1>3, <1>4, <2>1, <2>2, <2>3, <2>4, <2>5, AttemptEnds
<1>7. QED
  BY <1>5, <1>6

LEMMA WithdrawInv ==
  ASSUME CallInv, Up, NEW ok \in BOOLEAN, Withdraw(ok), UNCHANGED bindingVars
  PROVE  CallInv'
<1> DEFINE id == FALSE
           failed == TRUE
<1>1. /\ step = "named" /\ step' = "idle" /\ id \in BOOLEAN /\ failed \in BOOLEAN
      /\ attemptId' = id /\ CheckpointGatewayCall(id, evidence, ok) /\ Return(NotSent, failed)
      /\ UNCHANGED <<handler, evidence, flush, row, open, worked>>
  BY DEF Withdraw, upstreamVars
<1>2. /\ fact \in [kind : {"draft"}, payload : Bounded]
      /\ Len(evidence) \in Nat /\ Len(attempts) \in Nat /\ maxAttempts \in Nat
      /\ Len(evidence) <= Len(attempts) /\ Len(attempts) + 1 <= maxAttempts
      /\ open = {} /\ worked \subseteq open
  BY <1>1, InAttempt
<1>3. evidence \in Seq(Evidence)
  BY DEF CallInv, CallTypes
<1>4. Len(evidence) + (IF id THEN 1 ELSE 0) <= Len(attempts) + 1
  BY <1>2
<1> HIDE DEF id, failed
<1>5. Len(evidence) + (IF id THEN 1 ELSE 0) <= maxAttempts
  BY <1>2, <1>4
<1>6. fact' \in [kind : {"draft"}, payload : Bounded]
  BY <1>1, <1>2, <1>3, <1>5, CheckpointFacts
<1>7. ~attemptId'
  BY <1>1 DEF id
<1>8. /\ attemptId' \in BOOLEAN /\ evidence' \in Seq(Evidence)
      /\ Len(evidence') + (IF attemptId' THEN 1 ELSE 0) <= Len(attempts) + 1
      /\ open' \subseteq open /\ worked \subseteq open' /\ open' = {}
  BY <1>1, <1>2, <1>3, <1>4
<1>9. NotSent \in Outcome
  BY OutcomeFacts
<1>10. QED
  BY <1>1, <1>6, <1>7, <1>8, <1>9, AttemptEnds

\* From here on the upstream may carry the attempt out: the fallback says so.
LEMMA SendInv ==
  ASSUME CallInv, Up, Send, UNCHANGED bindingVars
  PROVE  CallInv'
<1>1. /\ step = "named" /\ step' = "sent" /\ open' = open \cup {Number}
      /\ UNCHANGED <<runVars, handler, attemptId, evidence, fact, flush, row, worked>>
  BY DEF Send, journalVars
<1>2. /\ Running /\ pc = "execute" /\ row = None /\ flush = Idle
      /\ open = {} /\ worked \subseteq open
  BY <1>1, InAttempt
<1>3. attemptId /\ fact.kind = "draft" /\ fact.payload.settled = "unknown"
  BY <1>1 DEF CallInv, Settlement, Warned, Named
<1>4. Inv'
  BY <1>1 DEF CallInv, runVars, Inv, RunTypeOK, ReplayedOnlyIdle, NeverRetried, Remembered, Ruled,
              CurrentFresh, Fresh, CurrentMarked, BudgetLeft, AdmittedOnce, Selected
<1>5. CallTypes'
  BY <1>1 DEF CallInv, CallTypes
<1>6. open' = {Number} /\ Number' = Number /\ pc' = pc
  BY <1>1, <1>2 DEF Number, runVars
<1>7. Execution'
  BY <1>1, <1>2, <1>6 DEF Execution, Alone, OpenNow, Executing, Running
<1>8. Settlement'
  BY <1>1, <1>2, <1>3, <1>6 DEF Settlement, Warned, Unnamed, Evident, Honest, Named, Running
<1>9. Measured'
  BY <1>1 DEF CallInv, Measured, Named, Running, runVars
<1>10. Recorded'
  BY <1>1 DEF CallInv, Recorded, RunRecord, ReservedRecord, Held, InHand, SameFact, Kept,
              Running, Up, bindingVars, runVars
<1>11. Bound'
  BY DEF CallInv, Bound, Established, bindingVars
<1>12. QED
  BY <1>4, <1>5, <1>7, <1>8, <1>9, <1>10, <1>11 DEF CallInv

\* A failed reply: the attempt is closed upstream exactly when its evidence says
\* so, in the outcome, in the evidence kept and in the checkpoint.
LEMMA FailedReplyInv ==
  ASSUME CallInv, Up, NEW reply \in FailedReplies, NEW ok \in BOOLEAN, FailedReply(reply, ok),
         UNCHANGED bindingVars
  PROVE  CallInv'
<1> DEFINE id == FALSE
           failed == ~ok
           o == Classified(reply)
           e == Append(evidence, o.work)
<1>1. /\ step = "sent" /\ step' = "idle" /\ id \in BOOLEAN /\ failed \in BOOLEAN
      /\ attemptId' = id /\ evidence' = e
      /\ CheckpointGatewayCall(id, e, ok) /\ Return(o, failed)
      /\ UNCHANGED <<handler, flush, row, worked>>
  BY DEF FailedReply
<1>2. /\ reply \in Proofs => Number \notin worked
      /\ open' = IF reply \in Proofs THEN open \ {Number} ELSE open
  BY DEF FailedReply
<1>3. /\ fact \in [kind : {"draft"}, payload : Bounded]
      /\ Len(evidence) \in Nat /\ Len(attempts) \in Nat /\ maxAttempts \in Nat
      /\ Len(evidence) <= Len(attempts) /\ Len(attempts) + 1 <= maxAttempts
      /\ open = {Number} /\ worked \subseteq open
  BY <1>1, InAttempt
<1>4. o \in Outcome /\ o.work \in Evidence /\ (ProvesNoWork(o.work) => reply \in Proofs)
  BY OutcomeFacts
<1>5. evidence \in Seq(Evidence) /\ fact.payload.settled = "unknown"
  BY <1>1 DEF CallInv, CallTypes, Settlement, Warned, Named
<1>6. open' \subseteq open /\ worked \subseteq open' /\ (reply \in Proofs => open' = {})
  BY <1>2, <1>3
<1> HIDE DEF o
<1>7. /\ e \in Seq(Evidence) /\ Len(e) = Len(evidence) + 1
      /\ callAttemptsProveNoWork(e) => reply \in Proofs
  BY <1>4, <1>5, AppendWork
<1> HIDE DEF e
<1>8. Len(e) + (IF id THEN 1 ELSE 0) <= Len(attempts) + 1
  BY <1>3, <1>7
<1>9. ~attemptId'
  BY <1>1
<1> HIDE DEF id, failed
<1>10. Len(e) + (IF id THEN 1 ELSE 0) <= maxAttempts
  <2>1. Len(e) \in Nat
    BY <1>3, <1>7
  <2>2. QED
    BY <1>3, <1>8, <2>1
<1>11. /\ fact' \in [kind : {"draft"}, payload : Bounded]
       /\ ~ok => fact' = fact
       /\ ok => (fact'.payload.settled = "zero" => callAttemptsProveNoWork(e))
  BY <1>1, <1>3, <1>7, <1>10, CheckpointFacts
<1>12. fact'.payload.settled = "zero" => open' = {}
  BY <1>5, <1>6, <1>7, <1>11
<1>13. pc' = "select" => open' = {} /\ ~attemptId'
  <2>1. pc' = "select" => ProvesNoWork(o.work)
    BY <1>1, <1>4, ReturnFacts DEF CallInv
  <2>2. QED
    BY <1>4, <1>6, <1>9, <2>1
<1>14. open' # {} => ~callAttemptsProveNoWork(evidence')
  BY <1>1, <1>6, <1>7 DEF callAttemptsProveNoWork
<1>15. attemptId' \in BOOLEAN /\ evidence' \in Seq(Evidence)
       /\ Len(evidence') + (IF attemptId' THEN 1 ELSE 0) <= Len(attempts) + 1
  BY <1>1, <1>7, <1>8
<1>16. QED
  BY <1>1, <1>4, <1>6, <1>11, <1>12, <1>13, <1>14, <1>15, AttemptEnds

LEMMA GoodReplyInv ==
  ASSUME CallInv, Up, GoodReply, UNCHANGED bindingVars
  PROVE  CallInv'
<1> DEFINE failed == FALSE
           o == Ended("success", "completed")
<1>1. /\ step = "sent" /\ step' = "idle" /\ failed \in BOOLEAN /\ Return(o, failed)
      /\ UNCHANGED <<handler, attemptId, evidence, fact, flush, row, open, worked>>
  BY DEF GoodReply, journalVars, upstreamVars
<1>2. /\ fact \in [kind : {"draft"}, payload : Bounded]
      /\ Len(evidence) \in Nat /\ Len(attempts) \in Nat
      /\ Len(evidence) <= Len(attempts) /\ worked \subseteq open
  BY <1>1, InAttempt
<1>3. /\ evidence \in Seq(Evidence) /\ attemptId \in BOOLEAN /\ attemptId
      /\ fact.payload.settled = "unknown"
  BY <1>1 DEF CallInv, CallTypes, Settlement, Warned, Named
<1>4. o \in Outcome /\ ~ProvesNoWork(o.work)
  BY OutcomeFacts DEF Ended, ProvesNoWork
<1> HIDE DEF failed, o
<1>5. pc' # "select"
  BY <1>1, <1>4, ReturnFacts DEF CallInv
<1>6. /\ attemptId' \in BOOLEAN /\ attemptId' /\ evidence' \in Seq(Evidence)
      /\ Len(evidence') + (IF attemptId' THEN 1 ELSE 0) <= Len(attempts) + 1
      /\ fact' \in [kind : {"draft"}, payload : Bounded] /\ fact'.payload.settled # "zero"
      /\ open' \subseteq open /\ worked \subseteq open'
  BY <1>1, <1>2, <1>3
<1>7. QED
  BY <1>1, <1>4, <1>5, <1>6, AttemptEnds

-----------------------------------------------------------------------------
(* The record.                                                             *)

\* What does not touch the loop keeps its invariant.
LEMMA RunKept ==
  ASSUME Inv, UNCHANGED runVars
  PROVE  Inv'
BY DEF runVars, Inv, RunTypeOK, ReplayedOnlyIdle, NeverRetried, Remembered, Ruled, CurrentFresh,
       Fresh, CurrentMarked, BudgetLeft, AdmittedOnce, Selected

\* A step that writes the record only.
LEMMA RecordStep ==
  ASSUME CallInv, UNCHANGED <<runVars, step, attemptId, evidence, open, worked>>,
         step = "idle" \/ UNCHANGED <<handler, fact>>,
         Running' => Running, CallTypes', Honest', Recorded', Bound'
  PROVE  CallInv'
<1>1. Inv'
  BY RunKept DEF CallInv
<1>2. UNCHANGED <<pc, attempts, admitted>>
  BY DEF runVars
<1>3. Execution'
  BY <1>2 DEF CallInv, Execution, Alone, OpenNow, Executing, Running, Number
<1>4. Settlement'
  BY <1>2 DEF CallInv, Settlement, Warned, Unnamed, Evident, Named, Running
<1>5. Measured'
  BY <1>2 DEF CallInv, Measured, Named, Running
<1>6. QED
  BY <1>1, <1>3, <1>4, <1>5 DEF CallInv

\* The final fact of a request that stopped fits its bound and is honest.
LEMMA StoppedFacts ==
  ASSUME CallInv, Running, pc = "stopped", NEW p \in Facts
  PROVE  p \in Bounded /\ (p.settled = "zero" => open = {}) /\ step = "idle"
<1>1. step = "idle"
  BY DEF CallInv, Execution, Executing
<1>2. attemptId \in BOOLEAN /\ evidence \in Seq(Evidence) /\ Len(evidence) \in Nat
  BY DEF CallInv, CallTypes
<1>3. /\ p \in Payload /\ Len(p.work) = Len(evidence) + (IF attemptId THEN 1 ELSE 0)
      /\ p.settled = "zero" => ~attemptId /\ callAttemptsProveNoWork(evidence)
  BY <1>2, FinalFacts
<1>4. Len(evidence) + (IF attemptId THEN 1 ELSE 0) <= Len(attempts)
  BY <1>1 DEF CallInv, Measured, Named
<1>5. Len(attempts) <= maxAttempts /\ Len(attempts) \in Nat /\ maxAttempts \in Nat
  BY PlanAssumption DEF CallInv, Inv, BudgetLeft, RunTypeOK, IsPlan, MaxAttempts
<1>6. Len(p.work) <= maxAttempts
  BY <1>2, <1>3, <1>4, <1>5
<1>7. p.settled = "zero" => open = {}
  BY <1>3 DEF CallInv, Settlement, Evident
<1>8. QED
  BY <1>1, <1>3, <1>6, <1>7 DEF Bounded

LEMMA PersistInv ==
  ASSUME CallInv, Up, PersistGatewayCall \/ ReserveRejected, UNCHANGED bindingVars
  PROVE  CallInv'
<1>1. /\ Running /\ pc = "stopped"
      /\ UNCHANGED <<runVars, step, attemptId, evidence, flush, row, open, worked>>
  BY DEF PersistGatewayCall, ReserveRejected, upstreamVars
<1>2. PICK p \in Facts :
        \/ handler' = "done" /\ fact' = Final(p)
        \/ handler' = "reserved" /\ fact' = Draft(p)
  BY DEF PersistGatewayCall, ReserveRejected
<1>3. p \in Bounded /\ (p.settled = "zero" => open = {}) /\ step = "idle"
  BY <1>1, StoppedFacts
<1>4. /\ fact' \in [kind : {"draft", "final"}, payload : Bounded] /\ fact' # NoFact
      /\ fact'.payload = p /\ (handler' = "reserved" => fact'.kind = "draft")
  BY <1>2, <1>3, FactTypes
<1>5. row = None /\ flush = Idle
  BY <1>1 DEF CallInv, Recorded, RunRecord
<1>6. CallTypes'
  BY <1>1, <1>2, <1>4 DEF CallInv, CallTypes
<1>7. Honest'
  BY <1>1, <1>3, <1>4, <1>5 DEF Honest
<1>8. Recorded'
  BY <1>1, <1>2, <1>4, <1>5 DEF Recorded, RunRecord, ReservedRecord, Held, InHand, SameFact, Kept,
                                Running, Up, bindingVars
<1>9. Bound'
  BY DEF CallInv, Bound, Established, bindingVars
<1>10. ~Running'
  BY <1>2 DEF Running
<1>11. QED
  BY <1>1, <1>3, <1>6, <1>7, <1>8, <1>9, <1>10, RecordStep

LEMMA CompleteInv ==
  ASSUME CallInv, Up, CompleteRejected \/ PersistFails, UNCHANGED bindingVars
  PROVE  CallInv'
<1>1. /\ handler' \in {"done", "unrecorded"}
      /\ fact' = fact \/ (handler = "reserved" /\ fact' = Final(fact.payload))
      /\ (Running /\ pc = "stopped") \/ handler = "reserved"
      /\ UNCHANGED <<runVars, step, attemptId, evidence, flush, row, open, worked>>
  BY DEF CompleteRejected, PersistFails, journalVars, upstreamVars
<1>2. step = "idle" /\ row = None /\ flush = Idle
  BY <1>1 DEF CallInv, Execution, Executing, Recorded, RunRecord, ReservedRecord, Running
<1>3. /\ fact' \in {NoFact} \cup [kind : {"draft", "final"}, payload : Bounded]
      /\ fact # NoFact <=> fact' # NoFact
      /\ fact # NoFact => fact'.payload = fact.payload
  <2>1. CASE fact' = fact
    BY <2>1 DEF CallInv, CallTypes
  <2>2. CASE handler = "reserved" /\ fact' = Final(fact.payload)
    <3>1. fact # NoFact /\ fact.payload \in Bounded
      BY <2>2 DEF CallInv, CallTypes, Recorded, ReservedRecord, NoFact
    <3>2. QED
      BY <2>2, <3>1, FactTypes
  <2>3. QED
    BY <1>1, <2>1, <2>2
<1>4. CallTypes'
  BY <1>1, <1>3 DEF CallInv, CallTypes
<1>5. Honest'
  BY <1>1, <1>3 DEF CallInv, Settlement, Honest
<1>6. Recorded'
  BY <1>1, <1>2, <1>3 DEF CallInv, Recorded, RunRecord, ReservedRecord, Held, InHand, SameFact,
                          Kept, Running, runVars
<1>7. Bound'
  BY DEF CallInv, Bound, Established, bindingVars
<1>8. ~Running'
  BY <1>1 DEF Running
<1>9. QED
  BY <1>1, <1>2, <1>4, <1>5, <1>6, <1>7, <1>8, RecordStep

\* What FlushCallRecorder reads and holds is the final fact, of a request whose
\* handler is through with it.
LEMMA FlushReadInv ==
  ASSUME CallInv, Up, FlushRead, UNCHANGED bindingVars
  PROVE  CallInv'
<1>1. /\ fact.kind = "final" /\ flush = Idle
      /\ flush' = [phase |-> "read", payload |-> fact.payload]
      /\ UNCHANGED <<runVars, handler, step, attemptId, evidence, fact, row, open, worked>>
  BY DEF FlushRead, upstreamVars
<1>2. fact # NoFact /\ fact \in [kind : {"draft", "final"}, payload : Bounded]
  BY <1>1 DEF CallInv, CallTypes, NoFact
<1>3. fact.payload \in Bounded /\ fact = Final(fact.payload)
  BY <1>1, <1>2 DEF Final
<1>4. handler \notin {"run", "reserved"}
  BY <1>1, <1>2 DEF CallInv, Recorded, RunRecord, ReservedRecord, Running
<1>5. flush' \in [phase : {"read", "recorded"}, payload : Bounded]
      /\ flush'.payload = fact.payload /\ flush'.phase = "read"
  BY <1>1, <1>3
<1>6. CallTypes'
  BY <1>1, <1>5 DEF CallInv, CallTypes
<1>7. Honest'
  BY <1>1 DEF CallInv, Settlement, Honest
<1>8. Recorded'
  BY <1>1, <1>3, <1>4, <1>5 DEF CallInv, Recorded, RunRecord, ReservedRecord, Held, InHand, SameFact,
                                Kept, Running, Up, bindingVars, runVars
<1>9. Bound'
  BY DEF CallInv, Bound, Established, bindingVars
<1>10. QED
  BY <1>1, <1>6, <1>7, <1>8, <1>9, RecordStep DEF Running

\* What holds while an entry is in hand.
LEMMA FlushFacts ==
  ASSUME CallInv, flush # Idle
  PROVE  /\ flush \in [phase : {"read", "recorded"}, payload : Bounded]
         /\ flush.payload \in Bounded /\ flush.payload # None
         /\ fact = Final(flush.payload) /\ fact # NoFact /\ fact.payload = flush.payload
         /\ handler \notin {"run", "reserved"}
         /\ row # None => row = flush.payload
<1>1. flush \in [phase : {"read", "recorded"}, payload : Bounded] /\ flush.payload \in Bounded
  BY DEF CallInv, CallTypes
<1>2. flush.payload # None
  BY <1>1, CallAssumption DEF Bounded
<1>3. fact = Final(flush.payload)
  BY DEF CallInv, Recorded, InHand
<1>4. fact # NoFact /\ fact.payload = flush.payload
  BY <1>1, <1>3, FactTypes
<1>5. handler \notin {"run", "reserved"}
  BY DEF CallInv, Recorded, RunRecord, ReservedRecord, Running
<1>6. row # None => row = flush.payload
  <2>1. row # None => Final(row) = Final(flush.payload)
    BY <1>3, <1>4 DEF CallInv, Recorded, SameFact
  <2>2. QED
    BY <2>1 DEF Final
<1>7. QED
  BY <1>1, <1>2, <1>3, <1>4, <1>5, <1>6

LEMMA RecordCallInv ==
  ASSUME CallInv, Up, NEW heard \in BOOLEAN, RecordCall(heard), UNCHANGED bindingVars
  PROVE  CallInv'
<1>1. /\ flush.phase = "read" /\ row' = Inserted(flush.payload)
      /\ flush' = IF heard THEN [flush EXCEPT !.phase = "recorded"] ELSE Idle
      /\ UNCHANGED <<runVars, handler, step, attemptId, evidence, fact, open, worked>>
  BY DEF RecordCall, upstreamVars
<1>2. flush # Idle
  BY <1>1 DEF Idle
<1>3. /\ flush \in [phase : {"read", "recorded"}, payload : Bounded]
      /\ flush.payload \in Bounded /\ flush.payload # None
      /\ fact = Final(flush.payload) /\ fact # NoFact /\ fact.payload = flush.payload
      /\ handler \notin {"run", "reserved"}
      /\ row # None => row = flush.payload
  BY <1>2, FlushFacts
<1>4. row' = flush.payload
  BY <1>1, <1>3 DEF Inserted
<1>5. \/ flush' = Idle
      \/ flush' \in [phase : {"read", "recorded"}, payload : Bounded]
         /\ flush'.payload = flush.payload
  BY <1>1, <1>3
<1>6. CallTypes'
  BY <1>1, <1>3, <1>4, <1>5 DEF CallInv, CallTypes
<1>7. Honest'
  BY <1>1, <1>3, <1>4 DEF CallInv, Settlement, Honest
<1>8. Recorded'
  BY <1>1, <1>3, <1>4, <1>5 DEF CallInv, Recorded, RunRecord, ReservedRecord, Held, InHand, SameFact,
                                Kept, Running, Up, bindingVars, runVars
<1>9. Bound'
  BY DEF CallInv, Bound, Established, bindingVars
<1>10. QED
  BY <1>1, <1>6, <1>7, <1>8, <1>9, RecordStep DEF Running

LEMMA AckInv ==
  ASSUME CallInv, Up, Ack \/ FlushFails, UNCHANGED bindingVars
  PROVE  CallInv'
<1>1. /\ flush' = Idle
      /\ \/ flush.phase = "recorded" /\ fact' = NoFact
         \/ flush # Idle /\ fact' = fact
      /\ UNCHANGED <<runVars, handler, step, attemptId, evidence, row, open, worked>>
  BY DEF Ack, FlushFails, upstreamVars
<1>2. flush # Idle
  BY <1>1 DEF Idle
<1>3. fact' = NoFact => row # None
  BY <1>1, <1>2, FlushFacts DEF CallInv, Recorded, InHand
<1>4. handler \notin {"run", "reserved"} /\ (fact' = fact \/ fact' = NoFact)
  BY <1>1, <1>2, FlushFacts
<1>5. step = "idle"
  BY <1>4 DEF CallInv, Execution, Executing, Running
<1>6. CallTypes'
  BY <1>1, <1>4 DEF CallInv, CallTypes
<1>7. Honest'
  BY <1>1, <1>4 DEF CallInv, Settlement, Honest
<1>8. Recorded'
  BY <1>1, <1>3, <1>4 DEF CallInv, Recorded, RunRecord, ReservedRecord, Held, InHand, SameFact,
                          Kept, Running, Up, bindingVars, runVars
<1>9. Bound'
  BY DEF CallInv, Bound, Established, bindingVars
<1>10. QED
  BY <1>1, <1>5, <1>6, <1>7, <1>8, <1>9, RecordStep DEF Running

-----------------------------------------------------------------------------
(* The upstream, crashes and starts.                                       *)

LEMMA UpstreamInv ==
  ASSUME CallInv, UpstreamWorks, UNCHANGED bindingVars
  PROVE  CallInv'
<1>1. /\ worked' \subseteq open
      /\ UNCHANGED <<runVars, handler, step, attemptId, evidence, fact, flush, row, open>>
  BY DEF UpstreamWorks, journalVars, CallInv, Execution, Alone
<1>2. Inv'
  BY <1>1, RunKept DEF CallInv
<1>3. CallTypes'
  BY <1>1 DEF CallInv, CallTypes
<1>4. Execution'
  BY <1>1 DEF CallInv, Execution, Alone, OpenNow, Executing, Running, Number, runVars
<1>5. Settlement'
  BY <1>1 DEF CallInv, Settlement, Warned, Unnamed, Evident, Honest, Named, Running, runVars
<1>6. Measured'
  BY <1>1 DEF CallInv, Measured, Named, Running, runVars
<1>7. Recorded'
  BY <1>1 DEF CallInv, Recorded, RunRecord, ReservedRecord, Held, InHand, SameFact, Kept, Running,
              Up, bindingVars, runVars
<1>8. Bound'
  BY DEF CallInv, Bound, Established, bindingVars
<1>9. QED
  BY <1>2, <1>3, <1>4, <1>5, <1>6, <1>7, <1>8 DEF CallInv

\* The process dies: what it had in memory is gone, the record is not.
LEMMA CrashInv ==
  ASSUME CallInv, Crash
  PROVE  CallInv'
<1>1. /\ handler' = "dead" /\ recorder' = "down" /\ pc' = "stopped" /\ ctx' = "canceled"
      /\ attempted' = {} /\ credentials' = {} /\ connections' = {} /\ preferred' = None
      /\ current' = None /\ attempts' = << >> /\ stop' = None
      /\ step' = "idle" /\ attemptId' = FALSE /\ evidence' = << >> /\ flush' = Idle
      /\ UNCHANGED <<admitted, fact, row, open, worked, path, installation>>
  BY DEF Crash, upstreamVars
<1>2. Inv'
  <2>1. attempts' \in Seq([attempt : Attempt, outcome : Outcome])
    BY <1>1
  <2>2. RunTypeOK'
    BY <1>1, <2>1 DEF CallInv, Inv, RunTypeOK
  <2>3. DOMAIN attempts' = {} /\ Len(attempts') = 0
    BY <1>1
  <2>4. ReplayedOnlyIdle' /\ NeverRetried' /\ Remembered' /\ CurrentFresh'
    BY <2>3 DEF ReplayedOnlyIdle, NeverRetried, Remembered, CurrentFresh
  <2>5. CurrentMarked' /\ BudgetLeft' /\ AdmittedOnce'
    BY <1>1, <2>3, PlanAssumption DEF CurrentMarked, BudgetLeft, AdmittedOnce, IsPlan, MaxAttempts
  <2>6. QED
    BY <2>2, <2>4, <2>5 DEF Inv
<1>3. CallTypes'
  <2>1. evidence' \in Seq(Evidence)
    BY <1>1
  <2>2. QED
    BY <1>1, <2>1 DEF CallInv, CallTypes
<1>4. Execution'
  BY <1>1 DEF CallInv, Execution, Alone, OpenNow, Executing, Running
<1>5. Settlement'
  BY <1>1 DEF CallInv, Settlement, Warned, Unnamed, Evident, Honest, Named, Running
<1>6. Measured'
  BY <1>1 DEF Measured, Running
<1>7. Recorded'
  BY <1>1 DEF CallInv, Recorded, RunRecord, ReservedRecord, Held, InHand, SameFact, Kept, Running
<1>8. Bound'
  BY <1>1 DEF CallInv, Bound, Established
<1>9. QED
  BY <1>2, <1>3, <1>4, <1>5, <1>6, <1>7, <1>8 DEF CallInv

\* A file is opened: its draft becomes the fact to deliver.  No request runs on it.
LEMMA ReopenInv ==
  ASSUME CallInv, Reopen
  PROVE  CallInv'
<1>1. /\ recorder = "down" /\ recorder' = "opened" /\ fact' = Interrupted
      /\ UNCHANGED <<runVars, handler, step, attemptId, evidence, flush, row, open, worked,
                     path, installation>>
  BY DEF Reopen, OpenQueue, upstreamVars
<1>2. flush = Idle
  BY <1>1 DEF CallInv, Recorded, InHand, Up
<1>3. fact # NoFact => handler \notin {"run", "reserved"}
  BY <1>1 DEF CallInv, Recorded, Held, Up
<1>4. \/ fact' = fact
      \/ /\ fact # NoFact /\ fact.kind = "draft" /\ fact.payload \in Bounded
         /\ fact' = Final(fact.payload)
  BY <1>1 DEF Interrupted, CallInv, CallTypes, NoFact
<1>5. /\ fact' \in {NoFact} \cup [kind : {"draft", "final"}, payload : Bounded]
      /\ fact # NoFact <=> fact' # NoFact
      /\ fact # NoFact => fact'.payload = fact.payload
  BY <1>4, FactTypes DEF CallInv, CallTypes
<1>6. row # None => fact' = fact
  BY <1>4 DEF CallInv, Recorded, SameFact, Final
<1>7. step = "idle" \/ UNCHANGED <<handler, fact>>
  BY <1>1, <1>3, <1>4 DEF CallInv, Execution, Executing, Running
<1>8. CallTypes'
  BY <1>1, <1>5 DEF CallInv, CallTypes
<1>9. Honest'
  BY <1>1, <1>5 DEF CallInv, Settlement, Honest
<1>10. Recorded'
  <2>1. RunRecord' /\ ReservedRecord' /\ Held'
    BY <1>1, <1>3, <1>4 DEF CallInv, Recorded, RunRecord, ReservedRecord, Held, Running, runVars
  <2>2. InHand' /\ SameFact' /\ Kept'
    BY <1>1, <1>2, <1>5, <1>6 DEF CallInv, Recorded, InHand, SameFact, Kept, runVars
  <2>3. QED
    BY <2>1, <2>2 DEF Recorded
<1>11. Bound'
  BY <1>1 DEF CallInv, Bound, Established
<1>12. QED
  BY <1>1, <1>7, <1>8, <1>9, <1>10, <1>11, RecordStep DEF Running

\* A start, an activation of the ledger or the operator: only the binding moves.
LEMMA BesideInv ==
  ASSUME CallInv, UNCHANGED <<runVars, callVars>>,
         Accounting \/ StartCallRecorder \/ ReplaceFile
  PROVE  CallInv'
<1>1. UNCHANGED <<handler, step, attemptId, evidence, fact, flush, row, open, worked>>
  BY DEF callVars
<1>2. Up => Up'
  BY DEF Up, Accounting, FreezeAccounting, EnableQuota, WriteQuotaSettings, StartCallRecorder,
         BindInstallation, validateQuotaJournal, StartFails, NameInstallation,
         InitializeInstallation, ReplaceFile
<1>3. Bound'
  <2>1. CASE Accounting
    BY <2>1 DEF CallInv, Bound, Established, Accounting, FreezeAccounting, EnableQuota,
                WriteQuotaSettings
  <2>2. CASE StartCallRecorder
    <3>1. CASE BindInstallation
      BY <3>1 DEF BindInstallation, CallInv, Bound, Established
    <3>2. CASE validateQuotaJournal \/ StartFails
      BY <3>2 DEF validateQuotaJournal, StartFails, CallInv, Bound, Established
    <3>3. ASSUME NEW heard \in BOOLEAN, NameInstallation(heard)
          PROVE  Bound'
      BY <3>3 DEF NameInstallation, CallInv, Bound, Established
    <3>4. ASSUME NEW heard \in BOOLEAN, InitializeInstallation(heard)
          PROVE  Bound'
      BY <3>4 DEF InitializeInstallation, CallInv, Bound, Established
    <3>5. QED
      BY <2>2, <3>1, <3>2, <3>3, <3>4 DEF StartCallRecorder
  <2>3. CASE ReplaceFile
    BY <2>3 DEF ReplaceFile, CallInv, Bound, Established
  <2>4. QED
    BY <2>1, <2>2, <2>3
<1>4. CallTypes' /\ Honest'
  BY <1>1 DEF CallInv, CallTypes, Settlement, Honest
<1>5. Recorded'
  BY <1>1, <1>2 DEF CallInv, Recorded, RunRecord, ReservedRecord, Held, InHand, SameFact, Kept,
                    Running, runVars
<1>6. QED
  BY <1>1, <1>3, <1>4, <1>5, RecordStep DEF Running

-----------------------------------------------------------------------------
(* Every step.                                                             *)

LEMMA ServingInv ==
  ASSUME CallInv, Serving(Work) \/ Serving(Deliver)
  PROVE  CallInv'
<1>1. Up /\ UNCHANGED bindingVars /\ (Work \/ Deliver)
  BY DEF Serving
<1>2. CASE Work
  <2>1. ASSUME NEW ok \in BOOLEAN, AdmitGatewayCall(ok) \/ BeginAttempt(ok) \/ Withdraw(ok)
        PROVE  CallInv'
    BY <1>1, <2>1, AdmitInv, BeginInv, WithdrawInv
  <2>2. ASSUME NEW reply \in FailedReplies, NEW ok \in BOOLEAN, FailedReply(reply, ok)
        PROVE  CallInv'
    BY <1>1, <2>2, FailedReplyInv
  <2>3. CASE Plan \/ Enter \/ Refuse \/ Send \/ GoodReply
    BY <1>1, <2>3, PlanInv, EnterInv, RefuseInv, SendInv, GoodReplyInv
  <2>4. CASE PersistGatewayCall \/ ReserveRejected \/ CompleteRejected \/ PersistFails
    BY <1>1, <2>4, PersistInv, CompleteInv
  <2>5. QED
    BY <1>2, <2>1, <2>2, <2>3, <2>4 DEF Work
<1>3. CASE Deliver
  BY <1>1, <1>3, FlushReadInv, RecordCallInv, AckInv DEF Deliver
<1>4. QED
  BY <1>1, <1>2, <1>3

LEMMA CallStepInv ==
  ASSUME CallInv, [Next]_vars
  PROVE  CallInv'
<1>1. CASE Serving(Work) \/ Serving(Deliver)
  BY <1>1, ServingInv
<1>2. CASE UpstreamWorks /\ UNCHANGED bindingVars
  BY <1>2, UpstreamInv
<1>3. CASE Beside(Accounting) \/ Beside(StartCallRecorder) \/ Beside(ReplaceFile)
  BY <1>3, BesideInv DEF Beside
<1>4. CASE Crash
  BY <1>4, CrashInv
<1>5. CASE Reopen
  BY <1>5, ReopenInv
<1>6. CASE UNCHANGED vars
  <2>1. UNCHANGED <<runVars, callVars, bindingVars>>
    BY <1>6 DEF vars
  <2>2. CallTypes' /\ Honest'
    BY <2>1 DEF CallInv, CallTypes, Settlement, Honest, callVars
  <2>3. Recorded'
    BY <2>1 DEF CallInv, Recorded, RunRecord, ReservedRecord, Held, InHand, SameFact, Kept,
                Running, Up, runVars, callVars, bindingVars
  <2>4. Bound'
    BY <2>1 DEF CallInv, Bound, Established, bindingVars
  <2>5. QED
    BY <2>1, <2>2, <2>3, <2>4, RecordStep DEF callVars, Running
<1>7. QED
  BY <1>1, <1>2, <1>3, <1>4, <1>5, <1>6 DEF Next

\* The inductive invariant, for every plan, budget and zone: one author of the
\* record at a time, and at most the attempt it warns of open upstream.
THEOREM CallInvariance == Spec => []CallInv
BY CallInitInv, CallStepInv, PTL DEF Spec

\* For every plan and budget, whenever the process dies: what the journal or the
\* database says of a call is free of work only when the upstream has, and will
\* get, nothing of it to do (gatewayFallbackPayload, recordGatewayCall).
THEOREM NoFreeWorkAlways == Spec => []NoFreeWork
<1>1. CallInv => NoFreeWork
  <2> SUFFICES ASSUME CallInv, NEW p \in Records, p.settled = "zero" PROVE open = {}
    BY DEF NoFreeWork
  <2>1. CASE p \in {row} \ {None}
    BY <2>1 DEF CallInv, Settlement, Honest
  <2>2. CASE fact # NoFact /\ p = fact.payload
    BY <2>2 DEF CallInv, Settlement, Honest
  <2>3. CASE flush # Idle /\ p = flush.payload
    BY <2>3, FlushFacts DEF CallInv, Settlement, Honest
  <2>4. QED
    BY <2>1, <2>2, <2>3 DEF Records
<1>2. QED
  BY CallInvariance, <1>1, PTL

\* For every plan and budget, the upstream carries out at most one attempt of a
\* request, whatever times out, is canceled or is answered late (Run's switch
\* over executeGatewayAttempt's outcomes).
THEOREM AtMostOneExecutionAlways == Spec => []AtMostOneExecution
<1>1. CallInv => AtMostOneExecution
  <2> SUFFICES ASSUME CallInv PROVE AtMostOneExecution
    OBVIOUS
  <2>1. \A m, n \in worked : m = n
    BY DEF CallInv, Execution, Alone
  <2>2. CASE worked = {}
    BY <2>2, FS_EmptySet DEF AtMostOneExecution
  <2>3. CASE worked # {}
    <3>1. PICK n \in worked : TRUE
      BY <2>3
    <3>2. worked = {n}
      BY <2>1, <3>1
    <3>3. Cardinality({n}) = 1
      BY FS_Singleton
    <3>4. QED
      BY <3>2, <3>3 DEF AtMostOneExecution
  <2>4. QED
    BY <2>2, <2>3
<1>2. QED
  BY CallInvariance, <1>1, PTL

\* For every plan, budget and history of starts: an admitted call is never lost,
\* a server that serves has its journal or its row, and the row is the final fact
\* (AdmitGatewayCall, bindLimitJournal, RecordCall).
THEOREM RecordFaithfulAlways == Spec => []RecordFaithful
<1>1. CallInv => RecordFaithful
  BY DEF CallInv, Recorded, Kept, SameFact, Bound, Up, RecordFaithful
<1>2. QED
  BY CallInvariance, <1>1, PTL

\* The loop keeps its promise inside a gateway that crashes, checkpoints and
\* delivers around it: nothing that may have had an effect is replayed.
THEOREM CallReplaySafe == Spec => []ReplayedOnlyIdle
<1>1. CallInv => ReplayedOnlyIdle
  BY DEF CallInv, Inv
<1>2. QED
  BY CallInvariance, <1>1, PTL

\* Nor is a pair, a rejected credential or a failed connection used again.
THEOREM CallNoRepetition == Spec => []NeverRetried
<1>1. CallInv => NeverRetried
  BY DEF CallInv, Inv
<1>2. QED
  BY CallInvariance, <1>1, PTL

-----------------------------------------------------------------------------
(* The request uses the journal by its promise (CallFacts).                *)

\* What a step may do to the fact.
LEMMA FactMoves ==
  ASSUME CallInv, [Next]_vars
  PROVE  \/ fact' = fact
         \/ fact = NoFact /\ fact'.kind = "draft"
         \/ fact.kind = "draft" /\ fact'.kind \in {"draft", "final"}
         \/ fact.kind = "final" /\ fact' = NoFact
<1> DEFINE Moved == \/ fact' = fact
                    \/ fact = NoFact /\ fact'.kind = "draft"
                    \/ fact.kind = "draft" /\ fact'.kind \in {"draft", "final"}
                    \/ fact.kind = "final" /\ fact' = NoFact
<1>1. CASE Serving(Work)
  <2>1. Work
    BY <1>1 DEF Serving
  <2>2. CASE Plan \/ Enter \/ Refuse \/ Send \/ GoodReply \/ PersistFails
    BY <2>2 DEF Plan, Enter, Refuse, Send, GoodReply, PersistFails, journalVars, callVars
  <2>3. ASSUME NEW ok \in BOOLEAN, AdmitGatewayCall(ok)
        PROVE  Moved
    <3>1. pc = "admit" /\ Running
      BY <2>3 DEF AdmitGatewayCall, Admit
    <3>2. fact = NoFact
      BY <3>1 DEF CallInv, Inv, AdmittedOnce, Recorded, RunRecord
    <3>3. QED
      BY <2>3, <3>2 DEF AdmitGatewayCall, Draft
  <2>4. ASSUME NEW ok \in BOOLEAN, BeginAttempt(ok) \/ Withdraw(ok)
        PROVE  Moved
    <3>1. step # "idle"
      BY <2>4 DEF BeginAttempt, Withdraw
    <3>2. fact.kind = "draft"
      BY <3>1, InAttempt
    <3>3. \E id \in BOOLEAN : CheckpointGatewayCall(id, evidence, ok)
      BY <2>4 DEF BeginAttempt, Withdraw
    <3>4. QED
      BY <3>2, <3>3 DEF CheckpointGatewayCall, Draft
  <2>5. ASSUME NEW reply \in FailedReplies, NEW ok \in BOOLEAN, FailedReply(reply, ok)
        PROVE  Moved
    <3>1. step # "idle"
      BY <2>5 DEF FailedReply
    <3>2. fact.kind = "draft"
      BY <3>1, InAttempt
    <3>3. QED
      BY <2>5, <3>2 DEF FailedReply, CheckpointGatewayCall, Draft
  <2>6. CASE PersistGatewayCall
    BY <2>6 DEF PersistGatewayCall, Final
  <2>7. CASE ReserveRejected
    BY <2>7 DEF ReserveRejected, Draft
  <2>8. CASE CompleteRejected
    BY <2>8 DEF CompleteRejected, Final, CallInv, Recorded, ReservedRecord
  <2>9. QED
    BY <2>1, <2>2, <2>3, <2>4, <2>5, <2>6, <2>7, <2>8 DEF Work
<1>2. CASE Serving(Deliver)
  <2>1. CASE Ack
    <3>1. flush # Idle /\ fact' = NoFact
      BY <2>1 DEF Ack, Idle
    <3>2. fact.kind = "final"
      BY <3>1 DEF CallInv, Recorded, InHand, Final
    <3>3. QED
      BY <3>1, <3>2
  <2>2. QED
    BY <1>2, <2>1 DEF Serving, Deliver, FlushRead, RecordCall, FlushFails
<1>3. CASE Reopen
  BY <1>3 DEF Reopen, Interrupted, Final
<1>4. CASE \/ UpstreamWorks \/ Crash \/ UNCHANGED vars
           \/ Beside(Accounting) \/ Beside(StartCallRecorder) \/ Beside(ReplaceFile)
  BY <1>4 DEF UpstreamWorks, Crash, Beside, vars, callVars, journalVars
<1>5. QED
  BY <1>1, <1>2, <1>3, <1>4 DEF Next

\* The records of a request are payloads of the journal.
LEMMA PayloadsFit ==
  ASSUME NEW p \in Bounded
  PROVE  p \in [work : UNION {[1..n -> Evidence] : n \in 0..maxAttempts},
                settled : {"zero", "measured", "unknown"}]
<1>1. p \in Payload /\ Len(p.work) <= maxAttempts
  BY DEF Bounded
<1>2. p.work \in Seq(Evidence) /\ p.settled \in {"zero", "measured", "unknown"}
      /\ p = [work |-> p.work, settled |-> p.settled]
  BY <1>1 DEF Payload
<1>3. Len(p.work) \in 0..maxAttempts /\ p.work \in [1..Len(p.work) -> Evidence]
  BY <1>1, <1>2, PlanAssumption DEF IsPlan, MaxAttempts
<1>4. p.work \in UNION {[1..n -> Evidence] : n \in 0..maxAttempts}
  BY <1>3
<1>5. QED
  BY <1>2, <1>4

LEMMA FactStep ==
  ASSUME CallInv, CallInv', [Next]_vars
  PROVE  [Journal!Next]_([id \in {"request"} |-> fact])
<1> DEFINE Pay == [work : UNION {[1..n -> Evidence] : n \in 0..maxAttempts},
                   settled : {"zero", "measured", "unknown"}]
           facts == [id \in {"request"} |-> fact]
<1>1. facts["request"] = fact
  OBVIOUS
<1>2. \A v : fact' = v => facts' = [facts EXCEPT !["request"] = v]
  OBVIOUS
<1>3. /\ fact \in {NoFact} \cup [kind : {"draft", "final"}, payload : Bounded]
      /\ fact' \in {NoFact} \cup [kind : {"draft", "final"}, payload : Bounded]
  BY DEF CallInv, CallTypes, Bounded
<1>4. CASE fact' = fact
  BY <1>4
<1>5. CASE fact = NoFact /\ fact'.kind = "draft"
  <2>1. fact' # NoFact /\ fact'.payload \in Bounded /\ fact' = Draft(fact'.payload)
    BY <1>3, <1>5 DEF NoFact, Draft
  <2>2. fact'.payload \in Pay
    BY <2>1, PayloadsFit
  <2>3. Journal!Held = {}
    BY <1>5 DEF Journal!Held, Journal!NoFact, NoFact
  <2>4. Cardinality(Journal!Held) < 1
    BY <2>3, FS_EmptySet
  <2>5. facts["request"] = Journal!NoFact
    BY <1>1, <1>5 DEF Journal!NoFact, NoFact
  <2>6. facts' = [facts EXCEPT !["request"] = Journal!Draft(fact'.payload)]
    BY <1>2, <2>1 DEF Journal!Draft, Draft
  <2>7. Journal!Accept("request", fact'.payload)
    BY <2>4, <2>5, <2>6 DEF Journal!Accept, Journal!Cardinality, Cardinality
  <2>8. QED
    BY <2>2, <2>7 DEF Journal!Next
<1>6. CASE fact.kind = "draft" /\ fact'.kind = "draft"
  <2>1. fact' # NoFact /\ fact'.payload \in Bounded /\ fact' = Draft(fact'.payload)
    BY <1>3, <1>6 DEF NoFact, Draft
  <2>2. fact'.payload \in Pay
    BY <2>1, PayloadsFit
  <2>3. Journal!Revise("request", fact'.payload)
    BY <1>1, <1>2, <1>6, <2>1 DEF Journal!Revise, Journal!Draft, Draft
  <2>4. QED
    BY <2>2, <2>3 DEF Journal!Next
<1>7. CASE fact.kind = "draft" /\ fact'.kind = "final"
  <2>1. fact' # NoFact /\ fact'.payload \in Bounded /\ fact' = Final(fact'.payload)
    BY <1>3, <1>7 DEF NoFact, Final
  <2>2. fact'.payload \in Pay
    BY <2>1, PayloadsFit
  <2>3. Journal!Settle("request", fact'.payload)
    BY <1>1, <1>2, <1>7, <2>1 DEF Journal!Settle, Journal!Final, Final
  <2>4. QED
    BY <2>2, <2>3 DEF Journal!Next
<1>8. CASE fact.kind = "final" /\ fact' = NoFact
  <2>1. Journal!Acknowledge("request")
    BY <1>1, <1>2, <1>8 DEF Journal!Acknowledge, Journal!NoFact, NoFact
  <2>2. QED
    BY <2>1 DEF Journal!Next
<1>9. QED
  BY <1>4, <1>5, <1>6, <1>7, <1>8, FactMoves

\* For every plan and budget the request uses the journal by its promise: one
\* draft, revised and settled once or interrupted, acknowledged when final
\* (AdmitGatewayCall, CheckpointGatewayCall, PersistGatewayCall, FlushCallRecorder).
THEOREM CallUsesJournal == Spec => UsesCallFacts
<1>1. Init => Journal!Init
  BY DEF Init, NoFact, Journal!Init, Journal!NoFact
<1>2. CallInv /\ CallInv' /\ [Next]_vars => [Journal!Next]_([id \in {"request"} |-> fact])
  BY FactStep
<1>3. QED
  BY CallInvariance, <1>1, <1>2, PTL DEF Spec, UsesCallFacts, Journal!Spec
=============================================================================
