---------------------------- MODULE RouteAttempt ----------------------------
(***************************************************************************)
(* pkg/routeattempt: the bounded retries of one gateway request.           *)
(*                                                                         *)
(* Plan.Run is one loop between calls of the hooks Eligible, Prepare,      *)
(* Admit and Execute.  A step of the model runs from the return of one     *)
(* hook to the call of the next; what the hook answers, and when the       *)
(* caller's context is canceled, is chosen by the environment.  The plan   *)
(* itself (plan.go New) is a constant: the assumption is what New checks.  *)
(***************************************************************************)
EXTENDS Integers, Sequences, FiniteSets

CONSTANTS
  Targets,       \* target identifiers of the plan
  Connections,   \* connection identifiers
  Credentials,   \* credential identifiers, in the order of their strings
  ConnectionOf,  \* the connection of a target
  Weight,        \* the weight of a target
  Priority,      \* per target, the priorities of its credentials
  maxAttempts,   \* options.MaxAttempts
  None           \* an empty identifier

MaxAttempts == 4

\* What New accepts; a credential belongs to the connection of its targets.
IsPlan ==
  /\ maxAttempts \in 1..MaxAttempts
  /\ ConnectionOf \in [Targets -> Connections]
  /\ Weight \in [Targets -> 0..100]
  /\ \A t \in Targets :
       /\ DOMAIN Priority[t] \subseteq Credentials
       /\ \A c \in DOMAIN Priority[t] : Priority[t][c] \in Nat
  /\ \A t, u \in Targets :
       DOMAIN Priority[t] \cap DOMAIN Priority[u] # {} => ConnectionOf[t] = ConnectionOf[u]

ASSUME PlanAssumption ==
  /\ IsPlan
  /\ Credentials \subseteq Nat
  /\ None \notin Targets

Attempt == {a \in [target : Targets, credential : Credentials] :
              a.credential \in DOMAIN Priority[a.target]}

Failures == {"success", "credential_rejected", "connection_failure", "rate_limited",
             "permanent_failure"}
Evidence == {"unknown", "not_sent", "rejected_without_work", "completed"}
Outcome == [failure : Failures, work : Evidence, output : BOOLEAN, usage : BOOLEAN]

\* What Execute may return: a hook is not bound to the declared constants.
Returned == [failure : Failures \cup {"invalid"}, work : Evidence \cup {"invalid"},
             output : BOOLEAN, usage : BOOLEAN]

StopReason == {"succeeded", "unsafe_to_replay", "permanent_failure",
               "attempt_budget_exhausted", "no_candidates", "canceled", "blocked"}

VARIABLES
  pc,           \* where Run is: the next hook to call
  ctx,          \* the caller's context
  attempted,    \* progress.attempted
  credentials,  \* progress.credentials, the rejected ones
  connections,  \* progress.connections, the failed ones
  preferred,    \* progress.preferred
  current,      \* the selected attempt
  admitted,     \* result.Admitted
  attempts,     \* result.Attempts
  stop          \* result.Stop

progress == <<attempted, credentials, connections, preferred>>
runVars == <<pc, ctx, attempted, credentials, connections, preferred, current, admitted,
             attempts, stop>>

RunInit ==
  /\ pc = "select"
  /\ ctx = "live"
  /\ attempted = {} /\ credentials = {} /\ connections = {} /\ preferred = None
  /\ current = None
  /\ admitted = FALSE
  /\ attempts = << >>
  /\ stop = None

Stop(reason) == pc' = "stopped" /\ stop' = reason

-----------------------------------------------------------------------------
(* plan.go: selection.                                                     *)

\* The order New sorts a target's credentials in.
Before(t, c, d) ==
  \/ Priority[t][c] < Priority[t][d]
  \/ Priority[t][c] = Priority[t][d] /\ c < d

\* A defect: the rejection of a credential holds for one target only.
Usable_PerTarget(t, eligible) ==
  {c \in DOMAIN Priority[t] :
     /\ [target |-> t, credential |-> c] \notin attempted
     /\ [target |-> t, credential |-> c] \in eligible}

\* The credentials of a target that are neither excluded nor ineligible.
Usable(t, eligible) ==
  {c \in DOMAIN Priority[t] :
     /\ c \notin credentials
     /\ [target |-> t, credential |-> c] \notin attempted
     /\ [target |-> t, credential |-> c] \in eligible}

\* One candidate per open target: its first usable credential.
Candidates(eligible) ==
  {a \in Attempt :
     /\ Weight[a.target] # 0
     /\ ConnectionOf[a.target] \notin connections
     /\ a.credential \in Usable(a.target, eligible)
     /\ \A d \in Usable(a.target, eligible) \ {a.credential} :
          Before(a.target, a.credential, d)}

\* The preferred target wins; otherwise the weighted draw may return any.
Choices(eligible) ==
  LET kept == {a \in Candidates(eligible) : a.target = preferred}
  IN IF kept # {} THEN kept ELSE Candidates(eligible)

\* The head of the loop and selectAttempt; eligible is what the hook answers.
Select(eligible) ==
  /\ pc = "select"
  /\ IF ctx = "canceled" THEN Stop("canceled") /\ UNCHANGED current
     ELSE IF Choices(eligible) = {} THEN Stop("no_candidates") /\ UNCHANGED current
     ELSE current' \in Choices(eligible) /\ pc' = "prepare" /\ UNCHANGED stop
  /\ UNCHANGED <<ctx, progress, admitted, attempts>>

\* Eligible or the draw returned an error; with nothing left neither is called.
SelectFails ==
  /\ pc = "select"
  /\ Candidates(Attempt) # {}
  /\ Stop(IF ctx = "canceled" THEN "canceled" ELSE "blocked")
  /\ UNCHANGED <<ctx, progress, current, admitted, attempts>>

-----------------------------------------------------------------------------
(* execute.go: the loop.                                                   *)

Prepare(ok) ==
  /\ pc = "prepare"
  /\ IF ctx = "canceled" THEN Stop("canceled")
     ELSE IF ~ok THEN Stop("blocked")
     ELSE pc' = (IF admitted THEN "dispatch" ELSE "admit") /\ UNCHANGED stop
  /\ UNCHANGED <<ctx, progress, current, admitted, attempts>>

Admit(ok) ==
  /\ pc = "admit"
  /\ admitted' = ok
  /\ IF ok THEN pc' = "dispatch" /\ UNCHANGED stop
     ELSE Stop(IF ctx = "canceled" THEN "canceled" ELSE "blocked")
  /\ UNCHANGED <<ctx, progress, current, attempts>>

\* The last check of the context; Execute is called.
Dispatch ==
  /\ pc = "dispatch"
  /\ IF ctx = "canceled" THEN Stop("canceled") /\ UNCHANGED attempted
     ELSE pc' = "execute" /\ attempted' = attempted \cup {current} /\ UNCHANGED stop
  /\ UNCHANGED <<ctx, credentials, connections, preferred, current, admitted, attempts>>

validOutcome(o) == o \in Outcome

\* An outcome outside the declared constants counts as unknown work.
Accepted(o) ==
  IF validOutcome(o) THEN o
  ELSE [failure |-> "permanent_failure", work |-> "unknown", output |-> o.output, usage |-> o.usage]

ProvesNoWork(work) == work \in {"not_sent", "rejected_without_work"}

\* Nothing of the attempt can have had an effect upstream.
Replayable(o) ==
  /\ ~o.output /\ ~o.usage
  /\ ProvesNoWork(o.work)
  /\ o.failure = "credential_rejected" => o.work = "rejected_without_work"

\* The n-th attempt failed harmlessly: the loop goes on within the budget.
Continue(n) == IF n >= maxAttempts THEN Stop("attempt_budget_exhausted")
               ELSE pc' = "select" /\ UNCHANGED stop

\* What is excluded from now on.
Exclude(o) ==
  \/ /\ o.failure = "credential_rejected"
     /\ credentials' = credentials \cup {current.credential}
     /\ preferred' = current.target
     /\ UNCHANGED connections
  \/ /\ o.failure \in {"connection_failure", "rate_limited"}
     /\ connections' = connections \cup {ConnectionOf[current.target]}
     /\ preferred' = None
     /\ UNCHANGED credentials

\* A defect: every failure fails over to another connection.
Return_FailsOver(returned, failed) ==
  LET o == Accepted(returned)
  IN /\ pc = "execute"
     /\ attempts' = Append(attempts, [attempt |-> current, outcome |-> o])
     /\ IF ctx = "canceled" THEN Stop("canceled") /\ UNCHANGED connections
        ELSE IF o.failure = "success" THEN Stop("succeeded") /\ UNCHANGED connections
        ELSE /\ Continue(Len(attempts) + 1)
             /\ connections' = connections \cup {ConnectionOf[current.target]}
     /\ UNCHANGED <<ctx, attempted, credentials, preferred, current, admitted>>

\* Execute returned: record the attempt, then stop or go on.  The progress is
\* local to Run: once it stops, what it holds no longer matters.
Return(returned, failed) ==
  LET o == Accepted(returned)
      n == Len(attempts) + 1
      keep == UNCHANGED <<credentials, connections, preferred>>
  IN /\ pc = "execute"
     /\ attempts' = Append(attempts, [attempt |-> current, outcome |-> o])
     /\ IF ctx = "canceled" THEN Stop("canceled") /\ keep
        ELSE IF failed \/ ~validOutcome(returned) THEN Stop("unsafe_to_replay") /\ keep
        ELSE IF o.failure = "success" THEN Stop("succeeded") /\ keep
        ELSE IF ~Replayable(o) THEN Stop("unsafe_to_replay") /\ keep
        ELSE IF o.failure = "permanent_failure" THEN Stop("permanent_failure") /\ keep
        ELSE Continue(n) /\ Exclude(o)
     /\ UNCHANGED <<ctx, attempted, current, admitted>>

\* The client goes away or the deadline passes, at any time.
Cancel ==
  /\ ctx = "live"
  /\ ctx' = "canceled"
  /\ UNCHANGED <<pc, progress, current, admitted, attempts, stop>>

\* Run makes progress: it waits for nothing but its hooks.
Step ==
  \/ \E eligible \in SUBSET Attempt : Select(eligible)
  \/ SelectFails
  \/ \E ok \in BOOLEAN : Prepare(ok) \/ Admit(ok)
  \/ Dispatch
  \/ \E returned \in Returned, failed \in BOOLEAN : Return(returned, failed)

RunNext == Step \/ Cancel

RunSpec == RunInit /\ [][RunNext]_runVars

-----------------------------------------------------------------------------
(* Properties.                                                             *)

RunTypeOK ==
  /\ pc \in {"select", "prepare", "admit", "dispatch", "execute", "stopped"}
  /\ ctx \in {"live", "canceled"}
  /\ attempted \in SUBSET Attempt
  /\ credentials \in SUBSET Credentials
  /\ connections \in SUBSET Connections
  /\ preferred \in Targets \cup {None}
  /\ current \in Attempt \cup {None}
  /\ pc \in {"prepare", "admit", "dispatch", "execute"} => current \in Attempt
  /\ admitted \in BOOLEAN
  /\ attempts \in Seq([attempt : Attempt, outcome : Outcome])
  /\ stop \in StopReason \cup {None}

\* While the request goes on, every attempt made so far is proven to have done
\* no work upstream, and so is every attempt that was followed by another: a
\* request is never replayed over work, output or usage (Run's switch).
ReplayedOnlyIdle ==
  \A i \in DOMAIN attempts :
    pc # "stopped" \/ i < Len(attempts) =>
      /\ ProvesNoWork(attempts[i].outcome.work)
      /\ ~attempts[i].outcome.output
      /\ ~attempts[i].outcome.usage

\* Every fallback is another pair of target and credential; a rejected
\* credential is not used again under any target, nor a failed or limited
\* connection through any target.
NeverRetried ==
  \A i, j \in DOMAIN attempts : i < j =>
    LET first == attempts[i]
        later == attempts[j].attempt
    IN /\ first.attempt # later
       /\ first.outcome.failure = "credential_rejected" =>
            first.attempt.credential # later.credential
       /\ first.outcome.failure \in {"connection_failure", "rate_limited"} =>
            ConnectionOf[first.attempt.target] # ConnectionOf[later.target]

\* The attempts made and the one in execution stay within the budget.
BudgetRespected ==
  Len(attempts) + (IF pc = "execute" THEN 1 ELSE 0) <= maxAttempts

\* Nothing is executed before the request has its durable record.
AdmittedFirst == attempts # << >> \/ pc = "execute" => admitted
=============================================================================
