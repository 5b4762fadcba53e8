----------------------------- MODULE EventQueue -----------------------------
(***************************************************************************)
(* pkg/eventqueue, format 1: the bounded durable journal of call facts     *)
(* (queue.go) and the rate and concurrency limits kept in the same file    *)
(* (limits.go).                                                            *)
(*                                                                         *)
(* Every operation is one bbolt write transaction: it commits as a whole   *)
(* or rolls back on any error, so an operation is one action whose guard   *)
(* is the conjunction of the conditions under which the code returns nil.  *)
(* A rejected call changes nothing (the clock and the pruning it had done  *)
(* are rolled back too) and is a stuttering step.  A crash between two     *)
(* transactions followed by the next Open is the action Reopen.            *)
(***************************************************************************)
EXTENDS Integers, FiniteSets, Sequences

CONSTANTS
  Ids,              \* request identifiers
  Payloads,         \* opaque fact payloads
  Accounts,         \* limit accounts (user, key, project, team ...)
  Policies,         \* the []Limit arguments: functions from accounts to limits
  Capacity,         \* q.capacity
  HistoryCapacity,  \* limitHistoryCapacity
  Minute,           \* time.Minute
  Times,            \* wall-clock readings; they may go backwards
  Absent,           \* a key that a bucket does not hold
  Unlimited         \* a nil RPM or Concurrency

\* The arguments a caller may pass: []Limit without a repeated account.
IsPolicy(policy) ==
  /\ DOMAIN policy \subseteq Accounts
  /\ \A a \in DOMAIN policy :
       /\ policy[a].rpm \in Nat \cup {Unlimited}
       /\ policy[a].concurrency \in Nat \cup {Unlimited}

EmptyPolicy == [a \in {} |-> Unlimited]

ASSUME QueueAssumption ==
  /\ IsFiniteSet(Ids) /\ IsFiniteSet(Accounts)
  /\ Absent \notin Payloads
  /\ Unlimited \notin Nat
  /\ Capacity \in Nat \ {0}
  /\ HistoryCapacity \in Nat
  /\ Minute \in Nat \ {0}
  /\ Times \subseteq Nat \ {0}
  /\ \A policy \in Policies : IsPolicy(policy)

VARIABLES
  pending,      \* pending-v1: Ids -> payload, the fallback of an admitted call
  ready,        \* ready-v1: Ids -> payload, the facts to deliver
  events,       \* rpm-v1: one event per admission and account
  rpmCount,     \* rpm-counts-v1; a deleted key is 0
  activeCount,  \* active-counts-v1; a deleted key is 0
  leases,       \* leases-v1: the accounts a pending call holds a slot of
  sequence,     \* the sequence number of rpm-v1, its event count
  clock,        \* "clock" of limit-meta-v1; 0 before it is first written
  log           \* history: every admission in order, whatever became of it

journal == <<pending, ready>>
limits == <<events, rpmCount, activeCount, leases, sequence, clock>>
queueVars == <<pending, ready, events, rpmCount, activeCount, leases, sequence, clock, log>>

Event == [at : Nat, id : Ids, account : Accounts]

Keys(bucket) == {id \in Ids : bucket[id] # Absent}

-----------------------------------------------------------------------------
(* queue.go and limits.go: what the transactions compute.                  *)

QueueInit ==
  /\ pending = [id \in Ids |-> Absent]
  /\ ready = [id \in Ids |-> Absent]
  /\ events = {}
  /\ rpmCount = [a \in Accounts |-> 0]
  /\ activeCount = [a \in Accounts |-> 0]
  /\ leases = [id \in Ids |-> {}]
  /\ sequence = 0
  /\ clock = 0
  /\ log = << >>

Depth == Cardinality(Keys(pending)) + Cardinality(Keys(ready))

\* A defect for the mutation runs: the stored clock is ignored.
logicalLimitTime_Wall(now) == now

\* Wall time never moves the stored clock backwards.
logicalLimitTime(now) == IF now < clock THEN clock ELSE now

Expired(instant) == {e \in events : e.at <= instant - Minute}

Of(set, a) == {e \in set : e.account = a}

PrunedCount(instant) ==
  [a \in Accounts |-> rpmCount[a] - Cardinality(Of(Expired(instant), a))]

PrunedSequence(instant) == sequence - Cardinality(Expired(instant))

\* pruneLimits returns nil: no count and no sequence number would go negative.
CanPrune(instant) ==
  /\ \A a \in Accounts : PrunedCount(instant)[a] >= 0
  /\ PrunedSequence(instant) >= 0

pruneLimits(instant) ==
  /\ CanPrune(instant)
  /\ events' = events \ Expired(instant)
  /\ rpmCount' = PrunedCount(instant)
  /\ sequence' = PrunedSequence(instant)

\* Every count of the accounts a call holds can be lowered by one.
CanRelease(id) == \A a \in leases[id] : activeCount[a] > 0

releaseLimits(id) ==
  /\ CanRelease(id)
  /\ activeCount' = [a \in Accounts |-> activeCount[a] - (IF a \in leases[id] THEN 1 ELSE 0)]
  /\ leases' = [leases EXCEPT ![id] = {}]

Below(count, ceiling) == ceiling # Unlimited => count < ceiling

\* A defect: the history capacity is not checked.
checkLimitAdmission_NoHistory(id, policy, instant) ==
  /\ pending[id] = Absent
  /\ ready[id] = Absent
  /\ Depth < Capacity
  /\ CanPrune(instant)
  /\ \A a \in DOMAIN policy :
       /\ Below(PrunedCount(instant)[a], policy[a].rpm)
       /\ Below(activeCount[a], policy[a].concurrency)

checkLimitAdmission(id, policy, instant) ==
  /\ pending[id] = Absent
  /\ ready[id] = Absent
  /\ Depth < Capacity
  /\ CanPrune(instant)
  /\ PrunedSequence(instant) + Cardinality(DOMAIN policy) <= HistoryCapacity
  /\ \A a \in DOMAIN policy :
       /\ Below(PrunedCount(instant)[a], policy[a].rpm)
       /\ Below(activeCount[a], policy[a].concurrency)

applyLimitAdmission(id, payload, policy, instant) ==
  LET debit == [a \in Accounts |-> IF a \in DOMAIN policy THEN 1 ELSE 0]
      new == {[at |-> instant, id |-> id, account |-> a] : a \in DOMAIN policy}
  IN /\ clock' = instant
     /\ events' = (events \ Expired(instant)) \cup new
     /\ rpmCount' = [a \in Accounts |-> PrunedCount(instant)[a] + debit[a]]
     /\ activeCount' = [a \in Accounts |-> activeCount[a] + debit[a]]
     /\ sequence' = PrunedSequence(instant) + Cardinality(DOMAIN policy)
     /\ leases' = [leases EXCEPT ![id] = DOMAIN policy]
     /\ pending' = [pending EXCEPT ![id] = payload]

Admitted == {log[i].id : i \in DOMAIN log}

Record(id, policy, instant) ==
  log' = Append(log, [id |-> id, at |-> instant, policy |-> policy])

-----------------------------------------------------------------------------
(* The operations.                                                         *)

ReserveWithLimits(id, payload, policy, now) ==
  LET instant == logicalLimitTime(now)
  IN /\ checkLimitAdmission(id, policy, instant)
     /\ applyLimitAdmission(id, payload, policy, instant)
     /\ Record(id, policy, instant)
     /\ UNCHANGED ready

\* The direct entry of a request that was rejected before admission.
Reserve(id, payload) ==
  /\ pending[id] = Absent
  /\ ready[id] = Absent
  /\ Depth < Capacity
  /\ pending' = [pending EXCEPT ![id] = payload]
  /\ Record(id, EmptyPolicy, clock)
  /\ UNCHANGED <<ready, limits>>

UpdatePending(id, payload) ==
  /\ ready[id] = Absent
  /\ pending[id] # Absent
  /\ pending' = [pending EXCEPT ![id] = payload]
  /\ UNCHANGED <<ready, limits, log>>

\* A defect: a late completion overwrites the fact that waits for delivery.
complete_Overwrites(id, payload) ==
  /\ ready[id] # Absent \/ pending[id] # Absent
  /\ ready' = [ready EXCEPT ![id] = payload]
  /\ pending' = [pending EXCEPT ![id] = Absent]
  /\ releaseLimits(id)

\* A fact that is already accepted for delivery is left alone.
complete(id, payload) ==
  IF ready[id] # Absent
  THEN UNCHANGED <<pending, ready, activeCount, leases>>
  ELSE /\ pending[id] # Absent
       /\ ready' = [ready EXCEPT ![id] = payload]
       /\ pending' = [pending EXCEPT ![id] = Absent]
       /\ releaseLimits(id)

Complete(id, payload) ==
  /\ complete(id, payload)
  /\ UNCHANGED <<events, rpmCount, sequence, clock, log>>

Ack(id) ==
  /\ ready' = [ready EXCEPT ![id] = Absent]
  /\ UNCHANGED <<pending, limits, log>>

\* Reading the usage of an account persists the clock and the pruning.
AccountUsage(now) ==
  /\ clock' = logicalLimitTime(now)
  /\ pruneLimits(logicalLimitTime(now))
  /\ UNCHANGED <<pending, ready, activeCount, leases, log>>

\* A defect: the active counts survive the leases they count.
initLimits_KeepsActive ==
  /\ Cardinality(events) <= HistoryCapacity
  /\ rpmCount' = [a \in Accounts |-> Cardinality(Of(events, a))]
  /\ leases' = [id \in Ids |-> {}]
  /\ sequence' = Cardinality(events)
  /\ UNCHANGED <<events, clock, activeCount>>

\* initLimits: the indexes are rebuilt from the events, every lease is dropped.
initLimits ==
  /\ Cardinality(events) <= HistoryCapacity
  /\ rpmCount' = [a \in Accounts |-> Cardinality(Of(events, a))]
  /\ activeCount' = [a \in Accounts |-> 0]
  /\ leases' = [id \in Ids |-> {}]
  /\ sequence' = Cardinality(events)
  /\ UNCHANGED <<events, clock>>

\* Open: what a former process left pending becomes a fact to deliver.
Migrate ==
  /\ ready' = [id \in Ids |-> IF ready[id] = Absent THEN pending[id] ELSE ready[id]]
  /\ pending' = [id \in Ids |-> Absent]

Reopen ==
  /\ initLimits
  /\ Migrate
  /\ UNCHANGED log

-----------------------------------------------------------------------------
(* A request identifier is drawn once (id.NewPrefixed in prepareGateway)   *)
(* and is admitted, or queued directly, at most once.                      *)

Fresh(id) == id \notin Admitted

QueueNext ==
  \/ \E id \in Ids, payload \in Payloads :
       \/ Fresh(id) /\ Reserve(id, payload)
       \/ \E policy \in Policies, now \in Times :
            Fresh(id) /\ ReserveWithLimits(id, payload, policy, now)
       \/ UpdatePending(id, payload)
       \/ Complete(id, payload)
  \/ \E id \in Ids : Ack(id)
  \/ \E now \in Times : AccountUsage(now)
  \/ Reopen

QueueSpec == QueueInit /\ [][QueueNext]_queueVars

-----------------------------------------------------------------------------
(* Properties.                                                             *)

Admission == [id : Ids, at : Nat, policy : Policies \cup {EmptyPolicy}]

\* The buckets hold what their readers expect; no count is negative.
QueueTypeOK ==
  /\ pending \in [Ids -> Payloads \cup {Absent}]
  /\ ready \in [Ids -> Payloads \cup {Absent}]
  /\ events \in SUBSET Event
  /\ rpmCount \in [Accounts -> Nat]
  /\ activeCount \in [Accounts -> Nat]
  /\ leases \in [Ids -> SUBSET Accounts]
  /\ sequence \in Nat
  /\ clock \in Nat
  /\ log \in Seq(Admission)

\* The indexes agree with what they index: an account's rate count is its number
\* of events, its active count the number of calls that hold it, and the sequence
\* number the size of the history (limits.go keeps the three incrementally).
CountersExact ==
  /\ \A a \in Accounts :
       /\ rpmCount[a] = Cardinality(Of(events, a))
       /\ activeCount[a] = Cardinality({id \in Ids : a \in leases[id]})
  /\ sequence = Cardinality(events)

\* A lease is held by a pending call only.
LeasesArePending == \A id \in Ids : leases[id] # {} => pending[id] # Absent

\* No slot leaks and none is given twice, through every operation, pruning and
\* restart: the counts are exact and a completion or a restart releases a lease
\* with its reservation (complete, initLimits).
SlotsExact == CountersExact /\ LeasesArePending

\* A call is never a draft and a fact to deliver at once.
OneBucket == \A id \in Ids : pending[id] = Absent \/ ready[id] = Absent

\* The journal never holds more entries than its capacity.
WithinCapacity == Cardinality(Keys(pending)) + Cardinality(Keys(ready)) <= Capacity

\* The check of the event history at Open (initLimits returns ErrInvalid).
ReopenNeverRefused == Cardinality(events) <= HistoryCapacity

\* Every state the operations leave behind is one that Open accepts and in which
\* the journal holds no more entries than its capacity, restarts included.
WithinBounds == WithinCapacity /\ ReopenNeverRefused

\* The i-th admission is within its accounts' rates in the minute that ends with
\* it, counted over everything ever admitted.
RateHolds(i) ==
  \A a \in DOMAIN log[i].policy : log[i].policy[a].rpm # Unlimited =>
    Cardinality({j \in 1..i : /\ a \in DOMAIN log[j].policy
                              /\ log[j].at > log[i].at - Minute})
      <= log[i].policy[a].rpm

\* The calls of its accounts that are in flight are within their concurrency.
ConcurrencyHolds(i) ==
  \A a \in DOMAIN log[i].policy : log[i].policy[a].concurrency # Unlimited =>
    Cardinality({j \in DOMAIN log : /\ a \in DOMAIN log[j].policy
                                    /\ pending[log[j].id] # Absent})
      <= log[i].policy[a].concurrency

\* No admission takes an account over the rate or the concurrency of the limit it
\* is admitted under, counted over the whole history and not over the counters:
\* not after a restart, a clock that went backwards, a call that failed or a fact
\* that was delivered.
LimitsRespected ==
  [][\A i \in DOMAIN log' \ DOMAIN log : RateHolds(i)' /\ ConcurrencyHolds(i)']_queueVars

\* The journal implements the promise of CallFacts: what is read from the two
\* buckets is a draft until it is completed or the process restarts, then one
\* final fact that nothing but Ack removes.
Facts == INSTANCE CallFacts WITH
  facts <- [id \in Ids |->
              IF ready[id] # Absent THEN [kind |-> "final", payload |-> ready[id]]
              ELSE IF pending[id] # Absent THEN [kind |-> "draft", payload |-> pending[id]]
              ELSE [kind |-> "none"]]

ImplementsCallFacts == Facts!Spec
=============================================================================
