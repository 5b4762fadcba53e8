---------------------------- MODULE JournalProofs ----------------------------
(***************************************************************************)
(* What EventQueue and QuotaLedger guarantee for every set of requests,    *)
(* accounts, limits, bounds, capacities and clock readings.                *)
(*                                                                         *)
(* EventQueue: the inductive invariant is Inv.  The counters are not exact *)
(* alone: an admission adds one event per account only because the event's *)
(* key is new, which needs EventsLogged (events belong to admitted calls)  *)
(* and the freshness of request identifiers; releasing a lease needs       *)
(* LeasesArePending; the capacity needs the two buckets to be disjoint for *)
(* the restart that moves one into the other.                              *)
(*                                                                         *)
(* QuotaLedger: the inductive invariant is LedgerInv, over Inv.  What Open *)
(* checks of a receipt needs the pairing of its state with the bucket of   *)
(* its fact; the count that admissions check needs one retirement key per  *)
(* receipt (KeysMatch); that a call queued directly has no old receipt     *)
(* needs ArchivedAdmitted and the freshness of identifiers.                *)
(*                                                                         *)
(* The amounts: CounterInv, over LedgerInv and ExpiryInv.  A counter is a  *)
(* sum over receipts, and what SumOf computes for every finite set is      *)
(* proved by induction over its subsets.  Pruning subtracts exactly what   *)
(* left a window because a key of one window is never one of another, and  *)
(* no call competes with an admission without being in a sum that          *)
(* checkQuota reads.                                                       *)
(***************************************************************************)
EXTENDS QuotaLedger, FiniteSetTheorems, WellFoundedInduction, TLAPS

\* What an admission adds to the history.
NewEvents(t, id, D) == {[at |-> t, id |-> id, account |-> a] : a \in D}

EventsLogged == \A e \in events : e.id \in Admitted

Inv ==
  /\ QueueTypeOK
  /\ IsFiniteSet(events)
  /\ CountersExact
  /\ LeasesArePending
  /\ OneBucket
  /\ WithinCapacity
  /\ ReopenNeverRefused
  /\ EventsLogged

-----------------------------------------------------------------------------
(* Facts about sets of events, buckets and the log.                        *)

\* Removing events lowers every count by what is removed.
LEMMA RemoveEvents ==
  ASSUME NEW E, IsFiniteSet(E), NEW X \in SUBSET E
  PROVE  /\ IsFiniteSet(E \ X)
         /\ Cardinality(E) \in Nat
         /\ Cardinality(X) \in Nat
         /\ Cardinality(E \ X) = Cardinality(E) - Cardinality(X)
         /\ \A a : /\ Cardinality(Of(E, a)) \in Nat
                   /\ Cardinality(Of(X, a)) \in Nat
                   /\ Cardinality(Of(E \ X, a)) = Cardinality(Of(E, a)) - Cardinality(Of(X, a))
<1>1. IsFiniteSet(X) /\ IsFiniteSet(E \ X) /\ E \cap X = X
  BY FS_Subset
<1>2. Cardinality(E \ X) = Cardinality(E) - Cardinality(X)
  BY <1>1, FS_Difference
<1>3. Cardinality(E) \in Nat /\ Cardinality(X) \in Nat
  BY <1>1, FS_CardinalityType
<1>4. ASSUME NEW a
      PROVE  /\ Cardinality(Of(E, a)) \in Nat
             /\ Cardinality(Of(X, a)) \in Nat
             /\ Cardinality(Of(E \ X, a)) = Cardinality(Of(E, a)) - Cardinality(Of(X, a))
  <2>1. Of(E, a) \in SUBSET E /\ Of(X, a) \in SUBSET X
    BY DEF Of
  <2>2. IsFiniteSet(Of(E, a)) /\ IsFiniteSet(Of(X, a))
    BY <1>1, <2>1, FS_Subset
  <2>3. Of(E \ X, a) = Of(E, a) \ Of(X, a) /\ Of(E, a) \cap Of(X, a) = Of(X, a)
    BY DEF Of
  <2>4. QED
    BY <2>2, <2>3, FS_Difference, FS_CardinalityType
<1>5. QED
  BY <1>1, <1>2, <1>3, <1>4

\* Disjoint finite sets add up.
LEMMA DisjointUnion ==
  ASSUME NEW S, IsFiniteSet(S), NEW T, IsFiniteSet(T), S \cap T = {}
  PROVE  /\ IsFiniteSet(S \cup T)
         /\ Cardinality(S \cup T) = Cardinality(S) + Cardinality(T)
<1>1. Cardinality(S) \in Nat /\ Cardinality(T) \in Nat /\ Cardinality(S \cap T) = 0
  BY FS_EmptySet, FS_CardinalityType
<1>2. /\ IsFiniteSet(S \cup T)
      /\ Cardinality(S \cup T) = Cardinality(S) + Cardinality(T) - Cardinality(S \cap T)
  BY FS_Union
<1>3. QED
  BY <1>1, <1>2

\* One new event per account raises the count of each of those accounts by one.
LEMMA AddEvents ==
  ASSUME NEW E, IsFiniteSet(E), NEW D, IsFiniteSet(D), NEW t, NEW id,
         \A e \in E : e.id # id
  PROVE  /\ IsFiniteSet(E \cup NewEvents(t, id, D))
         /\ Cardinality(E \cup NewEvents(t, id, D)) = Cardinality(E) + Cardinality(D)
         /\ \A a : Cardinality(Of(E \cup NewEvents(t, id, D), a)) =
                     Cardinality(Of(E, a)) + (IF a \in D THEN 1 ELSE 0)
<1> DEFINE new == NewEvents(t, id, D)
           f == [a \in D |-> [at |-> t, id |-> id, account |-> a]]
<1> USE DEF NewEvents
<1>1. f \in Bijection(D, new)
  <2>1. f \in [D -> new]
    OBVIOUS
  <2>2. \A a, b \in D : f[a] = f[b] => a = b
    <3> SUFFICES ASSUME NEW a \in D, NEW b \in D, f[a] = f[b] PROVE a = b
      OBVIOUS
    <3>1. f[a].account = a /\ f[b].account = b
      OBVIOUS
    <3>2. QED
      BY <3>1
  <2>3. \A e \in new : \E a \in D : f[a] = e
    OBVIOUS
  <2>4. QED
    BY <2>1, <2>2, <2>3 DEF Bijection, Injection, Surjection, IsInjective
<1>2. IsFiniteSet(new) /\ Cardinality(new) = Cardinality(D)
  BY <1>1, FS_Bijection DEF ExistsBijection
<1>3. E \cap new = {}
  OBVIOUS
<1>4. /\ IsFiniteSet(E \cup new)
      /\ Cardinality(E \cup new) = Cardinality(E) + Cardinality(D)
  BY <1>2, <1>3, DisjointUnion
<1>5. ASSUME NEW a
      PROVE  Cardinality(Of(E \cup new, a)) = Cardinality(Of(E, a)) + (IF a \in D THEN 1 ELSE 0)
  <2>1. IsFiniteSet(Of(E, a)) /\ Cardinality(Of(E, a)) \in Nat
    BY FS_Subset, FS_CardinalityType DEF Of
  <2>2. CASE a \in D
    <3> DEFINE e == [at |-> t, id |-> id, account |-> a]
    <3>1. Of(E \cup new, a) = Of(E, a) \cup {e}
      BY <2>2 DEF Of
    <3>2. e \notin Of(E, a)
      BY DEF Of
    <3>3. QED
      BY <2>1, <2>2, <3>1, <3>2, FS_AddElement
  <2>3. CASE a \notin D
    <3>1. Of(E \cup new, a) = Of(E, a)
      BY <2>3 DEF Of
    <3>2. QED
      BY <2>1, <2>3, <3>1
  <2>4. QED
    BY <2>2, <2>3
<1>6. QED
  BY <1>4, <1>5

\* Appending an admission adds its identifier and keeps the log's type.
LEMMA LogAdmission ==
  ASSUME NEW L \in Seq(Admission), NEW r \in Admission
  PROVE  /\ Append(L, r) \in Seq(Admission)
         /\ {Append(L, r)[i].id : i \in DOMAIN Append(L, r)}
              = {L[i].id : i \in DOMAIN L} \cup {r.id}
<1>1. Append(L, r) \in Seq(Admission) /\ DOMAIN Append(L, r) = 1..(Len(L) + 1)
  OBVIOUS
<1>2. DOMAIN L = 1..Len(L) /\ Len(L) \in Nat
  OBVIOUS
<1>3. \A i \in DOMAIN L : Append(L, r)[i] = L[i]
  OBVIOUS
<1>4. Append(L, r)[Len(L) + 1] = r
  OBVIOUS
<1>5. QED
  BY <1>1, <1>2, <1>3, <1>4

\* A bucket's keys after a put, a delete and a move.
LEMMA BucketPut ==
  ASSUME NEW B \in [Ids -> Payloads \cup {Absent}], NEW id \in Ids, NEW p \in Payloads
  PROVE  /\ [B EXCEPT ![id] = p] \in [Ids -> Payloads \cup {Absent}]
         /\ Keys([B EXCEPT ![id] = p]) = Keys(B) \cup {id}
BY QueueAssumption DEF Keys

LEMMA BucketDelete ==
  ASSUME NEW B \in [Ids -> Payloads \cup {Absent}], NEW id \in Ids
  PROVE  /\ [B EXCEPT ![id] = Absent] \in [Ids -> Payloads \cup {Absent}]
         /\ Keys([B EXCEPT ![id] = Absent]) = Keys(B) \ {id}
BY DEF Keys

LEMMA BucketFinite ==
  ASSUME NEW B
  PROVE  IsFiniteSet(Keys(B)) /\ Cardinality(Keys(B)) \in Nat
BY QueueAssumption, FS_Subset, FS_CardinalityType DEF Keys

\* The accounts of a policy are finitely many.
LEMMA PolicyFinite ==
  ASSUME NEW policy \in Policies
  PROVE  /\ DOMAIN policy \subseteq Accounts
         /\ IsFiniteSet(DOMAIN policy)
         /\ Cardinality(DOMAIN policy) \in Nat
BY QueueAssumption, FS_Subset, FS_CardinalityType DEF IsPolicy

\* What pruning leaves is counted exactly by the pruned counts.
LEMMA PrunedFacts ==
  ASSUME Inv, NEW instant \in Nat
  PROVE  /\ IsFiniteSet(events \ Expired(instant))
         /\ events \ Expired(instant) \in SUBSET Event
         /\ PrunedSequence(instant) = Cardinality(events \ Expired(instant))
         /\ PrunedSequence(instant) \in Nat
         /\ PrunedSequence(instant) <= sequence
         /\ PrunedCount(instant) \in [Accounts -> Nat]
         /\ \A a \in Accounts :
              PrunedCount(instant)[a] = Cardinality(Of(events \ Expired(instant), a))
<1> USE DEF Inv
<1>1. Expired(instant) \in SUBSET events
  BY DEF Expired
<1>2. /\ IsFiniteSet(events \ Expired(instant))
      /\ Cardinality(events) \in Nat
      /\ Cardinality(Expired(instant)) \in Nat
      /\ Cardinality(events \ Expired(instant)) = Cardinality(events) - Cardinality(Expired(instant))
  BY <1>1, RemoveEvents
<1>3. Cardinality(events \ Expired(instant)) \in Nat
  BY <1>2, FS_CardinalityType
<1>4. /\ PrunedSequence(instant) = Cardinality(events \ Expired(instant))
      /\ PrunedSequence(instant) <= sequence
  BY <1>2 DEF PrunedSequence, CountersExact
<1>5. ASSUME NEW a \in Accounts
      PROVE  /\ PrunedCount(instant)[a] = Cardinality(Of(events \ Expired(instant), a))
             /\ PrunedCount(instant)[a] \in Nat
  <2>1. Cardinality(Of(events \ Expired(instant), a))
          = Cardinality(Of(events, a)) - Cardinality(Of(Expired(instant), a))
    BY <1>1, RemoveEvents
  <2>2. PrunedCount(instant)[a] = Cardinality(Of(events \ Expired(instant), a))
    BY <2>1 DEF PrunedCount, CountersExact
  <2>3. Of(events \ Expired(instant), a) \in SUBSET (events \ Expired(instant))
    BY DEF Of
  <2>4. Cardinality(Of(events \ Expired(instant), a)) \in Nat
    BY <2>3, <1>2, FS_Subset, FS_CardinalityType
  <2>5. QED
    BY <2>2, <2>4
<1>6. PrunedCount(instant) \in [Accounts -> Nat]
  BY <1>5 DEF PrunedCount
<1>7. events \ Expired(instant) \in SUBSET Event
  BY DEF QueueTypeOK
<1>8. QED
  BY <1>2, <1>3, <1>4, <1>5, <1>6, <1>7

\* Logical time never moves back.
LEMMA ClockAdvances ==
  ASSUME clock \in Nat, NEW now \in Times
  PROVE  logicalLimitTime(now) \in Nat /\ logicalLimitTime(now) >= clock
BY QueueAssumption DEF logicalLimitTime

-----------------------------------------------------------------------------
(* Every operation preserves the invariant.                                *)

LEMMA InitInv ==
  ASSUME QueueInit
  PROVE  Inv
<1> USE DEF QueueInit
<1>1. QueueTypeOK
  BY DEF QueueTypeOK
<1>2. \A a : Of(events, a) = {} /\ {id \in Ids : a \in leases[id]} = {}
  BY DEF Of
<1>3. IsFiniteSet(events) /\ Cardinality(events) = 0
  BY FS_EmptySet
<1>4. CountersExact
  BY <1>2, <1>3, FS_EmptySet DEF CountersExact
<1>5. LeasesArePending /\ OneBucket /\ EventsLogged
  BY DEF LeasesArePending, OneBucket, EventsLogged
<1>6. Keys(pending) = {} /\ Keys(ready) = {}
  BY DEF Keys
<1>7. WithinCapacity /\ ReopenNeverRefused
  <2>1. Cardinality(Keys(pending)) = 0 /\ Cardinality(Keys(ready)) = 0
    BY <1>6, FS_EmptySet
  <2>2. WithinCapacity
    BY <2>1, QueueAssumption DEF WithinCapacity
  <2>3. ReopenNeverRefused
    BY <1>3, QueueAssumption DEF ReopenNeverRefused
  <2>4. QED
    BY <2>2, <2>3
<1>8. QED
  BY <1>1, <1>3, <1>4, <1>5, <1>7 DEF Inv

\* The limits are untouched, and so is what the invariant says of them.
LEMMA LimitsUnchanged ==
  ASSUME Inv, UNCHANGED limits, Admitted \subseteq Admitted'
  PROVE  /\ IsFiniteSet(events)'
         /\ CountersExact'
         /\ ReopenNeverRefused'
         /\ EventsLogged'
<1> USE DEF Inv, limits
<1>1. IsFiniteSet(events)' /\ ReopenNeverRefused'
  BY DEF ReopenNeverRefused
<1>2. CountersExact'
  BY DEF CountersExact, Of
<1>3. EventsLogged'
  BY DEF EventsLogged
<1>4. QED
  BY <1>1, <1>2, <1>3

\* A put into pending that passed the capacity check.
LEMMA PendingPut ==
  ASSUME Inv, NEW id \in Ids, NEW payload \in Payloads,
         pending[id] = Absent, ready[id] = Absent, Depth < Capacity,
         pending' = [pending EXCEPT ![id] = payload], UNCHANGED ready
  PROVE  /\ pending' \in [Ids -> Payloads \cup {Absent}]
         /\ OneBucket'
         /\ WithinCapacity'
         /\ pending'[id] # Absent
         /\ \A other \in Ids : pending[other] # Absent => pending'[other] # Absent
<1> USE DEF Inv
<1>1. pending \in [Ids -> Payloads \cup {Absent}] /\ ready \in [Ids -> Payloads \cup {Absent}]
  BY DEF QueueTypeOK
<1>2. pending' \in [Ids -> Payloads \cup {Absent}] /\ Keys(pending)' = Keys(pending) \cup {id}
  BY <1>1, BucketPut DEF Keys
<1>3. OneBucket'
  BY <1>1, QueueAssumption DEF OneBucket
<1>4. WithinCapacity'
  <2>1. id \notin Keys(pending)
    BY DEF Keys
  <2>2. Cardinality(Keys(pending)') = Cardinality(Keys(pending)) + 1
    BY <1>2, <2>1, BucketFinite, FS_AddElement
  <2>3. Keys(ready)' = Keys(ready)
    BY DEF Keys
  <2>4. Cardinality(Keys(pending)) \in Nat /\ Cardinality(Keys(ready)) \in Nat
    BY BucketFinite
  <2>5. QED
    BY <2>2, <2>3, <2>4, QueueAssumption DEF WithinCapacity, Depth
<1>5. QED
  BY <1>1, <1>2, <1>3, <1>4, QueueAssumption

LEMMA ReserveStep ==
  ASSUME Inv, NEW id \in Ids, NEW payload \in Payloads, Reserve(id, payload)
  PROVE  Inv'
<1> USE DEF Inv, Reserve
<1>1. /\ pending' \in [Ids -> Payloads \cup {Absent}]
      /\ OneBucket'
      /\ WithinCapacity'
      /\ \A other \in Ids : pending[other] # Absent => pending'[other] # Absent
  BY PendingPut
<1> DEFINE r == [id |-> id, at |-> clock, policy |-> EmptyPolicy]
<1>2. r \in Admission /\ log' = Append(log, r) /\ log \in Seq(Admission)
  BY DEF QueueTypeOK, Record, Admission
<1>3. log' \in Seq(Admission) /\ Admitted \subseteq Admitted'
  BY <1>2, LogAdmission DEF Admitted
<1>4. QueueTypeOK'
  BY <1>1, <1>3 DEF QueueTypeOK, limits
<1>5. LeasesArePending'
  BY <1>1 DEF LeasesArePending, limits
<1>6. QED
  BY <1>1, <1>3, <1>4, <1>5, LimitsUnchanged

LEMMA UpdatePendingStep ==
  ASSUME Inv, NEW id \in Ids, NEW payload \in Payloads, UpdatePending(id, payload)
  PROVE  Inv'
<1> USE DEF Inv, UpdatePending
<1>1. pending \in [Ids -> Payloads \cup {Absent}]
  BY DEF QueueTypeOK
<1>2. pending' \in [Ids -> Payloads \cup {Absent}] /\ Keys(pending)' = Keys(pending) \cup {id}
  BY <1>1, BucketPut DEF Keys
<1>3. Keys(pending)' = Keys(pending) /\ Keys(ready)' = Keys(ready)
  BY <1>2 DEF Keys
<1>4. WithinCapacity'
  BY <1>3 DEF WithinCapacity
<1>5. OneBucket' /\ LeasesArePending'
  BY <1>1, QueueAssumption DEF OneBucket, LeasesArePending, limits
<1>6. QueueTypeOK'
  BY <1>2 DEF QueueTypeOK, limits
<1>7. Admitted \subseteq Admitted'
  BY DEF Admitted
<1>8. QED
  BY <1>4, <1>5, <1>6, <1>7, LimitsUnchanged

LEMMA AckStep ==
  ASSUME Inv, NEW id \in Ids, Ack(id)
  PROVE  Inv'
<1> USE DEF Inv, Ack
<1>1. ready \in [Ids -> Payloads \cup {Absent}]
  BY DEF QueueTypeOK
<1>2. ready' \in [Ids -> Payloads \cup {Absent}] /\ Keys(ready)' = Keys(ready) \ {id}
  BY <1>1, BucketDelete DEF Keys
<1>3. Keys(pending)' = Keys(pending)
  BY DEF Keys
<1>4. Cardinality(Keys(ready)') <= Cardinality(Keys(ready))
  BY <1>2, BucketFinite, FS_Subset
<1>5. WithinCapacity'
  <2>1. Cardinality(Keys(ready)') \in Nat /\ Cardinality(Keys(ready)) \in Nat
          /\ Cardinality(Keys(pending)) \in Nat
    BY <1>2, BucketFinite, FS_RemoveElement, FS_CardinalityType
  <2>2. QED
    BY <1>3, <1>4, <2>1, QueueAssumption DEF WithinCapacity
<1>6. OneBucket' /\ LeasesArePending'
  BY <1>1 DEF OneBucket, LeasesArePending, limits
<1>7. QueueTypeOK'
  BY <1>2 DEF QueueTypeOK, limits
<1>8. Admitted \subseteq Admitted'
  BY DEF Admitted
<1>9. QED
  BY <1>5, <1>6, <1>7, <1>8, LimitsUnchanged

LEMMA ReserveWithLimitsStep ==
  ASSUME Inv, NEW id \in Ids, NEW payload \in Payloads, NEW policy \in Policies,
         NEW now \in Times, Fresh(id), ReserveWithLimits(id, payload, policy, now)
  PROVE  Inv'
<1> DEFINE t == logicalLimitTime(now)
           D == DOMAIN policy
           kept == events \ Expired(t)
           new == NewEvents(t, id, D)
           r == [id |-> id, at |-> t, policy |-> policy]
<1>0. /\ t \in Nat
      /\ checkLimitAdmission(id, policy, t)
      /\ applyLimitAdmission(id, payload, policy, t)
      /\ log' = Append(log, r)
      /\ UNCHANGED ready
  BY ClockAdvances DEF ReserveWithLimits, Record, Inv, QueueTypeOK
<1>1. /\ pending[id] = Absent /\ ready[id] = Absent /\ Depth < Capacity
      /\ PrunedSequence(t) + Cardinality(D) <= HistoryCapacity
  BY <1>0 DEF checkLimitAdmission
<1>2. /\ clock' = t
      /\ events' = kept \cup new
      /\ rpmCount' = [a \in Accounts |-> PrunedCount(t)[a] + (IF a \in D THEN 1 ELSE 0)]
      /\ activeCount' = [a \in Accounts |-> activeCount[a] + (IF a \in D THEN 1 ELSE 0)]
      /\ sequence' = PrunedSequence(t) + Cardinality(D)
      /\ leases' = [leases EXCEPT ![id] = D]
      /\ pending' = [pending EXCEPT ![id] = payload]
  BY <1>0 DEF applyLimitAdmission, NewEvents
<1> HIDE DEF t, D
<1>3. D \subseteq Accounts /\ IsFiniteSet(D) /\ Cardinality(D) \in Nat
  BY PolicyFinite DEF D
<1>4. /\ IsFiniteSet(kept) /\ kept \in SUBSET Event
      /\ PrunedSequence(t) = Cardinality(kept) /\ PrunedSequence(t) \in Nat
      /\ PrunedCount(t) \in [Accounts -> Nat]
      /\ \A a \in Accounts : PrunedCount(t)[a] = Cardinality(Of(kept, a))
  BY <1>0, PrunedFacts
<1>5. \A e \in kept : e.id # id
  BY DEF Inv, EventsLogged, Fresh
<1> HIDE DEF kept, new
<1>6. /\ IsFiniteSet(kept \cup new)
      /\ Cardinality(kept \cup new) = Cardinality(kept) + Cardinality(D)
      /\ \A a : Cardinality(Of(kept \cup new, a)) =
                  Cardinality(Of(kept, a)) + (IF a \in D THEN 1 ELSE 0)
  BY <1>3, <1>4, <1>5, AddEvents DEF new
<1>7. /\ pending' \in [Ids -> Payloads \cup {Absent}]
      /\ OneBucket'
      /\ WithinCapacity'
      /\ pending'[id] # Absent
      /\ \A other \in Ids : pending[other] # Absent => pending'[other] # Absent
  BY <1>0, <1>1, <1>2, PendingPut
<1>8. log \in Seq(Admission) /\ r \in Admission
  BY <1>0 DEF Inv, QueueTypeOK, Admission
<1>9. log' \in Seq(Admission) /\ Admitted' = Admitted \cup {id}
  BY <1>0, <1>8, LogAdmission DEF Admitted
<1>10. leases \in [Ids -> SUBSET Accounts] /\ activeCount \in [Accounts -> Nat]
  BY DEF Inv, QueueTypeOK
<1>11. QueueTypeOK'
  <2>1. new \in SUBSET Event
    BY <1>0, <1>3 DEF new, NewEvents, Event
  <2>2. events' \in SUBSET Event
    BY <1>2, <1>4, <2>1
  <2>3. rpmCount' \in [Accounts -> Nat] /\ activeCount' \in [Accounts -> Nat]
    BY <1>2, <1>4, <1>10
  <2>4. leases' \in [Ids -> SUBSET Accounts]
    BY <1>2, <1>3, <1>10
  <2>5. sequence' \in Nat /\ clock' \in Nat
    BY <1>0, <1>2, <1>3, <1>4
  <2>6. ready' \in [Ids -> Payloads \cup {Absent}]
    BY <1>0 DEF Inv, QueueTypeOK
  <2>7. QED
    BY <1>7, <1>9, <2>2, <2>3, <2>4, <2>5, <2>6 DEF QueueTypeOK
<1>12. CountersExact'
  <2>1. sequence' = Cardinality(events')
    BY <1>2, <1>4, <1>6
  <2>2. ASSUME NEW a \in Accounts PROVE rpmCount'[a] = Cardinality(Of(events', a))
    BY <1>2, <1>4, <1>6
  <2>3. ASSUME NEW a \in Accounts
        PROVE  activeCount'[a] = Cardinality({i \in Ids : a \in leases'[i]})
    <3> DEFINE H == {i \in Ids : a \in leases[i]}
    <3>1. leases[id] = {}
      BY <1>1 DEF Inv, LeasesArePending
    <3>2. activeCount[a] = Cardinality(H) /\ IsFiniteSet(H)
      BY QueueAssumption, FS_Subset DEF Inv, CountersExact
    <3>3. CASE a \in D
      <4>1. {i \in Ids : a \in leases'[i]} = H \cup {id} /\ id \notin H
        BY <1>2, <1>10, <3>1, <3>3
      <4>2. Cardinality({i \in Ids : a \in leases'[i]}) = Cardinality(H) + 1
        BY <4>1, <3>2, FS_AddElement
      <4>3. activeCount'[a] = activeCount[a] + 1
        BY <1>2, <3>3
      <4> HIDE DEF H
      <4>4. QED
        BY <3>2, <4>2, <4>3
    <3>4. CASE a \notin D
      <4>1. {i \in Ids : a \in leases'[i]} = H
        BY <1>2, <1>10, <3>1, <3>4
      <4>2. activeCount'[a] = activeCount[a]
        BY <1>2, <1>10, <3>4
      <4> HIDE DEF H
      <4>3. QED
        BY <3>2, <4>1, <4>2
    <3>5. QED
      BY <3>3, <3>4
  <2>4. QED
    BY <2>1, <2>2, <2>3 DEF CountersExact, Of
<1>13. LeasesArePending'
  BY <1>2, <1>7, <1>10 DEF Inv, LeasesArePending
<1>14. ReopenNeverRefused'
  BY <1>1, <1>2, <1>4, <1>6 DEF ReopenNeverRefused
<1>15. EventsLogged'
  <2>1. \A e \in new : e.id = id
    BY DEF new, NewEvents
  <2>2. QED
    BY <1>2, <1>9, <2>1 DEF kept, Inv, EventsLogged
<1>16. QED
  BY <1>2, <1>6, <1>7, <1>11, <1>12, <1>13, <1>14, <1>15 DEF Inv

\* Nothing but the clock advances.
LEMMA ClockStep ==
  ASSUME Inv, clock' \in Nat,
         UNCHANGED <<pending, ready, events, rpmCount, activeCount, leases, sequence, log>>
  PROVE  Inv'
<1>1. QueueTypeOK' /\ IsFiniteSet(events)'
  BY DEF Inv, QueueTypeOK
<1>2. CountersExact' /\ LeasesArePending' /\ OneBucket'
  BY DEF Inv, CountersExact, Of, LeasesArePending, OneBucket
<1>3. WithinCapacity' /\ ReopenNeverRefused' /\ EventsLogged'
  BY DEF Inv, WithinCapacity, Keys, ReopenNeverRefused, EventsLogged, Admitted
<1>4. QED
  BY <1>1, <1>2, <1>3 DEF Inv

\* Completion moves the call between the buckets and gives its slots back; a
\* settlement advances the clock with it.
LEMMA CompleteStep ==
  ASSUME Inv, NEW id \in Ids, NEW payload \in Payloads, complete(id, payload),
         clock' \in Nat, UNCHANGED <<events, rpmCount, sequence, log>>
  PROVE  Inv'
<1>0. /\ pending \in [Ids -> Payloads \cup {Absent}]
      /\ ready \in [Ids -> Payloads \cup {Absent}]
      /\ leases \in [Ids -> SUBSET Accounts]
      /\ activeCount \in [Accounts -> Nat]
  BY DEF Inv, QueueTypeOK
<1>a. UNCHANGED <<events, rpmCount, sequence, log>> /\ Admitted' = Admitted
  BY DEF Admitted
<1>1. CASE ready[id] # Absent
  BY <1>1, ClockStep DEF complete
<1>2. CASE ready[id] = Absent
  <2>1. /\ pending[id] # Absent
        /\ ready' = [ready EXCEPT ![id] = payload]
        /\ pending' = [pending EXCEPT ![id] = Absent]
        /\ \A a \in leases[id] : activeCount[a] > 0
        /\ activeCount' = [a \in Accounts |-> activeCount[a] - (IF a \in leases[id] THEN 1 ELSE 0)]
        /\ leases' = [leases EXCEPT ![id] = {}]
    BY <1>2 DEF complete, releaseLimits, CanRelease
  <2>2. /\ pending' \in [Ids -> Payloads \cup {Absent}] /\ Keys(pending)' = Keys(pending) \ {id}
        /\ ready' \in [Ids -> Payloads \cup {Absent}] /\ Keys(ready)' = Keys(ready) \cup {id}
    BY <1>0, <2>1, BucketPut, BucketDelete DEF Keys
  <2>3. activeCount' \in [Accounts -> Nat] /\ leases' \in [Ids -> SUBSET Accounts]
    BY <1>0, <2>1
  <2>4. QueueTypeOK'
    BY <1>a, <2>2, <2>3 DEF Inv, QueueTypeOK
  <2>5. WithinCapacity'
    <3>1. id \in Keys(pending) /\ id \notin Keys(ready)
      BY <1>2, <2>1 DEF Keys
    <3>2. Cardinality(Keys(pending)') = Cardinality(Keys(pending)) - 1
      BY <2>2, <3>1, BucketFinite, FS_RemoveElement
    <3>3. Cardinality(Keys(ready)') = Cardinality(Keys(ready)) + 1
      BY <2>2, <3>1, BucketFinite, FS_AddElement
    <3>4. Cardinality(Keys(pending)) \in Nat /\ Cardinality(Keys(ready)) \in Nat
      BY BucketFinite
    <3>5. QED
      BY <3>2, <3>3, <3>4 DEF Inv, WithinCapacity
  <2>6. OneBucket' /\ LeasesArePending'
    BY <1>0, <2>1 DEF Inv, OneBucket, LeasesArePending
  <2>7. CountersExact'
    <3>1. ASSUME NEW a \in Accounts
          PROVE  activeCount'[a] = Cardinality({i \in Ids : a \in leases'[i]})
      <4> DEFINE H == {i \in Ids : a \in leases[i]}
      <4>1. activeCount[a] = Cardinality(H) /\ IsFiniteSet(H)
        BY QueueAssumption, FS_Subset DEF Inv, CountersExact
      <4>2. {i \in Ids : a \in leases'[i]} = H \ {id}
        BY <1>0, <2>1
      <4>3. Cardinality(H \ {id}) = IF id \in H THEN Cardinality(H) - 1 ELSE Cardinality(H)
        BY <4>1, FS_RemoveElement
      <4>4. id \in H <=> a \in leases[id]
        OBVIOUS
      <4>5. activeCount'[a] = activeCount[a] - (IF a \in leases[id] THEN 1 ELSE 0)
        BY <2>1
      <4>6. activeCount[a] \in Nat
        BY <1>0
      <4> HIDE DEF H
      <4>7. CASE a \in leases[id]
        <5>1. activeCount'[a] = activeCount[a] - 1
          BY <4>5, <4>7
        <5>2. Cardinality(H \ {id}) = activeCount[a] - 1
          BY <4>1, <4>3, <4>4, <4>7
        <5>3. QED
          BY <4>2, <5>1, <5>2
      <4>8. CASE a \notin leases[id]
        <5>1. activeCount'[a] = activeCount[a]
          BY <4>5, <4>6, <4>8
        <5>2. Cardinality(H \ {id}) = activeCount[a]
          BY <4>1, <4>3, <4>4, <4>8
        <5>3. QED
          BY <4>2, <5>1, <5>2
      <4>9. QED
        BY <4>7, <4>8
    <3>2. QED
      BY <1>a, <3>1 DEF Inv, CountersExact, Of
  <2>8. IsFiniteSet(events)' /\ ReopenNeverRefused' /\ EventsLogged'
    BY <1>a DEF Inv, ReopenNeverRefused, EventsLogged
  <2>9. QED
    BY <2>4, <2>5, <2>6, <2>7, <2>8 DEF Inv
<1>3. QED
  BY <1>1, <1>2

LEMMA AccountUsageStep ==
  ASSUME Inv, NEW now \in Times, AccountUsage(now)
  PROVE  Inv'
<1> DEFINE t == logicalLimitTime(now)
<1>1. t \in Nat
  BY ClockAdvances DEF Inv, QueueTypeOK
<1>2. /\ clock' = t
      /\ events' = events \ Expired(t)
      /\ rpmCount' = PrunedCount(t)
      /\ sequence' = PrunedSequence(t)
      /\ UNCHANGED <<pending, ready, activeCount, leases, log>>
  BY DEF AccountUsage, pruneLimits
<1> HIDE DEF t
<1>3. /\ IsFiniteSet(events') /\ events' \in SUBSET Event
      /\ sequence' = Cardinality(events') /\ sequence' \in Nat /\ sequence' <= sequence
      /\ rpmCount' \in [Accounts -> Nat]
      /\ \A a \in Accounts : rpmCount'[a] = Cardinality(Of(events', a))
  BY <1>1, <1>2, PrunedFacts
<1>4. QueueTypeOK'
  BY <1>1, <1>2, <1>3 DEF Inv, QueueTypeOK
<1>5. CountersExact'
  BY <1>2, <1>3 DEF Inv, CountersExact, Of
<1>6. ReopenNeverRefused'
  <2>1. sequence = Cardinality(events) /\ sequence \in Nat
    BY DEF Inv, CountersExact, QueueTypeOK
  <2>2. QED
    BY <1>3, <2>1, QueueAssumption DEF Inv, ReopenNeverRefused
<1>7. LeasesArePending' /\ OneBucket' /\ WithinCapacity'
  BY <1>2 DEF Inv, LeasesArePending, OneBucket, WithinCapacity, Keys
<1>8. EventsLogged'
  BY <1>2 DEF Inv, EventsLogged, Admitted
<1>9. QED
  BY <1>3, <1>4, <1>5, <1>6, <1>7, <1>8 DEF Inv

LEMMA ReopenStep ==
  ASSUME Inv, Reopen
  PROVE  Inv'
<1>1. /\ rpmCount' = [a \in Accounts |-> Cardinality(Of(events, a))]
      /\ activeCount' = [a \in Accounts |-> 0]
      /\ leases' = [id \in Ids |-> {}]
      /\ sequence' = Cardinality(events)
      /\ ready' = [id \in Ids |-> IF ready[id] = Absent THEN pending[id] ELSE ready[id]]
      /\ pending' = [id \in Ids |-> Absent]
      /\ UNCHANGED <<events, clock, log>>
  BY DEF Reopen, initLimits, Migrate
<1>2. /\ IsFiniteSet(events) /\ Cardinality(events) \in Nat
      /\ \A a : Cardinality(Of(events, a)) \in Nat
  BY FS_Subset, FS_CardinalityType DEF Inv, Of
<1>3. QueueTypeOK'
  BY <1>1, <1>2 DEF Inv, QueueTypeOK
<1>4. CountersExact'
  <2>1. ASSUME NEW a PROVE {id \in Ids : a \in leases'[id]} = {}
    BY <1>1
  <2>2. QED
    BY <1>1, <2>1, FS_EmptySet DEF CountersExact, Of
<1>5. LeasesArePending' /\ OneBucket'
  BY <1>1 DEF LeasesArePending, OneBucket
<1>6. WithinCapacity'
  <2>1. Keys(pending)' = {} /\ Keys(ready)' = Keys(pending) \cup Keys(ready)
    BY <1>1 DEF Keys
  <2>2. Cardinality(Keys(pending)') = 0
    BY <2>1, FS_EmptySet
  <2>3. Cardinality(Keys(ready)') = Cardinality(Keys(pending)) + Cardinality(Keys(ready))
                                      - Cardinality(Keys(pending) \cap Keys(ready))
    BY <2>1, BucketFinite, FS_Union
  <2>4. Cardinality(Keys(pending) \cap Keys(ready)) \in Nat
    BY BucketFinite, FS_Intersection, FS_CardinalityType
  <2>5. Cardinality(Keys(pending)) \in Nat /\ Cardinality(Keys(ready)) \in Nat
    BY BucketFinite
  <2>6. QED
    BY <2>2, <2>3, <2>4, <2>5, QueueAssumption DEF Inv, WithinCapacity
<1>7. IsFiniteSet(events)' /\ ReopenNeverRefused' /\ EventsLogged'
  BY <1>1 DEF Inv, ReopenNeverRefused, EventsLogged, Admitted
<1>8. QED
  BY <1>3, <1>4, <1>5, <1>6, <1>7 DEF Inv

LEMMA StutterStep ==
  ASSUME Inv, UNCHANGED queueVars
  PROVE  Inv'
<1> USE DEF Inv, queueVars
<1>1. QueueTypeOK'
  BY DEF QueueTypeOK
<1>2. CountersExact' /\ LeasesArePending' /\ OneBucket'
  BY DEF CountersExact, LeasesArePending, OneBucket, Of
<1>3. IsFiniteSet(events)' /\ WithinCapacity' /\ ReopenNeverRefused' /\ EventsLogged'
  BY DEF WithinCapacity, ReopenNeverRefused, EventsLogged, Admitted, Keys
<1>4. QED
  BY <1>1, <1>2, <1>3

-----------------------------------------------------------------------------
(* The theorems.                                                           *)

\* The invariant holds in every state of every behaviour of the journal.
THEOREM Invariance == QueueSpec => []Inv
<1>1. ASSUME Inv, [QueueNext]_queueVars
      PROVE  Inv'
  <2>1. ASSUME NEW id \in Ids, NEW payload \in Payloads, Reserve(id, payload)
        PROVE  Inv'
    BY <1>1, <2>1, ReserveStep
  <2>2. ASSUME NEW id \in Ids, NEW payload \in Payloads, NEW policy \in Policies,
               NEW now \in Times, Fresh(id), ReserveWithLimits(id, payload, policy, now)
        PROVE  Inv'
    BY <1>1, <2>2, ReserveWithLimitsStep
  <2>3. ASSUME NEW id \in Ids, NEW payload \in Payloads, UpdatePending(id, payload)
        PROVE  Inv'
    BY <1>1, <2>3, UpdatePendingStep
  <2>4. ASSUME NEW id \in Ids, NEW payload \in Payloads, Complete(id, payload)
        PROVE  Inv'
    BY <1>1, <2>4, CompleteStep DEF Complete, Inv, QueueTypeOK
  <2>5. ASSUME NEW id \in Ids, Ack(id) PROVE Inv'
    BY <1>1, <2>5, AckStep
  <2>6. ASSUME NEW now \in Times, AccountUsage(now) PROVE Inv'
    BY <1>1, <2>6, AccountUsageStep
  <2>7. CASE Reopen
    BY <1>1, <2>7, ReopenStep
  <2>8. CASE UNCHANGED queueVars
    BY <1>1, <2>8, StutterStep
  <2>9. QED
    BY <1>1, <2>1, <2>2, <2>3, <2>4, <2>5, <2>6, <2>7, <2>8 DEF QueueNext
<1>2. QED
  BY InitInv, <1>1, PTL DEF QueueSpec

\* The buckets always hold what their readers expect: type correctness.
THEOREM TypeCorrect == QueueSpec => []QueueTypeOK
<1>1. Inv => QueueTypeOK
  BY DEF Inv
<1>2. QED
  BY Invariance, <1>1, PTL

\* The incremental rate, concurrency and history counts of limits.go are exact.
THEOREM CountersCorrect == QueueSpec => []SlotsExact
<1>1. Inv => SlotsExact
  BY DEF Inv, SlotsExact
<1>2. QED
  BY Invariance, <1>1, PTL

\* The journal stays within its capacity and the next Open is never refused.
THEOREM BoundsCorrect == QueueSpec => []WithinBounds
<1>1. Inv => WithinBounds
  BY DEF Inv, WithinBounds
<1>2. QED
  BY Invariance, <1>1, PTL

-----------------------------------------------------------------------------
(* The limits over the whole history.  RateHolds and ConcurrencyHolds      *)
(* count what was ever admitted, the code what its counters say: History   *)
(* relates the two.  Every admission of the last minute still has its      *)
(* events, and every pending call holds a slot of each of its accounts.    *)

LogDistinct == \A i, j \in DOMAIN log : log[i].id = log[j].id => i = j

EventsComplete ==
  \A i \in DOMAIN log :
    log[i].at > clock - Minute =>
      NewEvents(log[i].at, log[i].id, DOMAIN log[i].policy) \subseteq events

LeasesLogged ==
  \A i \in DOMAIN log :
    pending[log[i].id] # Absent => leases[log[i].id] = DOMAIN log[i].policy

History == LogDistinct /\ EventsComplete /\ LeasesLogged

\* What a position of the log holds, before and after an admission.
LEMMA LogEntries ==
  ASSUME NEW L \in Seq(Admission), NEW r \in Admission
  PROVE  /\ DOMAIN Append(L, r) = DOMAIN L \cup {Len(L) + 1}
         /\ Len(L) + 1 \notin DOMAIN L
         /\ Append(L, r)[Len(L) + 1] = r
         /\ \A i \in DOMAIN L : /\ Append(L, r)[i] = L[i]
                                /\ L[i] \in Admission
                                /\ L[i].id \in Ids
                                /\ L[i].at \in Nat
<1>1. DOMAIN L = 1..Len(L) /\ Len(L) \in Nat
  OBVIOUS
<1>2. \A i \in DOMAIN L : L[i] \in Admission
  OBVIOUS
<1>3. \A i \in DOMAIN L : L[i].id \in Ids /\ L[i].at \in Nat
  BY <1>2 DEF Admission
<1>4. DOMAIN Append(L, r) = 1..(Len(L) + 1)
  OBVIOUS
<1>5. DOMAIN Append(L, r) = DOMAIN L \cup {Len(L) + 1} /\ Len(L) + 1 \notin DOMAIN L
  BY <1>1, <1>4
<1>6. Append(L, r)[Len(L) + 1] = r /\ \A i \in DOMAIN L : Append(L, r)[i] = L[i]
  OBVIOUS
<1>7. QED
  BY <1>2, <1>3, <1>5, <1>6

\* The entries of the log whose types the other lemmas need.
LEMMA LogTyped ==
  ASSUME log \in Seq(Admission)
  PROVE  \A i \in DOMAIN log : log[i].id \in Ids /\ log[i].at \in Nat
<1>1. \A i \in DOMAIN log : log[i] \in Admission
  OBVIOUS
<1>2. QED
  BY <1>1 DEF Admission

LEMMA HistoryInit ==
  ASSUME QueueInit
  PROVE  History
BY DEF QueueInit, History, LogDistinct, EventsComplete, LeasesLogged

\* Steps that admit nothing: they prune what is older than a minute of the new
\* clock at most, and a call that stays pending keeps its slots.
LEMMA HistoryKept ==
  ASSUME Inv, History, UNCHANGED log, clock' \in Nat, clock' >= clock,
         \A e \in events : e.at > clock' - Minute => e \in events',
         \A id \in Ids : pending'[id] # Absent =>
                           pending[id] # Absent /\ leases'[id] = leases[id]
  PROVE  History'
<1>1. log \in Seq(Admission) /\ clock \in Nat
  BY DEF Inv, QueueTypeOK
<1>2. \A i \in DOMAIN log : log[i].id \in Ids /\ log[i].at \in Nat
  BY <1>1, LogTyped
<1>3. LogDistinct'
  BY DEF History, LogDistinct
<1>4. EventsComplete'
  <2> SUFFICES ASSUME NEW i \in DOMAIN log, log[i].at > clock' - Minute,
                      NEW e \in NewEvents(log[i].at, log[i].id, DOMAIN log[i].policy)
               PROVE  e \in events'
    BY DEF EventsComplete
  <2>1. log[i].at > clock - Minute
    BY <1>1, <1>2, QueueAssumption
  <2>2. e \in events
    BY <2>1 DEF History, EventsComplete
  <2>3. e.at = log[i].at
    BY DEF NewEvents
  <2>4. QED
    BY <2>2, <2>3
<1>5. LeasesLogged'
  BY <1>2 DEF History, LeasesLogged
<1>6. QED
  BY <1>3, <1>4, <1>5 DEF History

\* The three facts of an admission that History needs, shared by the two entries.
LEMMA HistoryAdmits ==
  ASSUME Inv, History, NEW id \in Ids, NEW r \in Admission, r.id = id, Fresh(id),
         log' = Append(log, r), clock' \in Nat, clock' >= clock,
         \A e \in events : e.at > clock' - Minute => e \in events',
         NewEvents(r.at, id, DOMAIN r.policy) \subseteq events',
         leases'[id] = DOMAIN r.policy,
         \A other \in Ids \ {id} : /\ pending'[other] = pending[other]
                                   /\ leases'[other] = leases[other]
  PROVE  History'
<1>1. log \in Seq(Admission) /\ clock \in Nat
  BY DEF Inv, QueueTypeOK
<1> DEFINE n == Len(log) + 1
<1>2. /\ DOMAIN log' = DOMAIN log \cup {n}
      /\ log'[n] = r
      /\ \A i \in DOMAIN log : log'[i] = log[i] /\ log[i].id \in Ids /\ log[i].at \in Nat
  BY <1>1, LogEntries
<1> HIDE DEF n
<1>3. \A i \in DOMAIN log : log[i].id # id
  BY DEF Fresh, Admitted
<1>4. LogDistinct'
  BY <1>2, <1>3 DEF History, LogDistinct
<1>5. EventsComplete'
  <2> SUFFICES ASSUME NEW i \in DOMAIN log', log'[i].at > clock' - Minute,
                      NEW e \in NewEvents(log'[i].at, log'[i].id, DOMAIN log'[i].policy)
               PROVE  e \in events'
    BY DEF EventsComplete
  <2>1. CASE i = n
    BY <1>2, <2>1
  <2>2. CASE i \in DOMAIN log
    <3>1. log'[i] = log[i] /\ log[i].at \in Nat
      BY <1>2, <2>2
    <3>2. log[i].at > clock - Minute
      BY <1>1, <3>1, QueueAssumption
    <3>3. e \in events
      BY <2>2, <3>1, <3>2 DEF History, EventsComplete
    <3>4. e.at = log[i].at
      BY <3>1 DEF NewEvents
    <3>5. QED
      BY <3>1, <3>3, <3>4
  <2>3. QED
    BY <1>2, <2>1, <2>2
<1>6. LeasesLogged'
  BY <1>2, <1>3 DEF History, LeasesLogged
<1>7. QED
  BY <1>4, <1>5, <1>6 DEF History

LEMMA HistoryStep ==
  ASSUME Inv, History, [QueueNext]_queueVars
  PROVE  History'
<1>0. /\ pending \in [Ids -> Payloads \cup {Absent}]
      /\ leases \in [Ids -> SUBSET Accounts]
      /\ clock \in Nat
      /\ events \in SUBSET Event
  BY DEF Inv, QueueTypeOK
<1>1. ASSUME NEW id \in Ids, NEW payload \in Payloads, Fresh(id), Reserve(id, payload)
      PROVE  History'
  <2> DEFINE r == [id |-> id, at |-> clock, policy |-> EmptyPolicy]
  <2>1. r \in Admission /\ log' = Append(log, r) /\ r.id = id
    BY <1>0, <1>1 DEF Reserve, Record, Admission
  <2>2. DOMAIN r.policy = {} /\ NewEvents(r.at, id, DOMAIN r.policy) = {}
    BY DEF EmptyPolicy, NewEvents
  <2>3. /\ UNCHANGED <<events, leases, clock>>
        /\ pending' = [pending EXCEPT ![id] = payload]
        /\ pending[id] = Absent
    BY <1>1 DEF Reserve, limits
  <2>4. leases'[id] = {}
    BY <2>3 DEF Inv, LeasesArePending
  <2> HIDE DEF r
  <2>5. \A other \in Ids \ {id} : pending'[other] = pending[other] /\ leases'[other] = leases[other]
    BY <1>0, <2>3
  <2>6. clock' \in Nat /\ clock' >= clock
    BY <1>0, <2>3
  <2>7. QED
    BY <1>1, <2>1, <2>2, <2>3, <2>4, <2>5, <2>6, HistoryAdmits
<1>2. ASSUME NEW id \in Ids, NEW payload \in Payloads, NEW policy \in Policies,
             NEW now \in Times, Fresh(id), ReserveWithLimits(id, payload, policy, now)
      PROVE  History'
  <2> DEFINE t == logicalLimitTime(now)
             r == [id |-> id, at |-> t, policy |-> policy]
  <2>1. t \in Nat /\ t >= clock
    BY <1>0, ClockAdvances
  <2>2. r \in Admission /\ log' = Append(log, r) /\ r.id = id /\ r.at = t /\ r.policy = policy
    BY <1>2, <2>1 DEF ReserveWithLimits, Record, Admission
  <2>3. /\ clock' = t
        /\ events' = (events \ Expired(t)) \cup NewEvents(t, id, DOMAIN policy)
        /\ leases' = [leases EXCEPT ![id] = DOMAIN policy]
        /\ pending' = [pending EXCEPT ![id] = payload]
    BY <1>2 DEF ReserveWithLimits, applyLimitAdmission, NewEvents
  <2> HIDE DEF t, r
  <2>4. \A e \in events : e.at > t - Minute => e \in events'
    BY <1>0, <2>1, <2>3, QueueAssumption DEF Expired, Event
  <2>5. \A other \in Ids \ {id} : pending'[other] = pending[other] /\ leases'[other] = leases[other]
    BY <1>0, <2>3
  <2>6. leases'[id] = DOMAIN r.policy /\ NewEvents(r.at, id, DOMAIN r.policy) \subseteq events'
    BY <1>0, <2>2, <2>3
  <2>7. QED
    BY <1>2, <2>1, <2>2, <2>3, <2>4, <2>5, <2>6, HistoryAdmits
<1>3. ASSUME NEW id \in Ids, NEW payload \in Payloads, UpdatePending(id, payload)
      PROVE  History'
  <2>1. \A i \in Ids : pending'[i] # Absent => pending[i] # Absent /\ leases'[i] = leases[i]
    BY <1>0, <1>3 DEF UpdatePending, limits
  <2>2. UNCHANGED <<events, clock, log>>
    BY <1>3 DEF UpdatePending, limits
  <2>3. QED
    BY <1>0, <2>1, <2>2, HistoryKept
<1>4. ASSUME NEW id \in Ids, NEW payload \in Payloads, Complete(id, payload)
      PROVE  History'
  <2>1. \A i \in Ids : pending'[i] # Absent => pending[i] # Absent /\ leases'[i] = leases[i]
    BY <1>0, <1>4 DEF Complete, complete, releaseLimits
  <2>2. UNCHANGED <<events, clock, log>>
    BY <1>4 DEF Complete
  <2>3. QED
    BY <1>0, <2>1, <2>2, HistoryKept
<1>5. ASSUME NEW id \in Ids, Ack(id) PROVE History'
  <2>1. UNCHANGED <<pending, leases, events, clock, log>>
    BY <1>5 DEF Ack, limits
  <2>2. QED
    BY <1>0, <2>1, HistoryKept
<1>6. ASSUME NEW now \in Times, AccountUsage(now) PROVE History'
  <2> DEFINE t == logicalLimitTime(now)
  <2>1. t \in Nat /\ t >= clock
    BY <1>0, ClockAdvances
  <2>2. clock' = t /\ events' = events \ Expired(t) /\ UNCHANGED <<pending, leases, log>>
    BY <1>6 DEF AccountUsage, pruneLimits
  <2> HIDE DEF t
  <2>3. \A e \in events : e.at > t - Minute => e \in events'
    BY <1>0, <2>1, <2>2, QueueAssumption DEF Expired, Event
  <2>4. QED
    BY <2>1, <2>2, <2>3, HistoryKept
<1>7. CASE Reopen
  <2>1. \A i \in Ids : pending'[i] = Absent
    BY <1>7 DEF Reopen, Migrate
  <2>2. UNCHANGED <<events, clock, log>>
    BY <1>7 DEF Reopen, initLimits
  <2>3. QED
    BY <1>0, <2>1, <2>2, HistoryKept
<1>8. CASE UNCHANGED queueVars
  <2>1. UNCHANGED <<pending, leases, events, clock, log>>
    BY <1>8 DEF queueVars
  <2>2. QED
    BY <1>0, <2>1, HistoryKept
<1>9. QED
  BY <1>1, <1>2, <1>3, <1>4, <1>5, <1>6, <1>7, <1>8 DEF QueueNext

\* The log, the events and the leases say the same of every call, in every state.
THEOREM HistoryInvariance == QueueSpec => []History
<1>1. QueueInit => History
  BY HistoryInit
<1>2. Inv /\ History /\ [QueueNext]_queueVars => History'
  BY HistoryStep
<1>3. QED
  BY Invariance, <1>1, <1>2, PTL DEF QueueSpec

\* An admission under limits: what is counted over the log fits in what the
\* counters index, since distinct entries have distinct events and leases.
LEMMA AdmissionWithinLimits ==
  ASSUME Inv, Inv', History', NEW id \in Ids, NEW payload \in Payloads,
         NEW policy \in Policies, NEW now \in Times,
         ReserveWithLimits(id, payload, policy, now),
         NEW n \in DOMAIN log' \ DOMAIN log
  PROVE  RateHolds(n)' /\ ConcurrencyHolds(n)'
<1> DEFINE t == logicalLimitTime(now)
           r == [id |-> id, at |-> t, policy |-> policy]
<1>0. log \in Seq(Admission) /\ activeCount \in [Accounts -> Nat] /\ t \in Nat
  BY ClockAdvances DEF Inv, QueueTypeOK
<1>1. r \in Admission /\ log' = Append(log, r) /\ r.at = t /\ r.policy = policy
  BY <1>0 DEF ReserveWithLimits, Record, Admission
<1>2. /\ clock' = t
      /\ rpmCount' = [a \in Accounts |-> PrunedCount(t)[a] + (IF a \in DOMAIN policy THEN 1 ELSE 0)]
      /\ activeCount' = [a \in Accounts |-> activeCount[a] + (IF a \in DOMAIN policy THEN 1 ELSE 0)]
  BY DEF ReserveWithLimits, applyLimitAdmission
<1>3. \A a \in DOMAIN policy : /\ Below(PrunedCount(t)[a], policy[a].rpm)
                               /\ Below(activeCount[a], policy[a].concurrency)
  BY DEF ReserveWithLimits, checkLimitAdmission
<1>4. PrunedCount(t) \in [Accounts -> Nat]
  BY <1>0, PrunedFacts
<1> HIDE DEF t, r
<1>5. DOMAIN log' = DOMAIN log \cup {n} /\ log'[n] = r /\ n = Len(log) + 1
  BY <1>0, <1>1, LogEntries
<1>6. \A i \in DOMAIN log' : log'[i].id \in Ids /\ log'[i].at \in Nat
  <2>1. log' \in Seq(Admission)
    BY DEF Inv, QueueTypeOK
  <2>2. \A i \in DOMAIN log' : log'[i] \in Admission
    BY <2>1
  <2>3. QED
    BY <2>2 DEF Admission
<1>7. ASSUME NEW a \in DOMAIN policy
      PROVE  /\ a \in Accounts
             /\ policy[a].rpm # Unlimited =>
                  policy[a].rpm \in Nat /\ PrunedCount(t)[a] < policy[a].rpm
             /\ policy[a].concurrency # Unlimited =>
                  policy[a].concurrency \in Nat /\ activeCount[a] < policy[a].concurrency
  BY <1>3, QueueAssumption DEF IsPolicy, Below
<1>8. RateHolds(n)'
  <2> SUFFICES ASSUME NEW a \in DOMAIN policy, policy[a].rpm # Unlimited
               PROVE  Cardinality({j \in 1..n : /\ a \in DOMAIN log'[j].policy
                                                /\ log'[j].at > t - Minute})
                        <= policy[a].rpm
    BY <1>1, <1>5 DEF RateHolds
  <2> DEFINE S == {j \in 1..n : /\ a \in DOMAIN log'[j].policy
                                /\ log'[j].at > t - Minute}
             T == Of(events', a)
             f == [j \in S |-> [at |-> log'[j].at, id |-> log'[j].id, account |-> a]]
  <2>1. S \subseteq DOMAIN log'
    BY <1>0, <1>5
  <2>2. ASSUME NEW j \in S PROVE f[j] \in T
    <3>1. j \in DOMAIN log' /\ log'[j].at > clock' - Minute /\ a \in DOMAIN log'[j].policy
      BY <1>2, <2>1
    <3>2. NewEvents(log'[j].at, log'[j].id, DOMAIN log'[j].policy) \subseteq events'
      BY <3>1 DEF History, EventsComplete
    <3>3. f[j] \in NewEvents(log'[j].at, log'[j].id, DOMAIN log'[j].policy) /\ f[j].account = a
      BY <3>1 DEF NewEvents
    <3>4. QED
      BY <3>2, <3>3 DEF Of
  <2>3. ASSUME NEW j \in S, NEW k \in S, f[j] = f[k] PROVE j = k
    <3>1. f[j].id = log'[j].id /\ f[k].id = log'[k].id
      OBVIOUS
    <3>2. j \in DOMAIN log' /\ k \in DOMAIN log' /\ log'[j].id = log'[k].id
      BY <2>1, <2>3, <3>1
    <3>3. QED
      BY <3>2 DEF History, LogDistinct
  <2>4. f \in Injection(S, T)
    BY <2>2, <2>3 DEF Injection, IsInjective
  <2>5. IsFiniteSet(T) /\ Cardinality(T) = rpmCount'[a]
    BY <1>7, FS_Subset DEF Inv, CountersExact, Of
  <2>6. Cardinality(S) <= Cardinality(T) /\ IsFiniteSet(S)
    BY <2>4, <2>5, FS_Injection
  <2>7. Cardinality(S) \in Nat
    BY <2>6, FS_CardinalityType
  <2> HIDE DEF S, T, f
  <2>8. rpmCount'[a] = PrunedCount(t)[a] + 1 /\ PrunedCount(t)[a] \in Nat
    BY <1>2, <1>4, <1>7
  <2>9. Cardinality(S) <= policy[a].rpm
    BY <1>7, <2>5, <2>6, <2>7, <2>8
  <2>10. QED
    BY <2>9 DEF S
<1>9. ConcurrencyHolds(n)'
  <2> SUFFICES ASSUME NEW a \in DOMAIN policy, policy[a].concurrency # Unlimited
               PROVE  Cardinality({j \in DOMAIN log' : /\ a \in DOMAIN log'[j].policy
                                                       /\ pending'[log'[j].id] # Absent})
                        <= policy[a].concurrency
    BY <1>1, <1>5 DEF ConcurrencyHolds
  <2> DEFINE S == {j \in DOMAIN log' : /\ a \in DOMAIN log'[j].policy
                                       /\ pending'[log'[j].id] # Absent}
             T == {i \in Ids : a \in leases'[i]}
             f == [j \in S |-> log'[j].id]
  <2>1. ASSUME NEW j \in S PROVE f[j] \in T
    BY <1>6 DEF History, LeasesLogged
  <2>2. ASSUME NEW j \in S, NEW k \in S, f[j] = f[k] PROVE j = k
    BY <2>2 DEF History, LogDistinct
  <2>3. f \in Injection(S, T)
    BY <2>1, <2>2 DEF Injection, IsInjective
  <2>4. IsFiniteSet(T) /\ Cardinality(T) = activeCount'[a]
    BY <1>7, FS_Subset, QueueAssumption DEF Inv, CountersExact
  <2>5. Cardinality(S) <= Cardinality(T) /\ IsFiniteSet(S)
    BY <2>3, <2>4, FS_Injection
  <2>6. Cardinality(S) \in Nat
    BY <2>5, FS_CardinalityType
  <2> HIDE DEF S, T, f
  <2>7. activeCount'[a] = activeCount[a] + 1 /\ activeCount[a] \in Nat
    BY <1>0, <1>2, <1>7
  <2>8. Cardinality(S) <= policy[a].concurrency
    BY <1>7, <2>4, <2>5, <2>6, <2>7
  <2>9. QED
    BY <2>8 DEF S
<1>10. QED
  BY <1>8, <1>9

\* No admission takes an account over its rate or its concurrency, counted over
\* everything ever admitted (checkLimitAdmission), through pruning, restarts and
\* clocks that go backwards.
THEOREM LimitsHold == QueueSpec => LimitsRespected
<1> DEFINE Within == \A i \in DOMAIN log' \ DOMAIN log : RateHolds(i)' /\ ConcurrencyHolds(i)'
<1>1. ASSUME Inv, Inv', History, History', [QueueNext]_queueVars
      PROVE  [Within]_queueVars
  <2>1. ASSUME NEW id \in Ids, NEW payload \in Payloads, Reserve(id, payload),
               NEW n \in DOMAIN log' \ DOMAIN log
        PROVE  RateHolds(n)' /\ ConcurrencyHolds(n)'
    <3> DEFINE r == [id |-> id, at |-> clock, policy |-> EmptyPolicy]
    <3>1. r \in Admission /\ log' = Append(log, r) /\ log \in Seq(Admission)
      BY <1>1, <2>1 DEF Reserve, Record, Admission, Inv, QueueTypeOK
    <3>2. DOMAIN r.policy = {}
      BY DEF EmptyPolicy
    <3> HIDE DEF r
    <3>3. log'[n] = r
      BY <3>1, LogEntries
    <3>4. QED
      BY <3>2, <3>3 DEF RateHolds, ConcurrencyHolds
  <2>2. ASSUME NEW id \in Ids, NEW payload \in Payloads, NEW policy \in Policies,
               NEW now \in Times, ReserveWithLimits(id, payload, policy, now),
               NEW n \in DOMAIN log' \ DOMAIN log
        PROVE  RateHolds(n)' /\ ConcurrencyHolds(n)'
    BY <1>1, <2>2, AdmissionWithinLimits
  <2>3. ASSUME UNCHANGED log PROVE Within
    BY <2>3
  <2>4. ASSUME NEW id \in Ids, NEW payload \in Payloads,
               UpdatePending(id, payload) \/ Complete(id, payload)
        PROVE  Within
    BY <2>3, <2>4 DEF UpdatePending, Complete
  <2>5. ASSUME NEW id \in Ids, Ack(id) PROVE Within
    BY <2>3, <2>5 DEF Ack
  <2>6. ASSUME NEW now \in Times, AccountUsage(now) PROVE Within
    BY <2>3, <2>6 DEF AccountUsage
  <2>7. CASE Reopen
    BY <2>3, <2>7 DEF Reopen
  <2>8. ASSUME NEW id \in Ids, NEW payload \in Payloads, Reserve(id, payload)
        PROVE  Within
    BY <2>1, <2>8
  <2>9. ASSUME NEW id \in Ids, NEW payload \in Payloads, NEW policy \in Policies,
               NEW now \in Times, ReserveWithLimits(id, payload, policy, now)
        PROVE  Within
    BY <2>2, <2>9
  <2> HIDE DEF Within
  <2>10. QED
    BY <1>1, <2>4, <2>5, <2>6, <2>7, <2>8, <2>9 DEF QueueNext
<1>2. Inv /\ Inv' /\ History /\ History' /\ [QueueNext]_queueVars => [Within]_queueVars
  BY <1>1
<1>3. QED
  BY Invariance, HistoryInvariance, <1>2, PTL DEF QueueSpec, LimitsRespected

-----------------------------------------------------------------------------
(* The journal implements CallFacts.                                       *)

\* The fact that the two buckets stand for.
Image == [id \in Ids |->
            IF ready[id] # Absent THEN [kind |-> "final", payload |-> ready[id]]
            ELSE IF pending[id] # Absent THEN [kind |-> "draft", payload |-> pending[id]]
            ELSE [kind |-> "none"]]

\* The entries the buckets hold are the facts held: none is counted twice.
LEMMA ImageHeld ==
  ASSUME Inv
  PROVE  Cardinality(Facts!Held) = Depth
<1>1. Facts!Held = Keys(pending) \cup Keys(ready)
  <2>1. \A id \in Ids : Image[id] # [kind |-> "none"] <=> pending[id] # Absent \/ ready[id] # Absent
    <3> SUFFICES ASSUME NEW id \in Ids
                 PROVE  Image[id] # [kind |-> "none"] <=> pending[id] # Absent \/ ready[id] # Absent
      OBVIOUS
    <3>1. ASSUME NEW p PROVE [kind |-> "final", payload |-> p] # [kind |-> "none"]
      <4>1. [kind |-> "final", payload |-> p].kind = "final" /\ [kind |-> "none"].kind = "none"
        OBVIOUS
      <4>2. QED
        BY <4>1
    <3>2. ASSUME NEW p PROVE [kind |-> "draft", payload |-> p] # [kind |-> "none"]
      <4>1. [kind |-> "draft", payload |-> p].kind = "draft" /\ [kind |-> "none"].kind = "none"
        OBVIOUS
      <4>2. QED
        BY <4>1
    <3>3. QED
      BY <3>1, <3>2 DEF Image
  <2>2. QED
    BY <2>1 DEF Facts!Held, Facts!NoFact, Image, Keys
<1>2. Keys(pending) \cap Keys(ready) = {}
  BY DEF Inv, OneBucket, Keys
<1>3. QED
  BY <1>1, <1>2, BucketFinite, DisjointUnion DEF Depth

LEMMA ImageStep ==
  ASSUME Inv, [QueueNext]_queueVars
  PROVE  [Facts!Next]_Image
<1>0. /\ pending \in [Ids -> Payloads \cup {Absent}]
      /\ ready \in [Ids -> Payloads \cup {Absent}]
  BY DEF Inv, QueueTypeOK
<1>a. Absent \notin Payloads
  BY QueueAssumption
<1>1. ASSUME NEW id \in Ids, NEW payload \in Payloads,
             pending[id] = Absent, ready[id] = Absent, Depth < Capacity,
             pending' = [pending EXCEPT ![id] = payload], UNCHANGED ready
      PROVE  Facts!Next
  <2>1. Image[id] = Facts!NoFact
    BY <1>1 DEF Image, Facts!NoFact
  <2>2. Image' = [Image EXCEPT ![id] = Facts!Draft(payload)]
    BY <1>0, <1>a, <1>1 DEF Image, Facts!Draft
  <2>3. Cardinality(Facts!Held) < Capacity
    BY <1>1, ImageHeld
  <2>4. Facts!Accept(id, payload)
    BY <2>1, <2>2, <2>3 DEF Facts!Accept, Image, Facts!Cardinality, Cardinality
  <2>5. QED
    BY <2>4 DEF Facts!Next
<1>2. ASSUME NEW id \in Ids, NEW payload \in Payloads, Reserve(id, payload)
      PROVE  Facts!Next
  BY <1>1, <1>2 DEF Reserve
<1>3. ASSUME NEW id \in Ids, NEW payload \in Payloads, NEW policy, NEW now,
             ReserveWithLimits(id, payload, policy, now)
      PROVE  Facts!Next
  BY <1>1, <1>3 DEF ReserveWithLimits, checkLimitAdmission, applyLimitAdmission
<1>4. ASSUME NEW id \in Ids, NEW payload \in Payloads, UpdatePending(id, payload)
      PROVE  Facts!Next
  <2>1. Image[id].kind = "draft"
    BY <1>4 DEF Image, UpdatePending
  <2>2. Image' = [Image EXCEPT ![id] = Facts!Draft(payload)]
    BY <1>0, <1>a, <1>4 DEF Image, UpdatePending, Facts!Draft
  <2>3. Facts!Revise(id, payload)
    BY <2>1, <2>2 DEF Facts!Revise, Image
  <2>4. QED
    BY <2>3 DEF Facts!Next
<1>5. ASSUME NEW id \in Ids, NEW payload \in Payloads, Complete(id, payload)
      PROVE  Facts!Next \/ Image' = Image
  <2>1. CASE ready[id] # Absent
    BY <1>5, <2>1 DEF Complete, complete, Image
  <2>2. CASE ready[id] = Absent
    <3>1. /\ pending[id] # Absent
          /\ ready' = [ready EXCEPT ![id] = payload]
          /\ pending' = [pending EXCEPT ![id] = Absent]
      BY <1>5, <2>2 DEF Complete, complete
    <3>2. Image[id].kind = "draft"
      BY <2>2, <3>1 DEF Image
    <3>3. Image' = [Image EXCEPT ![id] = Facts!Final(payload)]
      BY <1>0, <1>a, <3>1 DEF Image, Facts!Final
    <3>4. Facts!Settle(id, payload)
      BY <3>2, <3>3 DEF Facts!Settle, Image
    <3>5. QED
      BY <3>4 DEF Facts!Next
  <2>3. QED
    BY <2>1, <2>2
<1>6. ASSUME NEW id \in Ids, Ack(id)
      PROVE  Facts!Next \/ Image' = Image
  <2>1. ready' = [ready EXCEPT ![id] = Absent] /\ pending' = pending
    BY <1>6 DEF Ack
  <2>2. CASE ready[id] = Absent
    <3>1. ready' = ready
      BY <1>0, <2>1, <2>2
    <3>2. QED
      BY <2>1, <3>1 DEF Image
  <2>3. CASE ready[id] # Absent
    <3>1. Image[id].kind = "final"
      BY <2>3 DEF Image
    <3>2. pending[id] = Absent
      BY <2>3 DEF Inv, OneBucket
    <3>3. Image' = [Image EXCEPT ![id] = Facts!NoFact]
      BY <1>0, <2>1, <3>2 DEF Image, Facts!NoFact
    <3>4. Facts!Acknowledge(id)
      BY <3>1, <3>3 DEF Facts!Acknowledge, Image
    <3>5. QED
      BY <3>4 DEF Facts!Next
  <2>4. QED
    BY <2>2, <2>3
<1>7. CASE Reopen
  <2>1. /\ ready' = [id \in Ids |-> IF ready[id] = Absent THEN pending[id] ELSE ready[id]]
        /\ pending' = [id \in Ids |-> Absent]
    BY <1>7 DEF Reopen, Migrate
  <2>2. ASSUME NEW id \in Ids
        PROVE  Image'[id] = IF Image[id].kind = "draft"
                            THEN Facts!Final(Image[id].payload)
                            ELSE Image[id]
    <3>1. CASE ready[id] # Absent
      BY <2>1, <3>1 DEF Image, Facts!Final
    <3>2. CASE ready[id] = Absent /\ pending[id] # Absent
      BY <2>1, <3>2 DEF Image, Facts!Final
    <3>3. CASE ready[id] = Absent /\ pending[id] = Absent
      BY <2>1, <3>3 DEF Image, Facts!Final
    <3>4. QED
      BY <3>1, <3>2, <3>3
  <2>3. Image' = [id \in Ids |-> Image'[id]]
    BY DEF Image
  <2>4. Image' = [id \in Ids |-> IF Image[id].kind = "draft"
                                 THEN Facts!Final(Image[id].payload)
                                 ELSE Image[id]]
    BY <2>2, <2>3
  <2>5. Facts!Interrupt
    BY <2>4 DEF Facts!Interrupt, Image
  <2>6. QED
    BY <2>5 DEF Facts!Next
<1>8. ASSUME UNCHANGED <<pending, ready>> PROVE Image' = Image
  BY <1>8 DEF Image
<1>9. ASSUME NEW now, AccountUsage(now) PROVE Image' = Image
  BY <1>8, <1>9 DEF AccountUsage
<1>10. CASE UNCHANGED queueVars
  BY <1>8, <1>10 DEF queueVars
<1>11. QED
  BY <1>2, <1>3, <1>4, <1>5, <1>6, <1>7, <1>9, <1>10 DEF QueueNext

\* The journal implements the promise of CallFacts: a draft until it is completed
\* or the process restarts, then one final fact that only Ack removes.
THEOREM JournalImplementsFacts == QueueSpec => ImplementsCallFacts
<1>1. QueueInit => Facts!Init
  BY DEF QueueInit, Facts!Init, Facts!NoFact
<1>2. Inv /\ [QueueNext]_queueVars =>
        [Facts!Next]_([id \in Ids |->
            IF ready[id] # Absent THEN [kind |-> "final", payload |-> ready[id]]
            ELSE IF pending[id] # Absent THEN [kind |-> "draft", payload |-> pending[id]]
            ELSE [kind |-> "none"]])
  BY ImageStep DEF Image
<1>3. QED
  BY Invariance, <1>1, <1>2, PTL DEF QueueSpec, ImplementsCallFacts, Facts!Spec

-----------------------------------------------------------------------------
(* QuotaLedger: the inductive invariant.                                   *)

\* The ledger's buckets hold what their readers expect.
LedgerTypeOK ==
  /\ version \in {1, 2}
  /\ version = 2 => zone \in Zones
  /\ coverage \in Nat
  /\ receipts \in [Ids -> Receipt \cup {Absent}]
  /\ archive \in [Ids -> Receipt \cup {Absent}]
  /\ created \in [Accounts -> Nat \cup {Absent}]
  /\ receiptCount \in Nat

\* A format 1 file has no receipt, no key that would retire one and no account.
NothingBefore ==
  version = 1 => /\ Stored(receipts) = {} /\ Stored(archive) = {} /\ retire = {}
                 /\ \A a \in Accounts : created[a] = Absent

\* A receipt is stored under its own call; its retirement key, once written, is
\* the one computed from it, so that there is one key for each receipt to remove.
KeysMatch ==
  /\ \A id \in Stored(receipts) : receipts[id].id = id
  /\ \A k \in retire : /\ k.id \in Stored(receipts)
                       /\ k = RetireKey(receipts[k.id])

\* Only calls that were admitted have had a receipt.
ArchivedAdmitted == Stored(receipts) \cup Stored(archive) \subseteq Admitted

ClockCovers ==
  /\ clock >= coverage
  /\ \A a \in Accounts : created[a] # Absent => created[a] <= clock

LedgerInv ==
  /\ Inv
  /\ LedgerTypeOK
  /\ NothingBefore
  /\ KeysMatch
  /\ ArchivedAdmitted
  /\ version = 2 => ClockCovers
  /\ \A id \in Stored(receipts) : ReceiptValid(id)
  /\ ReceiptsOutliveFacts

-----------------------------------------------------------------------------
(* Facts about receipts and their pruning.                                 *)

\* Advancing the clock, keeping the metadata and at most delivering its fact
\* leaves a receipt that Open accepts.
LEMMA StaysValid ==
  ASSUME LedgerInv, NEW id \in Stored(receipts),
         receipts'[id] = receipts[id], clock' \in Nat, clock <= clock', UNCHANGED <<zone, coverage>>,
         \A a \in Accounts : created[a] # Absent => created'[a] # Absent,
         pending[id] = Absent <=> pending'[id] = Absent,
         ready'[id] \in {ready[id], Absent}
  PROVE  ReceiptValid(id)'
<1>1. ReceiptValid(id) /\ receipts[id] \in Receipt /\ clock \in Nat
  BY DEF LedgerInv, LedgerTypeOK, Stored, Inv, QueueTypeOK
<1>2. receipts[id].at \in Nat /\ receipts[id].accounts \subseteq Accounts
  BY <1>1 DEF Receipt
<1>3. QED
  BY <1>1, <1>2 DEF ReceiptValid, MonthStart, validQuotaRecovery, quotaSettlementDigest

\* A receipt is retired with the only key it has, so pruning lowers the count by
\* the number of receipts that leave, none of which has a fact in the journal.
LEMMA PruneFacts ==
  ASSUME LedgerInv, NEW instant
  PROVE  /\ PrunedReceipts(instant) \in [Ids -> Receipt \cup {Absent}]
         /\ \A id \in Ids :
              \/ PrunedReceipts(instant)[id] = receipts[id]
              \/ /\ PrunedReceipts(instant)[id] = Absent
                 /\ pending[id] = Absent /\ ready[id] = Absent
         /\ \A k \in retire \ Retirable(instant) :
              k.id \in Ids /\ PrunedReceipts(instant)[k.id] = receipts[k.id]
         /\ PrunedReceiptCount(instant) = Cardinality(Stored(PrunedReceipts(instant)))
         /\ PrunedReceiptCount(instant) \in Nat
         /\ PrunedReceiptCount(instant) <= receiptCount
<1> DEFINE gone == {k.id : k \in Retirable(instant)}
           held == Stored(receipts)
<1>1. /\ \A k \in retire : k.id \in held /\ k = RetireKey(receipts[k.id])
      /\ receipts \in [Ids -> Receipt \cup {Absent}]
      /\ receiptCount = Cardinality(held)
  BY DEF LedgerInv, KeysMatch, LedgerTypeOK, ReceiptsOutliveFacts
<1>2. Retirable(instant) \subseteq retire /\ held \subseteq Ids
  BY DEF Retirable, Stored
<1>3. gone \subseteq held
  BY <1>1, <1>2
<1>4. IsFiniteSet(held) /\ IsFiniteSet(gone) /\ Cardinality(held) \in Nat /\ Cardinality(gone) \in Nat
  BY <1>2, <1>3, QueueAssumption, FS_Subset, FS_CardinalityType
<1>5. Cardinality(gone) = Cardinality(Retirable(instant))
  <2> DEFINE f == [i \in gone |-> RetireKey(receipts[i])]
  <2>1. \A i \in gone : f[i] \in Retirable(instant) /\ f[i].id = i
    BY <1>1, <1>2
  <2>2. \A k \in Retirable(instant) : k.id \in gone /\ f[k.id] = k
    BY <1>1, <1>2
  <2> HIDE DEF gone
  <2>3. f \in [gone -> Retirable(instant)]
    BY <2>1
  <2> HIDE DEF f
  <2>4. f \in Bijection(gone, Retirable(instant))
    BY <2>1, <2>2, <2>3 DEF Bijection, Injection, Surjection, IsInjective
  <2>5. QED
    BY <1>4, <2>4, FS_Bijection DEF ExistsBijection
<1>6. PrunedReceipts(instant) = [id \in Ids |-> IF id \in gone THEN Absent ELSE receipts[id]]
  BY DEF PrunedReceipts
<1>7. Stored(PrunedReceipts(instant)) = held \ gone
  BY <1>6 DEF Stored
<1>8. \A id \in gone : pending[id] = Absent /\ ready[id] = Absent
  BY DEF Retirable
<1>9. Cardinality(held \ gone) = Cardinality(held) - Cardinality(gone)
  <2>1. held \cap gone = gone
    BY <1>3
  <2>2. QED
    BY <1>4, <2>1, FS_Difference
<1>10. Cardinality(held \ gone) \in Nat
  BY <1>4, FS_Difference, FS_CardinalityType
<1>11. ASSUME NEW k \in retire \ Retirable(instant) PROVE k.id \in Ids \ gone
  <2>1. k.id \in Ids /\ k = RetireKey(receipts[k.id])
    BY <1>1, <1>2
  <2>2. ASSUME NEW x \in Retirable(instant), x.id = k.id PROVE FALSE
    BY <1>1, <1>2, <2>1, <2>2
  <2>3. QED
    BY <2>1, <2>2
<1>12. PrunedReceiptCount(instant) = Cardinality(held \ gone)
  BY <1>1, <1>5, <1>9 DEF PrunedReceiptCount
<1> HIDE DEF gone, held
<1>13. PrunedReceiptCount(instant) \in Nat /\ PrunedReceiptCount(instant) <= receiptCount
  BY <1>1, <1>4, <1>9, <1>10, <1>12
<1>14. PrunedReceipts(instant) \in [Ids -> Receipt \cup {Absent}]
  BY <1>1, <1>6
<1>15. QED
  BY <1>6, <1>7, <1>8, <1>11, <1>12, <1>13, <1>14

-----------------------------------------------------------------------------
(* Every operation preserves the ledger's invariant.                       *)

LEMMA LedgerInit ==
  ASSUME Init
  PROVE  LedgerInv
<1> USE DEF Init
<1>1. Inv
  BY InitInv
<1>2. Stored(receipts) = {} /\ Stored(archive) = {}
  BY DEF Stored
<1>3. Cardinality(Stored(receipts)) = 0
  BY <1>2, FS_EmptySet
<1>4. LedgerTypeOK
  BY DEF LedgerTypeOK
<1>5. NothingBefore /\ KeysMatch /\ ArchivedAdmitted
  BY <1>2 DEF NothingBefore, KeysMatch, ArchivedAdmitted
<1>6. ReceiptsOutliveFacts
  BY <1>2, <1>3, LedgerAssumption DEF ReceiptsOutliveFacts
<1>7. QED
  BY <1>1, <1>2, <1>4, <1>5, <1>6 DEF LedgerInv

\* A format 1 operation: the ledger stays, and what it does to the journal does
\* not touch the facts of calls with a receipt, but for delivering them.
LEMMA JournalStep ==
  ASSUME LedgerInv, Inv', UNCHANGED quotaVars, clock <= clock', Admitted \subseteq Admitted',
         \A id \in Stored(receipts) : /\ pending[id] = Absent <=> pending'[id] = Absent
                                      /\ ready'[id] \in {ready[id], Absent},
         \A id \in Stored(archive) : receipts[id] = Absent =>
           pending'[id] = Absent /\ ready'[id] = Absent
  PROVE  LedgerInv'
<1>0. UNCHANGED <<version, zone, coverage, receipts, retire, created, receiptCount, archive>>
  BY DEF quotaVars
<1>1. clock \in Nat /\ clock' \in Nat
  BY DEF LedgerInv, Inv, QueueTypeOK
<1>2. LedgerTypeOK'
  BY <1>0 DEF LedgerInv, LedgerTypeOK
<1>3. Stored(receipts)' = Stored(receipts) /\ Stored(archive)' = Stored(archive)
  BY <1>0 DEF Stored
<1>4. NothingBefore'
  BY <1>0, <1>3 DEF LedgerInv, NothingBefore
<1>5. KeysMatch'
  BY <1>0, <1>3 DEF LedgerInv, KeysMatch, RetireKey, LatestEnd, WindowEnd
<1>6. ArchivedAdmitted'
  BY <1>3 DEF LedgerInv, ArchivedAdmitted
<1>7. ReceiptsOutliveFacts'
  BY <1>0, <1>3 DEF LedgerInv, ReceiptsOutliveFacts
<1>8. ASSUME NEW id \in Stored(receipts)' PROVE ReceiptValid(id)'
  BY <1>0, <1>1, <1>3, StaysValid
<1>9. (version = 2 => ClockCovers)'
  BY <1>0, <1>1 DEF LedgerInv, ClockCovers, LedgerTypeOK
<1>10. QED
  BY <1>2, <1>4, <1>5, <1>6, <1>7, <1>8, <1>9 DEF LedgerInv

\* Activation finds no receipt, and starts the coverage at the clock it stores.
LEMMA EnableQuotaStep ==
  ASSUME LedgerInv, NEW z \in Zones, NEW now \in Times, EnableQuota(z, now)
  PROVE  LedgerInv'
<1>0. /\ version = 1 /\ version' = 2 /\ zone' = z
      /\ coverage' = clock' /\ clock' = logicalLimitTime(now)
      /\ UNCHANGED <<pending, ready, events, rpmCount, activeCount, leases, sequence, log,
                     receipts, retire, receiptCount, created, archive>>
  BY DEF EnableQuota, ledger
<1>1. clock' \in Nat /\ clock' >= clock /\ clock \in Nat
  BY <1>0, ClockAdvances DEF LedgerInv, Inv, QueueTypeOK
<1>2. Inv'
  BY <1>0, <1>1, ClockStep DEF LedgerInv
<1>3. LedgerTypeOK'
  BY <1>0, <1>1 DEF LedgerInv, LedgerTypeOK
<1>4. /\ Stored(receipts)' = Stored(receipts) /\ Stored(archive)' = Stored(archive)
      /\ Stored(receipts) = {} /\ Admitted' = Admitted
  BY <1>0 DEF LedgerInv, NothingBefore, Stored, Admitted
<1>5. NothingBefore' /\ ArchivedAdmitted'
  BY <1>0, <1>4 DEF LedgerInv, NothingBefore, ArchivedAdmitted
<1>6. KeysMatch' /\ ReceiptsOutliveFacts'
  BY <1>0, <1>4 DEF LedgerInv, NothingBefore, KeysMatch, ReceiptsOutliveFacts
<1>7. ClockCovers'
  <2>1. \A a \in Accounts : created[a] = Absent
    BY <1>0 DEF LedgerInv, NothingBefore
  <2>2. QED
    BY <1>0, <1>1, <2>1 DEF ClockCovers
<1>8. QED
  BY <1>2, <1>3, <1>4, <1>5, <1>6, <1>7 DEF LedgerInv

\* Reading usage or a preview prunes receipts and keeps the rest.
LEMMA PruneStep ==
  ASSUME LedgerInv, Inv', NEW instant, pruneQuota(instant), clock <= clock',
         UNCHANGED <<pending, ready, log, metadata, created, archive>>
  PROVE  LedgerInv'
<1> DEFINE R == PrunedReceipts(instant)
<1>0. /\ receipts' = R
      /\ retire' = retire \ Retirable(instant)
      /\ receiptCount' = PrunedReceiptCount(instant)
      /\ UNCHANGED <<version, zone, coverage>>
  BY DEF pruneQuota, metadata
<1>1. /\ R \in [Ids -> Receipt \cup {Absent}]
      /\ \A id \in Ids : \/ R[id] = receipts[id]
                         \/ R[id] = Absent /\ pending[id] = Absent /\ ready[id] = Absent
      /\ \A k \in retire \ Retirable(instant) : k.id \in Ids /\ R[k.id] = receipts[k.id]
      /\ receiptCount' = Cardinality(Stored(R))
      /\ receiptCount' \in Nat
      /\ receiptCount' <= receiptCount
  BY <1>0, PruneFacts
<1> HIDE DEF R
<1>2. clock \in Nat /\ clock' \in Nat
  BY DEF LedgerInv, Inv, QueueTypeOK
<1>3. /\ Stored(receipts)' = Stored(R) /\ Stored(R) \subseteq Stored(receipts)
      /\ Stored(archive)' = Stored(archive) /\ Admitted' = Admitted
      /\ \A id \in Stored(R) : receipts'[id] = receipts[id]
  BY <1>0, <1>1 DEF Stored, Admitted
<1>4. LedgerTypeOK'
  BY <1>0, <1>1 DEF LedgerInv, LedgerTypeOK
<1>5. NothingBefore' /\ ArchivedAdmitted'
  BY <1>0, <1>3 DEF LedgerInv, NothingBefore, ArchivedAdmitted
<1>6. KeysMatch'
  <2>1. ASSUME NEW k \in retire' PROVE k.id \in Stored(receipts)' /\ receipts'[k.id] = receipts[k.id]
    BY <1>0, <1>1 DEF LedgerInv, KeysMatch, Stored
  <2>2. ASSUME NEW k \in retire' PROVE k = RetireKey(receipts'[k.id])
    BY <1>0, <2>1 DEF LedgerInv, KeysMatch
  <2>3. \A id \in Stored(receipts)' : receipts'[id].id = id
    BY <1>3 DEF LedgerInv, KeysMatch
  <2>4. QED
    BY <2>1, <2>2, <2>3 DEF KeysMatch
<1>7. ReceiptsOutliveFacts'
  <2>1. Stored(archive) \subseteq Ids /\ QuotaCapacity \in Nat /\ receiptCount \in Nat
    BY LedgerAssumption DEF Stored, LedgerInv, LedgerTypeOK
  <2>2. QED
    BY <1>0, <1>1, <1>3, <2>1 DEF LedgerInv, ReceiptsOutliveFacts
<1>8. ASSUME NEW id \in Stored(receipts)' PROVE ReceiptValid(id)'
  BY <1>0, <1>2, <1>3, StaysValid
<1>9. (version = 2 => ClockCovers)'
  BY <1>0, <1>2 DEF LedgerInv, ClockCovers, LedgerTypeOK
<1>10. QED
  BY <1>4, <1>5, <1>6, <1>7, <1>8, <1>9 DEF LedgerInv

\* The history of receipts follows the store.
LEMMA ArchiveFacts ==
  ASSUME LedgerInv, Archive, receipts' \in [Ids -> Receipt \cup {Absent}]
  PROVE  /\ archive' \in [Ids -> Receipt \cup {Absent}]
         /\ Stored(archive)' = Stored(archive) \cup Stored(receipts)'
<1>1. archive \in [Ids -> Receipt \cup {Absent}]
  BY DEF LedgerInv, LedgerTypeOK
<1>2. QED
  BY <1>1 DEF Archive, Stored

LEMMA MonthType ==
  ASSUME NEW instant \in Nat, NEW z \in Zones
  PROVE  MonthStart(instant, z) \in Int
<1>1. Offset[z] \in Nat /\ MonthLength \in Nat \ {0}
  BY LedgerAssumption
<1>2. (instant + Offset[z]) % MonthLength \in Int
  BY <1>1
<1>3. QED
  BY <1>2 DEF MonthStart

LEMMA NewReceipt ==
  ASSUME NEW id \in Ids, NEW t \in Nat, NEW z \in Zones, NEW policy \in Policies,
         NEW bound \in Bounds, NEW recovery \in Settlements
  PROVE  [id |-> id, at |-> t, month |-> MonthStart(t, z), accounts |-> DOMAIN policy,
          bound |-> bound, state |-> "active", actual |-> Unsettled, recovery |-> recovery,
          digest |-> Nil, overrun |-> FALSE] \in Receipt
<1>1. MonthStart(t, z) \in Int /\ DOMAIN policy \in SUBSET Accounts
  BY MonthType, PolicyFinite
<1>2. QED
  BY <1>1, LedgerAssumption DEF Receipt

\* An admission prunes, stores a receipt for a call that has none, and registers
\* the accounts that the receipt names.
LEMMA ReserveQuotaStep ==
  ASSUME LedgerInv, NEW id \in Ids, NEW payload \in Payloads, NEW policy \in Policies,
         NEW bound \in Bounds, NEW recovery \in Settlements, NEW now \in Times, Fresh(id),
         ReserveWithQuotaRecovery(id, payload, policy, bound, recovery, now)
  PROVE  LedgerInv'
<1> DEFINE t == logicalLimitTime(now)
           R == PrunedReceipts(t)
           entry == [id |-> id, at |-> t, month |-> MonthStart(t, zone),
                     accounts |-> DOMAIN policy, bound |-> bound, state |-> "active",
                     actual |-> Unsettled, recovery |-> recovery, digest |-> Nil,
                     overrun |-> FALSE]
<1>0. /\ version = 2
      /\ validQuotaRecovery(bound, recovery)
      /\ checkQuotaAdmission(id, policy, bound, zone, t)
      /\ applyLimitAdmission(id, payload, policy, t)
      /\ created' = [a \in Accounts |-> IF a \in DOMAIN policy THEN policy[a].created ELSE created[a]]
      /\ receipts' = [R EXCEPT ![id] = entry]
      /\ retire' = retire \ Retirable(t)
      /\ receiptCount' = PrunedReceiptCount(t) + 1
      /\ Record(id, policy, t)
      /\ Archive
      /\ UNCHANGED <<ready, version, zone, coverage>>
  BY DEF ReserveWithQuotaRecovery, metadata
<1>1. /\ receipts[id] = Absent
      /\ checkLimitAdmission(id, policy, t)
      /\ PrunedReceiptCount(t) < QuotaCapacity
      /\ \A a \in DOMAIN policy : policy[a].created <= t
  BY <1>0 DEF checkQuotaAdmission, checkQuota
<1>2. ReserveWithLimits(id, payload, policy, now)
  BY <1>0, <1>1 DEF ReserveWithLimits
<1>3. Inv'
  BY <1>2, ReserveWithLimitsStep DEF LedgerInv
<1>4. t \in Nat /\ t >= clock /\ clock \in Nat /\ clock' = t
  BY <1>0, ClockAdvances DEF LedgerInv, Inv, QueueTypeOK, applyLimitAdmission
<1>5. /\ R \in [Ids -> Receipt \cup {Absent}]
      /\ \A i \in Ids : \/ R[i] = receipts[i]
                        \/ R[i] = Absent /\ pending[i] = Absent /\ ready[i] = Absent
      /\ \A k \in retire \ Retirable(t) : k.id \in Ids /\ R[k.id] = receipts[k.id]
      /\ PrunedReceiptCount(t) = Cardinality(Stored(R))
      /\ PrunedReceiptCount(t) \in Nat
  BY PruneFacts
<1>6. pending' = [pending EXCEPT ![id] = payload] /\ pending[id] = Absent /\ ready[id] = Absent
  BY <1>0, <1>1 DEF applyLimitAdmission, checkLimitAdmission
<1>7. entry \in Receipt /\ entry # Absent
  <2>1. zone \in Zones
    BY <1>0 DEF LedgerInv, LedgerTypeOK
  <2>2. entry \in Receipt
    BY <1>4, <2>1, NewReceipt
  <2>3. QED
    BY <2>2, LedgerAssumption
<1>8. /\ entry.id = id /\ entry.at = t /\ entry.month = MonthStart(t, zone)
      /\ entry.accounts = DOMAIN policy /\ entry.bound = bound /\ entry.state = "active"
      /\ entry.actual = Unsettled /\ entry.recovery = recovery /\ entry.digest = Nil
  OBVIOUS
<1>9. pending \in [Ids -> Payloads \cup {Absent}] /\ ready \in [Ids -> Payloads \cup {Absent}]
        /\ Absent \notin Payloads
  BY QueueAssumption DEF LedgerInv, Inv, QueueTypeOK
<1> HIDE DEF t, R, entry
<1>10. \A a \in DOMAIN policy : a \in Accounts /\ policy[a].created \in Nat
  BY PolicyFinite, LedgerAssumption
<1>11. /\ created' \in [Accounts -> Nat \cup {Absent}]
       /\ \A a \in Accounts : created[a] # Absent => created'[a] # Absent
       /\ \A a \in DOMAIN policy : created'[a] # Absent
  BY <1>0, <1>10, LedgerAssumption DEF LedgerInv, LedgerTypeOK
<1>12. ClockCovers'
  <2>1. coverage \in Nat /\ clock >= coverage /\ created \in [Accounts -> Nat \cup {Absent}]
    BY <1>0 DEF LedgerInv, LedgerTypeOK, ClockCovers
  <2>2. ASSUME NEW a \in Accounts, created'[a] # Absent PROVE created'[a] <= t
    BY <1>0, <1>1, <1>4, <2>1, <2>2 DEF LedgerInv, ClockCovers
  <2>3. QED
    BY <1>0, <1>4, <2>1, <2>2 DEF ClockCovers
<1>13. receipts' \in [Ids -> Receipt \cup {Absent}] /\ receipts'[id] = entry
  BY <1>0, <1>5, <1>7
<1>14. /\ archive' \in [Ids -> Receipt \cup {Absent}]
       /\ Stored(archive)' = Stored(archive) \cup Stored(receipts)'
  BY <1>0, <1>13, ArchiveFacts
<1>15. /\ Stored(receipts)' = Stored(R) \cup {id} /\ id \notin Stored(R)
       /\ Stored(R) \subseteq Stored(receipts)
       /\ \A i \in Stored(R) : receipts'[i] = receipts[i] /\ i # id
  BY <1>0, <1>1, <1>5, <1>7, <1>13 DEF Stored
<1>16. LedgerTypeOK'
  BY <1>0, <1>5, <1>11, <1>13, <1>14 DEF LedgerInv, LedgerTypeOK
<1>17. ArchivedAdmitted'
  <2> DEFINE r == [id |-> id, at |-> t, policy |-> policy]
  <2>1. r \in Admission /\ log \in Seq(Admission) /\ log' = Append(log, r)
    BY <1>0, <1>4 DEF Record, Admission, LedgerInv, Inv, QueueTypeOK
  <2>2. Admitted' = Admitted \cup {id}
    BY <2>1, LogAdmission DEF Admitted
  <2>3. QED
    BY <1>14, <1>15, <2>2 DEF LedgerInv, ArchivedAdmitted
<1>18. KeysMatch'
  <2>1. ASSUME NEW k \in retire' PROVE k.id \in Stored(receipts)' /\ k = RetireKey(receipts'[k.id])
    <3>1. k.id \in Stored(receipts) /\ k = RetireKey(receipts[k.id]) /\ R[k.id] = receipts[k.id]
      BY <1>0, <1>5 DEF LedgerInv, KeysMatch
    <3>2. k.id \in Stored(R)
      BY <3>1 DEF Stored
    <3>3. QED
      BY <1>15, <3>1, <3>2
  <2>2. \A i \in Stored(receipts)' : receipts'[i].id = i
    BY <1>8, <1>13, <1>15 DEF LedgerInv, KeysMatch
  <2>3. QED
    BY <2>1, <2>2 DEF KeysMatch
<1>19. ReceiptsOutliveFacts'
  <2>1. IsFiniteSet(Stored(R))
    BY QueueAssumption, FS_Subset DEF Stored
  <2>2. receiptCount' = Cardinality(Stored(receipts)')
    <3>1. Cardinality(Stored(R) \cup {id}) = Cardinality(Stored(R)) + 1
      BY <1>15, <2>1, FS_AddElement
    <3>2. QED
      BY <1>0, <1>5, <1>15, <3>1
  <2>3. receiptCount' <= QuotaCapacity
    BY <1>0, <1>1, <1>5, LedgerAssumption
  <2>4. ASSUME NEW i \in Stored(archive)', pending'[i] # Absent \/ ready'[i] # Absent
        PROVE  receipts'[i] # Absent
    <3>1. CASE i \in Stored(receipts)'
      BY <3>1 DEF Stored
    <3>2. CASE i \notin Stored(receipts)'
      <4>1. i \in Stored(archive) /\ i # id /\ i \in Ids
        BY <1>14, <1>15, <3>2 DEF Stored
      <4>2. pending[i] # Absent \/ ready[i] # Absent
        BY <1>0, <1>6, <1>9, <2>4, <4>1
      <4>3. receipts[i] # Absent
        BY <4>1, <4>2 DEF LedgerInv, ReceiptsOutliveFacts
      <4>4. R[i] # Absent
        BY <1>5, <4>1, <4>2, <4>3
      <4>5. QED
        BY <1>15, <3>2, <4>1, <4>4 DEF Stored
    <3>3. QED
      BY <3>1, <3>2
  <2>5. QED
    BY <2>2, <2>3, <2>4 DEF ReceiptsOutliveFacts
<1>20. ASSUME NEW i \in Stored(receipts)' PROVE ReceiptValid(i)'
  <2>1. CASE i = id
    <3>1. pending'[id] # Absent /\ ready'[id] = Absent
      BY <1>0, <1>6, <1>9
    <3>2. t >= coverage
      BY <1>0, <1>4 DEF LedgerInv, ClockCovers, LedgerTypeOK
    <3>3. entry.actual.tokens = Nil /\ entry.actual.money = Nil
      BY <1>8 DEF Unsettled
    <3>4. validQuotaRecovery(entry.bound, entry.recovery)
      BY <1>0, <1>8
    <3>5. entry.month = MonthStart(entry.at, zone')
      BY <1>0, <1>8
    <3>6. t <= clock'
      BY <1>4
    <3>7. QED
      BY <1>0, <1>8, <1>11, <1>13, <2>1, <3>1, <3>2, <3>3, <3>4, <3>5, <3>6
         DEF ReceiptValid, MonthStart, validQuotaRecovery
  <2>2. CASE i # id
    <3>1. i \in Stored(R) /\ i \in Stored(receipts) /\ i \in Ids
      BY <1>15, <2>2 DEF Stored
    <3>2. pending'[i] = pending[i] /\ ready'[i] = ready[i]
      BY <1>0, <1>6, <1>9, <2>2, <3>1
    <3>3. QED
      BY <1>0, <1>4, <1>11, <1>15, <3>1, <3>2, StaysValid
  <2>3. QED
    BY <2>1, <2>2
<1>21. NothingBefore'
  BY <1>0 DEF NothingBefore
<1>22. QED
  BY <1>3, <1>12, <1>16, <1>17, <1>18, <1>19, <1>20, <1>21 DEF LedgerInv

\* The key that retires a receipt does not depend on how it is settled.
LEMMA SameKey ==
  ASSUME NEW r, NEW s, r.id = s.id, r.at = s.at, r.month = s.month
  PROVE  RetireKey(r) = RetireKey(s)
<1>1. \A w \in Windows : WindowEnd(w, r) = WindowEnd(w, s)
  BY DEF WindowEnd
<1>2. LatestEnd(r) = LatestEnd(s)
  BY <1>1 DEF LatestEnd
<1>3. QED
  BY <1>2 DEF RetireKey

\* One receipt that stays the receipt of its call is replaced; the store keeps its
\* size, and the keys still match, with the key of that receipt added or not.
LEMMA ReplaceStep ==
  ASSUME LedgerInv, Inv', NEW id \in Stored(receipts), NEW entry \in Receipt,
         entry.id = id, entry.at = receipts[id].at, entry.month = receipts[id].month,
         receipts' = [receipts EXCEPT ![id] = entry],
         retire' \subseteq retire \cup {RetireKey(entry)},
         Archive, clock <= clock',
         UNCHANGED <<log, metadata, created, receiptCount>>,
         ReceiptValid(id)',
         \A i \in Ids : i # id => pending'[i] = pending[i] /\ ready'[i] = ready[i]
  PROVE  LedgerInv'
<1>0. /\ receipts \in [Ids -> Receipt \cup {Absent}] /\ Absent \notin Receipt
      /\ id \in Ids /\ receipts[id] # Absent
      /\ version \in {1, 2} /\ coverage \in Nat
      /\ clock \in Nat /\ clock' \in Nat
      /\ UNCHANGED <<version, zone, coverage>>
  BY LedgerAssumption DEF LedgerInv, LedgerTypeOK, Inv, QueueTypeOK, Stored, metadata
<1>1. receipts' \in [Ids -> Receipt \cup {Absent}] /\ receipts'[id] = entry
        /\ \A i \in Ids : i # id => receipts'[i] = receipts[i]
  BY <1>0
<1>2. Stored(receipts)' = Stored(receipts)
  BY <1>0, <1>1 DEF Stored
<1>3. /\ archive' \in [Ids -> Receipt \cup {Absent}]
      /\ Stored(archive)' = Stored(archive) \cup Stored(receipts)
  BY <1>1, <1>2, ArchiveFacts
<1>4. LedgerTypeOK'
  BY <1>0, <1>1, <1>3 DEF LedgerInv, LedgerTypeOK
<1>5. version = 2
  BY <1>0 DEF LedgerInv, NothingBefore
<1>6. NothingBefore' /\ ArchivedAdmitted'
  BY <1>0, <1>2, <1>3, <1>5 DEF LedgerInv, NothingBefore, ArchivedAdmitted, Admitted
<1>7. KeysMatch'
  <2>1. \A i \in Stored(receipts) : receipts[i].id = i
    BY DEF LedgerInv, KeysMatch
  <2>2. RetireKey(entry) = RetireKey(receipts[id]) /\ RetireKey(entry).id = id
    BY <2>1, SameKey DEF RetireKey
  <2>3. ASSUME NEW k \in retire' PROVE k.id \in Stored(receipts) /\ k = RetireKey(receipts'[k.id])
    <3>1. CASE k = RetireKey(entry)
      BY <1>1, <2>2, <3>1
    <3>2. CASE k \in retire
      <4>1. k.id \in Stored(receipts) /\ k = RetireKey(receipts[k.id])
        BY <3>2 DEF LedgerInv, KeysMatch
      <4>2. k.id \in Ids
        BY <4>1 DEF Stored
      <4>3. QED
        BY <1>1, <2>2, <4>1, <4>2
    <3>3. QED
      BY <3>1, <3>2
  <2>4. \A i \in Stored(receipts)' : receipts'[i].id = i
    BY <1>1, <1>2, <2>1 DEF Stored
  <2>5. QED
    BY <1>2, <2>3, <2>4 DEF KeysMatch
<1>8. ReceiptsOutliveFacts'
  <2>1. ASSUME NEW i \in Stored(archive)', pending'[i] # Absent \/ ready'[i] # Absent
        PROVE  receipts'[i] # Absent
    <3>1. CASE i = id
      BY <1>0, <1>1, <3>1
    <3>2. CASE i # id
      <4>1. i \in Ids /\ (i \in Stored(archive) \/ receipts[i] # Absent)
        BY <1>3 DEF Stored
      <4>2. QED
        BY <1>1, <2>1, <3>2, <4>1 DEF LedgerInv, ReceiptsOutliveFacts
    <3>3. QED
      BY <3>1, <3>2
  <2>2. QED
    BY <1>2, <2>1 DEF LedgerInv, ReceiptsOutliveFacts
<1>9. ASSUME NEW i \in Stored(receipts)' PROVE ReceiptValid(i)'
  <2>1. CASE i # id
    <3>1. i \in Ids /\ i \in Stored(receipts)
      BY <1>2 DEF Stored
    <3>2. QED
      BY <1>0, <1>1, <2>1, <3>1, StaysValid
  <2>2. QED
    BY <2>1
<1>10. (version = 2 => ClockCovers)'
  BY <1>0, <1>5 DEF LedgerInv, ClockCovers, LedgerTypeOK
<1>11. QED
  BY <1>4, <1>6, <1>7, <1>8, <1>9, <1>10 DEF LedgerInv

\* A checkpoint replaces the fallback and its evidence together.
LEMMA UpdatePendingQuotaStep ==
  ASSUME LedgerInv, NEW id \in Ids, NEW payload \in Payloads, NEW interrupted \in Settlements,
         UpdatePendingQuota(id, payload, interrupted)
  PROVE  LedgerInv'
<1> DEFINE old == receipts[id]
           entry == [old EXCEPT !.recovery = interrupted]
<1>0. /\ ready[id] = Absent /\ pending[id] # Absent /\ old # Absent /\ old.state = "active"
      /\ validQuotaRecovery(old.bound, interrupted)
      /\ receipts' = [receipts EXCEPT ![id] = entry]
      /\ pending' = [pending EXCEPT ![id] = payload]
      /\ Archive
      /\ UNCHANGED <<ready, events, rpmCount, activeCount, leases, sequence, clock, log,
                     version, zone, coverage, retire, receiptCount, created>>
  BY DEF UpdatePendingQuota, limits, metadata
<1>1. Inv'
  BY <1>0, UpdatePendingStep DEF LedgerInv, UpdatePending, limits
<1>2. /\ id \in Stored(receipts) /\ old \in Receipt /\ ReceiptValid(id) /\ old.id = id
      /\ pending \in [Ids -> Payloads \cup {Absent}] /\ Absent \notin Payloads
      /\ clock \in Nat
  BY <1>0, QueueAssumption DEF LedgerInv, LedgerTypeOK, Inv, QueueTypeOK, Stored, KeysMatch
<1>3. entry \in Receipt
  BY <1>2 DEF Receipt
<1>4. /\ entry.id = old.id /\ entry.at = old.at /\ entry.month = old.month
      /\ entry.accounts = old.accounts /\ entry.bound = old.bound /\ entry.state = old.state
      /\ entry.actual = old.actual /\ entry.recovery = interrupted /\ entry.digest = old.digest
  BY <1>2 DEF Receipt
<1>5. receipts'[id] = entry /\ pending'[id] = payload
  BY <1>0, <1>2 DEF LedgerInv, LedgerTypeOK
<1>6. \A i \in Ids : i # id => pending'[i] = pending[i] /\ ready'[i] = ready[i]
  BY <1>0, <1>2
<1> HIDE DEF entry
<1>7. ReceiptValid(id)'
  BY <1>0, <1>2, <1>4, <1>5 DEF ReceiptValid, MonthStart, validQuotaRecovery
<1>8. /\ retire' \subseteq retire \cup {RetireKey(entry)} /\ clock <= clock'
      /\ UNCHANGED <<log, metadata, created, receiptCount>>
  BY <1>0, <1>2 DEF metadata
<1>9. /\ receipts' = [receipts EXCEPT ![id] = entry] /\ Archive
      /\ entry.id = id /\ entry.at = receipts[id].at /\ entry.month = receipts[id].month
  BY <1>0, <1>2, <1>4
<1>10. QED
  BY <1>1, <1>2, <1>3, <1>6, <1>7, <1>8, <1>9, ReplaceStep

\* A settlement makes the receipt and the fact final together, and stores the
\* digest that Open compares with the fact.
LEMMA CompleteQuotaStep ==
  ASSUME LedgerInv, NEW id \in Ids, NEW payload \in Payloads, NEW actual \in Settlements,
         NEW now \in Times, CompleteQuota(id, payload, actual, now)
  PROVE  LedgerInv'
<1> DEFINE old == receipts[id]
           entry == [old EXCEPT !.state = "complete", !.actual = actual, !.recovery = Unsettled,
                                !.digest = quotaSettlementDigest(actual, payload),
                                !.overrun = Overruns(old.bound, actual)]
<1>0. /\ old # Absent /\ old.state = "active"
      /\ clock' = logicalLimitTime(now)
      /\ receipts' = [receipts EXCEPT ![id] = entry]
      /\ retire' = retire \cup {RetireKey(entry)}
      /\ complete(id, payload)
      /\ Archive
      /\ UNCHANGED <<events, rpmCount, sequence, log, version, zone, coverage, receiptCount, created>>
  BY DEF CompleteQuota, metadata
<1>1. clock \in Nat /\ clock' \in Nat /\ clock <= clock'
  BY <1>0, ClockAdvances DEF LedgerInv, Inv, QueueTypeOK
<1>2. Inv'
  BY <1>0, <1>1, CompleteStep DEF LedgerInv
<1>3. /\ id \in Stored(receipts) /\ old \in Receipt /\ ReceiptValid(id) /\ old.id = id
      /\ pending \in [Ids -> Payloads \cup {Absent}] /\ ready \in [Ids -> Payloads \cup {Absent}]
  BY <1>0 DEF LedgerInv, LedgerTypeOK, Inv, QueueTypeOK, Stored, KeysMatch
<1>4. /\ pending' = [pending EXCEPT ![id] = Absent]
      /\ ready' = [ready EXCEPT ![id] = payload]
  BY <1>0, <1>3 DEF ReceiptValid, complete
<1>5. Unsettled \in Settlements /\ Overruns(old.bound, actual) \in BOOLEAN
  BY LedgerAssumption DEF Overruns
<1>6. quotaSettlementDigest(actual, payload) \in Settlements \X Payloads
  BY DEF quotaSettlementDigest
<1>7. entry \in Receipt
  BY <1>3, <1>5, <1>6 DEF Receipt
<1>8. /\ entry.id = old.id /\ entry.at = old.at /\ entry.month = old.month
      /\ entry.accounts = old.accounts /\ entry.bound = old.bound /\ entry.state = "complete"
      /\ entry.actual = actual /\ entry.recovery = Unsettled
      /\ entry.digest = quotaSettlementDigest(actual, payload)
  BY <1>3 DEF Receipt
<1>9. receipts'[id] = entry /\ pending'[id] = Absent /\ ready'[id] = payload
  BY <1>0, <1>3, <1>4 DEF LedgerInv, LedgerTypeOK
<1>10. \A i \in Ids : i # id => pending'[i] = pending[i] /\ ready'[i] = ready[i]
  BY <1>3, <1>4
<1>11. old.at \in Nat
  BY <1>3 DEF Receipt
<1> HIDE DEF entry
<1>12. ReceiptValid(id)'
  <2>1. validQuotaRecovery(entry.bound, entry.recovery)
    BY <1>8 DEF validQuotaRecovery, Unsettled
  <2>2. entry.at >= coverage' /\ entry.at <= clock' /\ entry.month = MonthStart(entry.at, zone')
    BY <1>0, <1>1, <1>3, <1>8, <1>11 DEF ReceiptValid
  <2>3. \A a \in entry.accounts : created'[a] # Absent
    BY <1>0, <1>3, <1>8 DEF ReceiptValid
  <2>4. entry.digest = quotaSettlementDigest(entry.actual, ready'[id])
    BY <1>8, <1>9
  <2>5. QED
    BY <1>8, <1>9, <2>1, <2>2, <2>3, <2>4
       DEF ReceiptValid, MonthStart, validQuotaRecovery, quotaSettlementDigest, Unsettled
<1>13. /\ receipts' = [receipts EXCEPT ![id] = entry] /\ Archive
       /\ retire' \subseteq retire \cup {RetireKey(entry)}
       /\ entry.id = id /\ entry.at = receipts[id].at /\ entry.month = receipts[id].month
       /\ UNCHANGED <<log, metadata, created, receiptCount>>
  BY <1>0, <1>3, <1>8 DEF metadata
<1>14. QED
  BY <1>1, <1>2, <1>3, <1>7, <1>10, <1>12, <1>13, ReplaceStep

\* How Open settles a receipt: an active one with the evidence it was stored with,
\* against the fallback that becomes its fact; a settled one not at all.
LEMMA RecoveredReceipt ==
  ASSUME LedgerInv, NEW id \in Stored(receipts)
  PROVE  /\ Recovered[id] \in Receipt
         /\ Recovered[id].id = id /\ Recovered[id].at = receipts[id].at
         /\ Recovered[id].month = receipts[id].month
         /\ Recovered[id].accounts = receipts[id].accounts
         /\ Recovered[id].bound = receipts[id].bound
         /\ Recovered[id].state # "active"
         /\ receipts[id].state # "active" => Recovered[id] = receipts[id]
         /\ receipts[id].state = "active" =>
              /\ Recovered[id].recovery = Unsettled
              /\ Recovered[id].actual = receipts[id].recovery
              /\ Recovered[id].digest = quotaSettlementDigest(receipts[id].recovery, pending[id])
              /\ pending[id] \in Payloads /\ ready[id] = Absent
<1> DEFINE old == receipts[id]
           new == [old EXCEPT !.state = "interrupted", !.actual = old.recovery,
                              !.recovery = Unsettled,
                              !.digest = quotaSettlementDigest(old.recovery, pending[id])]
<1>1. id \in Ids /\ old # Absent /\ old \in Receipt /\ old.id = id /\ ReceiptValid(id)
        /\ pending \in [Ids -> Payloads \cup {Absent}]
  BY DEF LedgerInv, LedgerTypeOK, Inv, QueueTypeOK, Stored, KeysMatch
<1>2. CASE old.state # "active"
  BY <1>1, <1>2 DEF Recovered
<1>3. CASE old.state = "active"
  <2>1. Recovered[id] = new
    BY <1>1, <1>3 DEF Recovered, Interrupted
  <2>2. pending[id] \in Payloads /\ ready[id] = Absent
    BY <1>1, <1>3 DEF ReceiptValid
  <2>3. quotaSettlementDigest(old.recovery, pending[id]) \in Settlements \X Payloads
          /\ old.recovery \in Settlements /\ Unsettled \in Settlements
    BY <1>1, <2>2, LedgerAssumption DEF quotaSettlementDigest, Receipt
  <2>4. new \in Receipt
    BY <1>1, <2>3 DEF Receipt
  <2>5. /\ new.id = old.id /\ new.at = old.at /\ new.month = old.month
        /\ new.accounts = old.accounts /\ new.bound = old.bound
        /\ new.state = "interrupted" /\ new.recovery = Unsettled /\ new.actual = old.recovery
        /\ new.digest = quotaSettlementDigest(old.recovery, pending[id])
    BY <1>1 DEF Receipt
  <2> HIDE DEF new
  <2>6. QED
    BY <1>1, <1>3, <2>1, <2>2, <2>4, <2>5
<1>4. QED
  BY <1>2, <1>3

\* Open settles what the former process left active with the fallback it makes
\* final, and drops what has left its last window and has no fact.
LEMMA OpenLedgerStep ==
  ASSUME LedgerInv, OpenLedger
  PROVE  LedgerInv'
<1> DEFINE held == Stored(receipts)
           gone == {id \in held : /\ LatestEnd(receipts[id]) <= clock
                                  /\ ready[id] = Absent /\ pending[id] = Absent}
<1>0. /\ retire' = {RetireKey(receipts[id]) : id \in held \ gone}
      /\ receipts' = [id \in Ids |-> IF id \in gone THEN Absent ELSE Recovered[id]]
      /\ receiptCount' = Cardinality(held \ gone)
      /\ ready' = [id \in Ids |-> IF ready[id] = Absent THEN pending[id] ELSE ready[id]]
      /\ pending' = [id \in Ids |-> Absent]
      /\ Archive
      /\ UNCHANGED <<log, version, zone, coverage, created, clock>>
  BY DEF OpenLedger, recoverQuota, Migrate, metadata, initLimits
<1>1. Inv'
  BY ReopenStep DEF OpenLedger, Reopen, LedgerInv
<1>2. /\ receipts \in [Ids -> Receipt \cup {Absent}] /\ Absent \notin Receipt
      /\ held \subseteq Ids /\ clock \in Nat
      /\ \A id \in held : receipts[id] \in Receipt /\ receipts[id].id = id /\ ReceiptValid(id)
      /\ pending \in [Ids -> Payloads \cup {Absent}]
  BY LedgerAssumption DEF LedgerInv, LedgerTypeOK, Inv, QueueTypeOK, Stored, KeysMatch
<1>3. \A id \in gone : ready[id] = Absent /\ pending[id] = Absent
  OBVIOUS
<1> HIDE DEF held, gone
<1>4. gone \subseteq held
  BY DEF gone
<1>5. ASSUME NEW id \in held, receipts[id].state = "active"
      PROVE  /\ Recovered[id] \in Receipt
             /\ Recovered[id].id = id /\ Recovered[id].at = receipts[id].at
             /\ Recovered[id].month = receipts[id].month
             /\ Recovered[id].accounts = receipts[id].accounts
             /\ Recovered[id].state # "active" /\ Recovered[id].recovery = Unsettled
             /\ Recovered[id].actual = receipts[id].recovery
             /\ Recovered[id].digest = quotaSettlementDigest(receipts[id].recovery, pending[id])
             /\ pending[id] \in Payloads /\ ready[id] = Absent
  BY <1>5, RecoveredReceipt DEF held
<1>6. ASSUME NEW id \in held, receipts[id].state # "active"
      PROVE  Recovered[id] = receipts[id]
  BY <1>6, RecoveredReceipt DEF held
<1>7. \A id \in held : /\ Recovered[id] \in Receipt /\ Recovered[id] # Absent
                       /\ Recovered[id].id = id /\ Recovered[id].at = receipts[id].at
                       /\ Recovered[id].month = receipts[id].month
  BY <1>2, <1>5, <1>6
<1>8. \A id \in Ids \ held : Recovered[id] = Absent
  BY DEF Recovered, held, Stored
<1>9. receipts' \in [Ids -> Receipt \cup {Absent}] /\ Stored(receipts)' = held \ gone
        /\ \A id \in held \ gone : receipts'[id] = Recovered[id]
  <2>1. ASSUME NEW id \in Ids PROVE receipts'[id] \in Receipt \cup {Absent}
    BY <1>0, <1>2, <1>7, <1>8
  <2>2. QED
    BY <1>0, <1>2, <1>4, <1>7, <1>8, <2>1 DEF Stored
<1>10. /\ archive' \in [Ids -> Receipt \cup {Absent}]
       /\ Stored(archive)' = Stored(archive) \cup (held \ gone)
  BY <1>0, <1>9, ArchiveFacts
<1>11. IsFiniteSet(held) /\ IsFiniteSet(held \ gone) /\ Cardinality(held \ gone) \in Nat
         /\ Cardinality(held \ gone) <= Cardinality(held) /\ Cardinality(held) \in Nat
  BY <1>2, QueueAssumption, FS_Subset, FS_CardinalityType
<1>12. LedgerTypeOK'
  BY <1>0, <1>9, <1>10, <1>11 DEF LedgerInv, LedgerTypeOK
<1>13. NothingBefore'
  <2>1. ASSUME version = 1 PROVE held = {} /\ Stored(archive) = {}
    BY <2>1 DEF LedgerInv, NothingBefore, held
  <2>2. QED
    BY <1>0, <1>9, <1>10, <2>1 DEF LedgerInv, NothingBefore
<1>14. ArchivedAdmitted'
  BY <1>0, <1>9, <1>10 DEF LedgerInv, ArchivedAdmitted, Admitted, held
<1>15. KeysMatch'
  <2>1. ASSUME NEW id \in held \ gone
        PROVE  /\ RetireKey(receipts[id]) = RetireKey(receipts'[id])
               /\ RetireKey(receipts[id]).id = id
    <3>1. receipts[id].id = receipts'[id].id /\ receipts[id].at = receipts'[id].at
            /\ receipts[id].month = receipts'[id].month /\ receipts[id].id = id
      BY <1>2, <1>7, <1>9
    <3>2. QED
      BY <3>1, SameKey DEF RetireKey
  <2>2. ASSUME NEW k \in retire' PROVE k.id \in Stored(receipts)' /\ k = RetireKey(receipts'[k.id])
    <3>1. PICK id \in held \ gone : k = RetireKey(receipts[id])
      BY <1>0
    <3>2. QED
      BY <1>9, <2>1, <3>1
  <2>3. \A id \in Stored(receipts)' : receipts'[id].id = id
    BY <1>7, <1>9
  <2>4. QED
    BY <2>2, <2>3 DEF KeysMatch
<1>16. ReceiptsOutliveFacts'
  <2>1. ASSUME NEW i \in Stored(archive)', pending'[i] # Absent \/ ready'[i] # Absent
        PROVE  receipts'[i] # Absent
    <3>1. i \in Ids
      BY DEF Stored
    <3>2. pending[i] # Absent \/ ready[i] # Absent
      BY <1>0, <2>1, <3>1
    <3>3. i \in held
      BY <1>10, <3>1, <3>2 DEF LedgerInv, ReceiptsOutliveFacts, held, Stored
    <3>4. QED
      BY <1>3, <1>7, <1>9, <3>2, <3>3
  <2>2. receiptCount' = Cardinality(Stored(receipts)')
    BY <1>0, <1>9
  <2>3. receiptCount' <= QuotaCapacity
    <3>1. Cardinality(held) <= QuotaCapacity /\ QuotaCapacity \in Nat
      BY LedgerAssumption DEF LedgerInv, ReceiptsOutliveFacts, held
    <3>2. QED
      BY <1>0, <1>11, <3>1
  <2>4. QED
    BY <2>1, <2>2, <2>3 DEF ReceiptsOutliveFacts
<1>17. ASSUME NEW id \in held \ gone PROVE ReceiptValid(id)'
  <2>1. ReceiptValid(id) /\ id \in Ids /\ id \in Stored(receipts)
    BY <1>2 DEF held
  <2>2. pending'[id] = Absent
    BY <1>0, <2>1
  <2>3. CASE receipts[id].state = "active"
    <3> DEFINE e == Recovered[id]
    <3>1. receipts'[id] = e /\ ready'[id] = pending[id]
      BY <1>0, <1>5, <1>9, <2>1, <2>3
    <3>2. /\ e.at = receipts[id].at /\ e.month = receipts[id].month
          /\ e.accounts = receipts[id].accounts /\ e.state # "active" /\ e.recovery = Unsettled
          /\ e.digest = quotaSettlementDigest(e.actual, pending[id])
      BY <1>5, <2>3
    <3> HIDE DEF e
    <3>3. validQuotaRecovery(e.bound, e.recovery)
      BY <3>2 DEF validQuotaRecovery, Unsettled
    <3>4. e.at >= coverage' /\ e.at <= clock' /\ e.month = MonthStart(e.at, zone')
      BY <1>0, <2>1, <3>2 DEF ReceiptValid
    <3>5. \A a \in e.accounts : created'[a] # Absent
      BY <1>0, <2>1, <3>2 DEF ReceiptValid
    <3>6. QED
      BY <2>2, <3>1, <3>2, <3>3, <3>4, <3>5
         DEF ReceiptValid, MonthStart, validQuotaRecovery, quotaSettlementDigest, Unsettled
  <2>4. CASE receipts[id].state # "active"
    <3>1. receipts'[id] = receipts[id] /\ pending[id] = Absent /\ ready'[id] = ready[id]
      BY <1>0, <1>6, <1>9, <2>1, <2>4 DEF ReceiptValid
    <3>2. clock' \in Nat /\ clock <= clock'
      BY <1>0, <1>2
    <3>3. QED
      BY <1>0, <2>1, <2>2, <3>1, <3>2, StaysValid
  <2>5. QED
    BY <2>3, <2>4
<1>18. (version = 2 => ClockCovers)'
  BY <1>0 DEF LedgerInv, ClockCovers
<1>19. QED
  BY <1>1, <1>9, <1>12, <1>13, <1>14, <1>15, <1>16, <1>17, <1>18 DEF LedgerInv

\* The format 1 operations beside the ledger.
LEMMA LegacyStep ==
  ASSUME LedgerInv, NEW id \in Ids, NEW payload \in Payloads,
         \/ Fresh(id) /\ LegacyReserve(id, payload)
         \/ LegacyUpdatePending(id, payload)
         \/ LegacyComplete(id, payload)
  PROVE  LedgerInv'
<1>0. /\ Inv /\ clock \in Nat /\ UNCHANGED quotaVars
      /\ pending \in [Ids -> Payloads \cup {Absent}] /\ ready \in [Ids -> Payloads \cup {Absent}]
      /\ Absent \notin Payloads
      /\ \A i \in Stored(archive) : receipts[i] = Absent => pending[i] = Absent /\ ready[i] = Absent
      /\ Stored(receipts) \subseteq Ids /\ Stored(archive) \subseteq Ids
  BY QueueAssumption DEF LedgerInv, Inv, QueueTypeOK, ReceiptsOutliveFacts, Stored,
     LegacyReserve, LegacyUpdatePending, LegacyComplete
<1>1. CASE Fresh(id) /\ LegacyReserve(id, payload)
  <2>1. Inv'
    BY <1>0, <1>1, ReserveStep DEF LegacyReserve
  <2>2. /\ pending' = [pending EXCEPT ![id] = payload] /\ UNCHANGED <<ready, clock>>
        /\ id \notin Admitted /\ receipts[id] = Absent
        /\ log' = Append(log, [id |-> id, at |-> clock, policy |-> EmptyPolicy])
    BY <1>1 DEF LegacyReserve, Reserve, Record, limits, Fresh
  <2>3. Admitted \subseteq Admitted'
    <3>1. [id |-> id, at |-> clock, policy |-> EmptyPolicy] \in Admission /\ log \in Seq(Admission)
      BY <1>0 DEF Admission, Inv, QueueTypeOK
    <3>2. QED
      BY <2>2, <3>1, LogAdmission DEF Admitted
  <2>4. id \notin Stored(archive) /\ id \notin Stored(receipts)
    BY <2>2 DEF LedgerInv, ArchivedAdmitted
  <2>5. \A i \in Ids : i # id => pending'[i] = pending[i]
    BY <1>0, <2>2
  <2>6. QED
    BY <1>0, <2>1, <2>2, <2>3, <2>4, <2>5, JournalStep
<1>2. CASE LegacyUpdatePending(id, payload)
  <2>1. Inv'
    BY <1>0, <1>2, UpdatePendingStep DEF LegacyUpdatePending
  <2>2. /\ pending' = [pending EXCEPT ![id] = payload] /\ UNCHANGED <<ready, clock, log>>
        /\ pending[id] # Absent
    BY <1>2 DEF LegacyUpdatePending, UpdatePending, limits
  <2>3. \A i \in Ids : pending'[i] = Absent <=> pending[i] = Absent
    BY <1>0, <2>2
  <2>4. Admitted' = Admitted
    BY <2>2 DEF Admitted
  <2>5. QED
    BY <1>0, <2>1, <2>2, <2>3, <2>4, JournalStep
<1>3. CASE LegacyComplete(id, payload)
  <2>1. Inv'
    BY <1>0, <1>3, CompleteStep DEF LegacyComplete, Complete
  <2>2. receipts[id] = Absent /\ UNCHANGED <<clock, log>> /\ complete(id, payload)
    BY <1>3 DEF LegacyComplete, Complete
  <2>3. id \notin Stored(archive) /\ id \notin Stored(receipts)
    BY <1>0, <2>2 DEF complete, Stored
  <2>4. \A i \in Ids : i # id => pending'[i] = pending[i] /\ ready'[i] = ready[i]
    BY <1>0, <2>2 DEF complete
  <2>5. Admitted' = Admitted
    BY <2>2 DEF Admitted
  <2>6. QED
    BY <1>0, <2>1, <2>2, <2>3, <2>4, <2>5, JournalStep
<1>4. QED
  BY <1>1, <1>2, <1>3

LEMMA DeliveryStep ==
  ASSUME LedgerInv, NEW id \in Ids, Ack(id), UNCHANGED quotaVars
  PROVE  LedgerInv'
<1>0. /\ Inv /\ clock \in Nat /\ ready \in [Ids -> Payloads \cup {Absent}]
      /\ \A i \in Stored(archive) : receipts[i] = Absent => pending[i] = Absent /\ ready[i] = Absent
      /\ Stored(receipts) \subseteq Ids /\ Stored(archive) \subseteq Ids
  BY DEF LedgerInv, Inv, QueueTypeOK, ReceiptsOutliveFacts, Stored
<1>1. Inv'
  BY <1>0, AckStep
<1>2. ready' = [ready EXCEPT ![id] = Absent] /\ UNCHANGED <<pending, clock, log>>
  BY DEF Ack, limits
<1>3. \A i \in Ids : ready'[i] \in {ready[i], Absent}
  BY <1>0, <1>2
<1>4. Admitted' = Admitted
  BY <1>2 DEF Admitted
<1>5. QED
  BY <1>0, <1>1, <1>2, <1>3, <1>4, JournalStep

\* The limits of a format 1 file, and readings of the clock.
LEMMA LegacyLimitsStep ==
  ASSUME LedgerInv, NEW id \in Ids, NEW payload \in Payloads, NEW policy \in Policies,
         NEW now \in Times, Fresh(id), LegacyReserveWithLimits(id, payload, policy, now)
  PROVE  LedgerInv'
<1>1. version = 1 /\ ReserveWithLimits(id, payload, policy, now) /\ UNCHANGED quotaVars
  BY DEF LegacyReserveWithLimits
<1>2. Inv'
  BY <1>1, ReserveWithLimitsStep DEF LedgerInv
<1>3. Stored(receipts) = {} /\ Stored(archive) = {}
  BY <1>1 DEF LedgerInv, NothingBefore
<1>4. clock' = logicalLimitTime(now) /\ logicalLimitTime(now) >= clock
        /\ logicalLimitTime(now) \in Nat /\ clock \in Nat
  BY <1>1, ClockAdvances DEF LedgerInv, Inv, QueueTypeOK, ReserveWithLimits, applyLimitAdmission
<1>5. Admitted \subseteq Admitted'
  <2> DEFINE r == [id |-> id, at |-> logicalLimitTime(now), policy |-> policy]
  <2>1. r \in Admission /\ log \in Seq(Admission) /\ log' = Append(log, r)
    BY <1>1, <1>4 DEF ReserveWithLimits, Record, Admission, LedgerInv, Inv, QueueTypeOK
  <2>2. QED
    BY <2>1, LogAdmission DEF Admitted
<1>6. clock <= clock'
  BY <1>4
<1>7. QED
  BY <1>1, <1>2, <1>3, <1>5, <1>6, JournalStep

LEMMA UsageStep ==
  ASSUME LedgerInv, NEW now \in Times,
         \/ AccountUsage(now) /\ UNCHANGED quotaVars
         \/ AccountQuotaUsage(now)
         \/ \E id \in Ids, policy \in Policies, bound \in Bounds, z \in Zones :
              PreflightWithQuota(id, policy, bound, z, now)
  PROVE  LedgerInv'
<1> DEFINE t == logicalLimitTime(now)
<1>0. Inv /\ clock \in Nat /\ t \in Nat /\ clock <= t
  BY ClockAdvances DEF LedgerInv, Inv, QueueTypeOK
<1>1. CASE AccountUsage(now) /\ UNCHANGED quotaVars
  <2>1. Inv'
    BY <1>0, <1>1, AccountUsageStep
  <2>2. clock' = t /\ UNCHANGED <<pending, ready, log>>
    BY <1>1 DEF AccountUsage
  <2>3. \A i \in Stored(archive) : receipts[i] = Absent => pending[i] = Absent /\ ready[i] = Absent
    BY DEF LedgerInv, ReceiptsOutliveFacts
  <2>4. Admitted' = Admitted
    BY <2>2 DEF Admitted
  <2> HIDE DEF t
  <2>5. QED
    BY <1>0, <1>1, <2>1, <2>2, <2>3, <2>4, JournalStep
<1>2. CASE AccountQuotaUsage(now)
  <2>1. /\ clock' = t /\ pruneQuota(t)
        /\ UNCHANGED <<pending, ready, events, rpmCount, activeCount, leases, sequence, log,
                       metadata, created, archive>>
    BY <1>2 DEF AccountQuotaUsage
  <2> HIDE DEF t
  <2>2. Inv'
    BY <1>0, <2>1, ClockStep
  <2>3. QED
    BY <1>0, <2>1, <2>2, PruneStep
<1>3. ASSUME NEW id \in Ids, NEW policy \in Policies, NEW bound \in Bounds, NEW z \in Zones,
             PreflightWithQuota(id, policy, bound, z, now)
      PROVE  LedgerInv'
  <2>1. /\ clock' = t /\ pruneQuota(t) /\ AccountUsage(now)
        /\ UNCHANGED <<pending, ready, log, metadata, created, archive>>
    BY <1>3 DEF PreflightWithQuota, AccountUsage
  <2>2. Inv'
    BY <1>0, <2>1, AccountUsageStep
  <2> HIDE DEF t
  <2>3. QED
    BY <1>0, <2>1, <2>2, PruneStep
<1>4. QED
  BY <1>1, <1>2, <1>3

LEMMA LedgerNext ==
  ASSUME LedgerInv, [Next]_vars
  PROVE  LedgerInv'
<1>1. CASE UNCHANGED vars
  <2>1. UNCHANGED queueVars /\ UNCHANGED quotaVars
    BY <1>1 DEF vars, queueVars, quotaVars
  <2>2. /\ Inv' /\ clock <= clock' /\ Admitted' = Admitted /\ UNCHANGED <<pending, ready>>
    BY <2>1, ClockStep DEF LedgerInv, Inv, QueueTypeOK, queueVars, Admitted
  <2>3. \A i \in Stored(archive) : receipts[i] = Absent => pending[i] = Absent /\ ready[i] = Absent
    BY DEF LedgerInv, ReceiptsOutliveFacts
  <2>4. QED
    BY <2>1, <2>2, <2>3, JournalStep
<1>2. CASE OpenLedger
  BY <1>2, OpenLedgerStep
<1>3. ASSUME NEW id \in Ids, NEW payload \in Payloads,
             \/ Fresh(id) /\ LegacyReserve(id, payload)
             \/ \E policy \in Policies, now \in Times :
                  Fresh(id) /\ LegacyReserveWithLimits(id, payload, policy, now)
             \/ LegacyUpdatePending(id, payload)
             \/ LegacyComplete(id, payload)
      PROVE  LedgerInv'
  BY <1>3, LegacyStep, LegacyLimitsStep
<1>4. ASSUME NEW id \in Ids, NEW payload \in Payloads, NEW policy \in Policies,
             NEW bound \in Bounds, NEW recovery \in Settlements, NEW now \in Times,
             Fresh(id), ReserveWithQuotaRecovery(id, payload, policy, bound, recovery, now)
      PROVE  LedgerInv'
  BY <1>4, ReserveQuotaStep
<1>5. ASSUME NEW id \in Ids, NEW payload \in Payloads, NEW s \in Settlements,
             \/ UpdatePendingQuota(id, payload, s)
             \/ \E now \in Times : CompleteQuota(id, payload, s, now)
      PROVE  LedgerInv'
  BY <1>5, UpdatePendingQuotaStep, CompleteQuotaStep
<1>6. ASSUME NEW now \in Times,
             \/ AccountUsage(now) /\ UNCHANGED quotaVars
             \/ AccountQuotaUsage(now)
             \/ \E id \in Ids, policy \in Policies, bound \in Bounds, z \in Zones :
                  PreflightWithQuota(id, policy, bound, z, now)
             \/ \E z \in Zones : EnableQuota(z, now)
      PROVE  LedgerInv'
  BY <1>6, UsageStep, EnableQuotaStep
<1>7. ASSUME NEW id \in Ids, Ack(id), UNCHANGED quotaVars
      PROVE  LedgerInv'
  BY <1>7, DeliveryStep
<1>8. CASE Next
  BY <1>2, <1>3, <1>4, <1>5, <1>6, <1>7, <1>8 DEF Next
<1>9. QED
  BY <1>1, <1>8

THEOREM LedgerInvariance == Spec => []LedgerInv
<1>1. Init => LedgerInv
  BY LedgerInit
<1>2. LedgerInv /\ [Next]_vars => LedgerInv'
  BY LedgerNext
<1>3. QED
  BY <1>1, <1>2, PTL DEF Spec

\* Open never refuses a ledger that the operations and earlier restarts wrote
\* (the checks of recoverQuota).
THEOREM OpenAccepts == Spec => []RecoveryNeverRefused
<1>1. LedgerInv => RecoveryNeverRefused
  BY DEF LedgerInv, RecoveryNeverRefused, RecoveryAccepts, ClockCovers, ReceiptsOutliveFacts
<1>2. QED
  BY <1>1, LedgerInvariance, PTL

\* A receipt is stored as long as its call's fact is in the journal, and the count
\* that admissions check against the capacity is exact (pruneQuota, recoverQuota).
THEOREM ReceiptsStay == Spec => []ReceiptsOutliveFacts
<1>1. LedgerInv => ReceiptsOutliveFacts
  BY DEF LedgerInv
<1>2. QED
  BY <1>1, LedgerInvariance, PTL

\* The rate and concurrency indexes and the bounds of the journal hold in a file
\* of format 2 too, where settlements release the leases (CompleteQuota).
THEOREM LedgerKeepsJournal == Spec => [](QueueTypeOK /\ SlotsExact /\ WithinBounds)
<1>1. LedgerInv => QueueTypeOK /\ SlotsExact /\ WithinBounds
  BY DEF LedgerInv, Inv, SlotsExact, WithinBounds
<1>2. QED
  BY <1>1, LedgerInvariance, PTL

-----------------------------------------------------------------------------
(* The ledger implements CallFacts over pairs of a fact and a settlement.  *)

\* The pair that the journal and the ledger stand for.
PairImage == [id \in Ids |->
                IF ready[id] # Absent
                THEN [kind |-> "final", payload |-> <<ready[id], Evidence(id)>>]
                ELSE IF pending[id] # Absent
                     THEN [kind |-> "draft", payload |-> <<pending[id], Evidence(id)>>]
                ELSE [kind |-> "none"]]

LEMMA PairHeld ==
  ASSUME Inv
  PROVE  Cardinality(SettledFacts!Held) = Depth
<1>1. SettledFacts!Held = Keys(pending) \cup Keys(ready)
  <2>1. \A id \in Ids : PairImage[id] # [kind |-> "none"] <=> pending[id] # Absent \/ ready[id] # Absent
    <3> SUFFICES ASSUME NEW id \in Ids
                 PROVE  PairImage[id] # [kind |-> "none"] <=> pending[id] # Absent \/ ready[id] # Absent
      OBVIOUS
    <3>1. ASSUME NEW k, NEW p, k # "none" PROVE [kind |-> k, payload |-> p] # [kind |-> "none"]
      <4>1. [kind |-> k, payload |-> p].kind = k /\ [kind |-> "none"].kind = "none"
        OBVIOUS
      <4>2. QED
        BY <3>1, <4>1
    <3>2. QED
      BY <3>1 DEF PairImage
  <2>2. QED
    BY <2>1 DEF SettledFacts!Held, SettledFacts!NoFact, PairImage, Keys
<1>2. Keys(pending) \cap Keys(ready) = {}
  BY DEF Inv, OneBucket, Keys
<1>3. QED
  BY <1>1, <1>2, BucketFinite, DisjointUnion DEF Depth

LEMMA EvidenceType ==
  ASSUME LedgerInv, NEW id \in Ids
  PROVE  Evidence(id) \in Settlements
<1>1. receipts[id] \in Receipt \cup {Absent} /\ Unsettled \in Settlements
  BY LedgerAssumption DEF LedgerInv, LedgerTypeOK
<1>2. QED
  BY <1>1 DEF Evidence, Receipt

\* A call whose entries and receipt stay, or that has no entry, keeps its pair.
LEMMA PairKept ==
  ASSUME NEW i \in Ids, pending'[i] = pending[i], ready'[i] = ready[i],
         receipts'[i] = receipts[i] \/ (pending[i] = Absent /\ ready[i] = Absent)
  PROVE  PairImage'[i] = PairImage[i]
<1>1. CASE pending[i] = Absent /\ ready[i] = Absent
  BY <1>1 DEF PairImage
<1>2. CASE receipts'[i] = receipts[i]
  <2>1. Evidence(i)' = Evidence(i)
    BY <1>2 DEF Evidence
  <2>2. QED
    BY <2>1 DEF PairImage
<1>3. QED
  BY <1>1, <1>2

\* The image after a step that changes one pair.
LEMMA PairChanged ==
  ASSUME NEW id \in Ids, NEW v, PairImage'[id] = v,
         \A i \in Ids : i # id => PairImage'[i] = PairImage[i]
  PROVE  PairImage' = [PairImage EXCEPT ![id] = v]
<1>1. ASSUME NEW F, NEW G, F = [i \in Ids |-> F[i]], G = [i \in Ids |-> G[i]], G[id] = v,
             \A i \in Ids : i # id => G[i] = F[i]
      PROVE  G = [F EXCEPT ![id] = v]
  BY <1>1
<1>2. PairImage = [i \in Ids |-> PairImage[i]] /\ PairImage' = [i \in Ids |-> PairImage'[i]]
  BY DEF PairImage
<1>3. QED
  BY <1>1, <1>2

\* A draft is stored with its evidence in a journal that has room.
LEMMA PairAccepted ==
  ASSUME LedgerInv, NEW id \in Ids, NEW p \in Payloads, NEW s \in Settlements,
         pending[id] = Absent, ready[id] = Absent, Depth < Capacity,
         pending' = [pending EXCEPT ![id] = p], UNCHANGED ready, Evidence(id)' = s,
         \A i \in Ids : i # id =>
           receipts'[i] = receipts[i] \/ (pending[i] = Absent /\ ready[i] = Absent)
  PROVE  SettledFacts!Next
<1>0. Inv /\ pending \in [Ids -> Payloads \cup {Absent}] /\ Absent \notin Payloads
  BY QueueAssumption DEF LedgerInv, Inv, QueueTypeOK
<1>1. PairImage[id] = SettledFacts!NoFact
  BY DEF PairImage, SettledFacts!NoFact
<1>2. PairImage'[id] = SettledFacts!Draft(<<p, s>>)
  BY <1>0 DEF PairImage, SettledFacts!Draft
<1>3. \A i \in Ids : i # id => PairImage'[i] = PairImage[i]
  BY <1>0, PairKept
<1>4. PairImage' = [PairImage EXCEPT ![id] = SettledFacts!Draft(<<p, s>>)]
  BY <1>2, <1>3, PairChanged
<1>5. Cardinality(SettledFacts!Held) < Capacity
  BY <1>0, PairHeld
<1>6. SettledFacts!Accept(id, <<p, s>>)
  BY <1>1, <1>4, <1>5 DEF SettledFacts!Accept, PairImage, SettledFacts!Cardinality, Cardinality
<1>7. QED
  BY <1>6 DEF SettledFacts!Next

\* A draft is revised, the fallback or its evidence or both.
LEMMA PairRevised ==
  ASSUME LedgerInv, NEW id \in Ids, NEW p \in Payloads, NEW s \in Settlements,
         pending[id] # Absent, ready[id] = Absent,
         pending' = [pending EXCEPT ![id] = p], UNCHANGED ready, Evidence(id)' = s,
         \A i \in Ids : i # id => receipts'[i] = receipts[i]
  PROVE  SettledFacts!Next
<1>0. pending \in [Ids -> Payloads \cup {Absent}] /\ Absent \notin Payloads
  BY QueueAssumption DEF LedgerInv, Inv, QueueTypeOK
<1>1. PairImage[id].kind = "draft"
  BY DEF PairImage
<1>2. PairImage'[id] = SettledFacts!Draft(<<p, s>>)
  BY <1>0 DEF PairImage, SettledFacts!Draft
<1>3. \A i \in Ids : i # id => PairImage'[i] = PairImage[i]
  BY <1>0, PairKept
<1>4. PairImage' = [PairImage EXCEPT ![id] = SettledFacts!Draft(<<p, s>>)]
  BY <1>2, <1>3, PairChanged
<1>5. SettledFacts!Revise(id, <<p, s>>)
  BY <1>1, <1>4 DEF SettledFacts!Revise, PairImage
<1>6. QED
  BY <1>5 DEF SettledFacts!Next

\* A draft becomes final with the settlement it is accepted with.
LEMMA PairSettled ==
  ASSUME LedgerInv, NEW id \in Ids, NEW p \in Payloads, NEW s \in Settlements,
         pending[id] # Absent, ready[id] = Absent,
         pending' = [pending EXCEPT ![id] = Absent], ready' = [ready EXCEPT ![id] = p],
         Evidence(id)' = s,
         \A i \in Ids : i # id => receipts'[i] = receipts[i]
  PROVE  SettledFacts!Next
<1>0. pending \in [Ids -> Payloads \cup {Absent}] /\ Absent \notin Payloads
        /\ ready \in [Ids -> Payloads \cup {Absent}]
  BY QueueAssumption DEF LedgerInv, Inv, QueueTypeOK
<1>1. PairImage[id].kind = "draft"
  BY DEF PairImage
<1>2. PairImage'[id] = SettledFacts!Final(<<p, s>>)
  BY <1>0 DEF PairImage, SettledFacts!Final
<1>3. \A i \in Ids : i # id => PairImage'[i] = PairImage[i]
  BY <1>0, PairKept
<1>4. PairImage' = [PairImage EXCEPT ![id] = SettledFacts!Final(<<p, s>>)]
  BY <1>2, <1>3, PairChanged
<1>5. SettledFacts!Settle(id, <<p, s>>)
  BY <1>1, <1>4 DEF SettledFacts!Settle, PairImage
<1>6. QED
  BY <1>5 DEF SettledFacts!Next

\* Pruning takes receipts of delivered calls only, so that no pair changes.
LEMMA PairPruned ==
  ASSUME LedgerInv, UNCHANGED <<pending, ready>>,
         \/ UNCHANGED receipts
         \/ \E instant : receipts' = PrunedReceipts(instant)
  PROVE  PairImage' = PairImage
<1>1. ASSUME NEW i \in Ids PROVE PairImage'[i] = PairImage[i]
  <2>1. receipts'[i] = receipts[i] \/ (pending[i] = Absent /\ ready[i] = Absent)
    BY PruneFacts
  <2>2. QED
    BY <2>1, PairKept
<1>2. QED
  BY <1>1 DEF PairImage

LEMMA PairAcknowledged ==
  ASSUME LedgerInv, NEW id \in Ids, Ack(id), UNCHANGED receipts
  PROVE  SettledFacts!Next \/ PairImage' = PairImage
<1>0. /\ ready' = [ready EXCEPT ![id] = Absent] /\ pending' = pending
      /\ ready \in [Ids -> Payloads \cup {Absent}]
  BY DEF Ack, LedgerInv, Inv, QueueTypeOK
<1>1. CASE ready[id] = Absent
  <2>1. ready' = ready
    BY <1>0, <1>1
  <2>2. QED
    BY <1>0, <2>1, PairPruned
<1>2. CASE ready[id] # Absent
  <2>1. PairImage[id].kind = "final" /\ pending[id] = Absent
    BY <1>2 DEF PairImage, LedgerInv, Inv, OneBucket
  <2>2. PairImage'[id] = SettledFacts!NoFact
    BY <1>0, <2>1 DEF PairImage, SettledFacts!NoFact
  <2>3. \A i \in Ids : i # id => PairImage'[i] = PairImage[i]
    BY <1>0, PairKept
  <2>4. PairImage' = [PairImage EXCEPT ![id] = SettledFacts!NoFact]
    BY <2>2, <2>3, PairChanged
  <2>5. SettledFacts!Acknowledge(id)
    BY <2>1, <2>4 DEF SettledFacts!Acknowledge, PairImage
  <2>6. QED
    BY <2>5 DEF SettledFacts!Next
<1>3. QED
  BY <1>1, <1>2

\* A restart makes every draft final with the evidence it was stored with.
LEMMA PairInterrupted ==
  ASSUME LedgerInv, OpenLedger
  PROVE  SettledFacts!Next
<1> DEFINE gone == {id \in Stored(receipts) : /\ LatestEnd(receipts[id]) <= clock
                                              /\ ready[id] = Absent /\ pending[id] = Absent}
<1>0. /\ receipts' = [id \in Ids |-> IF id \in gone THEN Absent ELSE Recovered[id]]
      /\ ready' = [id \in Ids |-> IF ready[id] = Absent THEN pending[id] ELSE ready[id]]
      /\ pending' = [id \in Ids |-> Absent]
      /\ receipts \in [Ids -> Receipt \cup {Absent}] /\ Absent \notin Receipt
  BY LedgerAssumption DEF OpenLedger, recoverQuota, Migrate, LedgerInv, LedgerTypeOK
<1>1. ASSUME NEW id \in Ids, pending[id] # Absent \/ ready[id] # Absent
      PROVE  Evidence(id)' = Evidence(id)
  <2>1. receipts'[id] = Recovered[id]
    BY <1>0, <1>1
  <2>2. CASE receipts[id] = Absent
    BY <2>1, <2>2 DEF Recovered, Evidence
  <2>3. CASE receipts[id] # Absent /\ receipts[id].state = "active"
    <3>1. /\ Recovered[id] \in Receipt /\ Recovered[id].state # "active"
          /\ Recovered[id].actual = receipts[id].recovery
      BY <2>3, RecoveredReceipt DEF Stored
    <3>2. QED
      BY <1>0, <2>1, <2>3, <3>1 DEF Evidence
  <2>4. CASE receipts[id] # Absent /\ receipts[id].state # "active"
    <3>1. receipts'[id] = receipts[id]
      BY <2>1, <2>4 DEF Recovered
    <3>2. QED
      BY <3>1 DEF Evidence
  <2>5. QED
    BY <2>2, <2>3, <2>4
<1>2. ASSUME NEW id \in Ids
      PROVE  PairImage'[id] = IF PairImage[id].kind = "draft"
                              THEN SettledFacts!Final(PairImage[id].payload)
                              ELSE PairImage[id]
  <2>1. CASE ready[id] # Absent
    <3>1. Evidence(id)' = Evidence(id) /\ ready'[id] = ready[id]
      BY <1>0, <1>1, <2>1
    <3>2. QED
      BY <2>1, <3>1 DEF PairImage
  <2>2. CASE ready[id] = Absent /\ pending[id] # Absent
    <3>1. Evidence(id)' = Evidence(id) /\ ready'[id] = pending[id]
      BY <1>0, <1>1, <2>2
    <3>2. PairImage'[id] = SettledFacts!Final(<<pending[id], Evidence(id)>>)
      BY <2>2, <3>1 DEF PairImage, SettledFacts!Final
    <3>3. PairImage[id].kind = "draft" /\ PairImage[id].payload = <<pending[id], Evidence(id)>>
      BY <2>2 DEF PairImage
    <3>4. QED
      BY <3>2, <3>3
  <2>3. CASE ready[id] = Absent /\ pending[id] = Absent
    <3>1. ready'[id] = Absent /\ pending'[id] = Absent
      BY <1>0, <2>3
    <3>2. QED
      BY <2>3, <3>1 DEF PairImage
  <2>4. QED
    BY <2>1, <2>2, <2>3
<1>3. PairImage' = [id \in Ids |-> PairImage'[id]]
  BY DEF PairImage
<1>4. PairImage' = [id \in Ids |-> IF PairImage[id].kind = "draft"
                                   THEN SettledFacts!Final(PairImage[id].payload)
                                   ELSE PairImage[id]]
  BY <1>2, <1>3
<1>5. SettledFacts!Interrupt
  BY <1>4 DEF SettledFacts!Interrupt, PairImage
<1>6. QED
  BY <1>5 DEF SettledFacts!Next

LEMMA PairStep ==
  ASSUME LedgerInv, [Next]_vars
  PROVE  [SettledFacts!Next]_PairImage
<1>0. /\ receipts \in [Ids -> Receipt \cup {Absent}]
      /\ Absent \notin Receipt /\ Unsettled \in Settlements
  BY LedgerAssumption DEF LedgerInv, LedgerTypeOK
<1>1. ASSUME NEW id \in Ids, NEW payload \in Payloads,
             \/ LegacyReserve(id, payload)
             \/ \E policy, now : LegacyReserveWithLimits(id, payload, policy, now)
      PROVE  SettledFacts!Next
  <2>1. /\ pending[id] = Absent /\ ready[id] = Absent /\ Depth < Capacity
        /\ pending' = [pending EXCEPT ![id] = payload] /\ UNCHANGED <<ready, receipts>>
    BY <1>1 DEF LegacyReserve, LegacyReserveWithLimits, Reserve, ReserveWithLimits,
       checkLimitAdmission, applyLimitAdmission, quotaVars
  <2>2. receipts[id] = Absent
    BY <1>1 DEF LegacyReserve, LegacyReserveWithLimits, LedgerInv, NothingBefore, Stored
  <2>3. Evidence(id)' = Unsettled
    BY <2>1, <2>2 DEF Evidence
  <2>4. QED
    BY <1>0, <2>1, <2>3, PairAccepted
<1>2. ASSUME NEW id \in Ids, NEW payload \in Payloads, LegacyUpdatePending(id, payload)
      PROVE  SettledFacts!Next
  <2>1. /\ pending[id] # Absent /\ ready[id] = Absent
        /\ pending' = [pending EXCEPT ![id] = payload] /\ UNCHANGED <<ready, receipts>>
    BY <1>2 DEF LegacyUpdatePending, UpdatePending, quotaVars
  <2>2. Evidence(id)' = Evidence(id)
    BY <2>1 DEF Evidence
  <2>3. QED
    BY <2>1, <2>2, EvidenceType, PairRevised
<1>3. ASSUME NEW id \in Ids, NEW payload \in Payloads, LegacyComplete(id, payload)
      PROVE  SettledFacts!Next \/ PairImage' = PairImage
  <2>1. receipts[id] = Absent /\ UNCHANGED receipts /\ complete(id, payload)
    BY <1>3 DEF LegacyComplete, Complete, quotaVars
  <2>2. Evidence(id)' = Unsettled
    BY <2>1 DEF Evidence
  <2>3. CASE ready[id] # Absent
    BY <2>1, <2>3, PairPruned DEF complete
  <2>4. CASE ready[id] = Absent
    BY <1>0, <2>1, <2>2, <2>4, PairSettled DEF complete
  <2>5. QED
    BY <2>3, <2>4
<1>4. ASSUME NEW id \in Ids, NEW payload \in Payloads, NEW policy \in Policies,
             NEW bound \in Bounds, NEW recovery \in Settlements, NEW now \in Times,
             Fresh(id), ReserveWithQuotaRecovery(id, payload, policy, bound, recovery, now)
      PROVE  SettledFacts!Next
  <2> DEFINE t == logicalLimitTime(now)
             entry == [id |-> id, at |-> t, month |-> MonthStart(t, zone),
                       accounts |-> DOMAIN policy, bound |-> bound, state |-> "active",
                       actual |-> Unsettled, recovery |-> recovery, digest |-> Nil,
                       overrun |-> FALSE]
  <2>1. /\ pending[id] = Absent /\ ready[id] = Absent /\ Depth < Capacity
        /\ pending' = [pending EXCEPT ![id] = payload] /\ UNCHANGED ready
    BY <1>4 DEF ReserveWithQuotaRecovery, checkQuotaAdmission, checkLimitAdmission,
       applyLimitAdmission
  <2>2. receipts' = [PrunedReceipts(t) EXCEPT ![id] = entry] /\ version = 2
    BY <1>4 DEF ReserveWithQuotaRecovery
  <2>3. t \in Nat /\ zone \in Zones
    BY <2>2, ClockAdvances DEF LedgerInv, LedgerTypeOK, Inv, QueueTypeOK
  <2>4. entry \in Receipt /\ entry.state = "active" /\ entry.recovery = recovery
    BY <2>3, NewReceipt
  <2> HIDE DEF t, entry
  <2>5. receipts'[id] = entry /\ \A i \in Ids : i # id =>
          receipts'[i] = receipts[i] \/ (pending[i] = Absent /\ ready[i] = Absent)
    BY <2>2, PruneFacts
  <2>6. Evidence(id)' = recovery
    BY <1>0, <2>4, <2>5 DEF Evidence
  <2>7. QED
    BY <2>1, <2>5, <2>6, PairAccepted
<1>5. ASSUME NEW id \in Ids, NEW payload \in Payloads, NEW interrupted \in Settlements,
             UpdatePendingQuota(id, payload, interrupted)
      PROVE  SettledFacts!Next
  <2>1. /\ pending[id] # Absent /\ ready[id] = Absent
        /\ receipts[id] # Absent /\ receipts[id].state = "active"
        /\ receipts' = [receipts EXCEPT ![id].recovery = interrupted]
        /\ pending' = [pending EXCEPT ![id] = payload] /\ UNCHANGED ready
    BY <1>5 DEF UpdatePendingQuota
  <2>2. receipts[id] \in Receipt /\ \A i \in Ids : i # id => receipts'[i] = receipts[i]
    BY <1>0, <2>1
  <2>3. receipts'[id] = [receipts[id] EXCEPT !.recovery = interrupted]
    BY <1>0, <2>1
  <2>4. receipts'[id] \in Receipt /\ receipts'[id].state = "active"
          /\ receipts'[id].recovery = interrupted
    BY <2>1, <2>2, <2>3 DEF Receipt
  <2>5. Evidence(id)' = interrupted
    BY <1>0, <2>4 DEF Evidence
  <2>6. QED
    BY <2>1, <2>2, <2>5, PairRevised
<1>6. ASSUME NEW id \in Ids, NEW payload \in Payloads, NEW actual \in Settlements,
             NEW now \in Times, CompleteQuota(id, payload, actual, now)
      PROVE  SettledFacts!Next
  <2> DEFINE old == receipts[id]
             entry == [old EXCEPT !.state = "complete", !.actual = actual, !.recovery = Unsettled,
                                  !.digest = quotaSettlementDigest(actual, payload),
                                  !.overrun = Overruns(old.bound, actual)]
  <2>1. /\ old # Absent /\ old.state = "active" /\ complete(id, payload)
        /\ receipts' = [receipts EXCEPT ![id] = entry]
    BY <1>6 DEF CompleteQuota
  <2>2. old \in Receipt /\ ReceiptValid(id)
    BY <1>0, <2>1 DEF LedgerInv, Stored
  <2>3. /\ pending[id] # Absent /\ ready[id] = Absent
        /\ pending' = [pending EXCEPT ![id] = Absent] /\ ready' = [ready EXCEPT ![id] = payload]
    BY <2>1, <2>2 DEF ReceiptValid, complete
  <2>4. Overruns(old.bound, actual) \in BOOLEAN
    BY DEF Overruns
  <2>5. entry \in Receipt /\ entry.state = "complete" /\ entry.actual = actual
    BY <1>0, <2>2, <2>4 DEF Receipt, quotaSettlementDigest
  <2>6. receipts'[id] = entry /\ \A i \in Ids : i # id => receipts'[i] = receipts[i]
    BY <1>0, <2>1
  <2> HIDE DEF entry
  <2>7. Evidence(id)' = actual
    BY <1>0, <2>5, <2>6 DEF Evidence
  <2>8. QED
    BY <2>3, <2>6, <2>7, PairSettled
<1>7. ASSUME NEW id \in Ids, Ack(id), UNCHANGED quotaVars
      PROVE  SettledFacts!Next \/ PairImage' = PairImage
  BY <1>7, PairAcknowledged DEF quotaVars
<1>8. ASSUME NEW now \in Times,
             \/ AccountUsage(now) /\ UNCHANGED quotaVars
             \/ AccountQuotaUsage(now)
             \/ \E id \in Ids, policy \in Policies, bound \in Bounds, z \in Zones :
                  PreflightWithQuota(id, policy, bound, z, now)
             \/ \E z \in Zones : EnableQuota(z, now)
      PROVE  PairImage' = PairImage
  <2>1. UNCHANGED <<pending, ready>>
    BY <1>8 DEF AccountUsage, AccountQuotaUsage, PreflightWithQuota, EnableQuota
  <2>2. UNCHANGED receipts \/ \E instant : receipts' = PrunedReceipts(instant)
    BY <1>8 DEF AccountQuotaUsage, PreflightWithQuota, EnableQuota, pruneQuota, quotaVars, ledger
  <2>3. QED
    BY <2>1, <2>2, PairPruned
<1>9. CASE OpenLedger
  BY <1>9, PairInterrupted
<1>10. CASE UNCHANGED vars
  BY <1>10, PairPruned DEF vars
<1>11. CASE Next
  BY <1>1, <1>2, <1>3, <1>4, <1>5, <1>6, <1>7, <1>8, <1>9, <1>11 DEF Next
<1>12. QED
  BY <1>10, <1>11

\* The settlement that is charged for a call and the fact that is delivered for it
\* are drafted, revised, made final and interrupted together.
THEOREM LedgerImplementsFacts == Spec => ImplementsSettledFacts
<1>1. Init => SettledFacts!Init
  BY DEF Init, QueueInit, SettledFacts!Init, SettledFacts!NoFact
<1>2. LedgerInv /\ [Next]_vars =>
        [SettledFacts!Next]_([id \in Ids |->
           IF ready[id] # Absent THEN [kind |-> "final", payload |-> <<ready[id], Evidence(id)>>]
           ELSE IF pending[id] # Absent
                THEN [kind |-> "draft", payload |-> <<pending[id], Evidence(id)>>]
           ELSE [kind |-> "none"]])
  BY PairStep DEF PairImage
<1>3. QED
  BY LedgerInvariance, <1>1, <1>2, PTL DEF Spec, ImplementsSettledFacts, SettledFacts!Spec

-----------------------------------------------------------------------------
(* No usage leaves the ledger before its time.                             *)

\* Every expiry key stands for a window of a settled receipt that is stored.
KeysStand ==
  \A k \in expiry :
    /\ k.id \in Stored(receipts)
    /\ receipts[k.id].state # "active"
    /\ \E w \in Windows : k.at = WindowEnd(w, receipts[k.id])

\* The history holds the stored receipts, and what has left the store was settled
\* and had left its last window.
ArchiveFollows ==
  /\ \A id \in Stored(receipts) : archive[id] = receipts[id]
  /\ \A id \in Stored(archive) : receipts[id] = Absent =>
       archive[id].state # "active" /\ LatestEnd(archive[id]) <= clock

ExpiryInv == KeysStand /\ ArchiveFollows /\ UsageKept

\* No window of a receipt ends after its latest end.
LEMMA WindowEnds ==
  ASSUME NEW r \in Receipt
  PROVE  /\ LatestEnd(r) \in Int
         /\ \A w \in Windows : WindowEnd(w, r) \in Int /\ WindowEnd(w, r) <= LatestEnd(r)
<1> DEFINE S == {WindowEnd(w, r) : w \in Windows}
<1>1. r.at \in Int /\ r.month \in Int
  BY DEF Receipt
<1>2. \A w \in Windows : WindowEnd(w, r) \in Int
  <2>1. MonthLength \in Int /\ \A w \in Rolling : Length[w] \in Int
    BY LedgerAssumption
  <2>2. QED
    BY <1>1, <2>1 DEF Windows, WindowEnd
<1>3. \E x \in S : \A y \in S : x >= y
  <2> DEFINE four == {"minute", "five_hours", "seven_days", "month"}
  <2>1. Windows \subseteq four /\ "month" \in Windows
    BY LedgerAssumption DEF Windows
  <2>2. ASSUME NEW V \in SUBSET four, V # {}, NEW f, \A w \in V : f[w] \in Int
        PROVE  \E x \in V : \A y \in V : f[x] >= f[y]
    <3>1. ASSUME NEW a, NEW T, NEW x \in T, \A y \in T : f[x] >= f[y], f[a] \in Int,
                 \A y \in T : f[y] \in Int
          PROVE  \E z \in T \cup {a} : \A y \in T \cup {a} : f[z] >= f[y]
      <4>1. CASE f[x] >= f[a]
        BY <3>1, <4>1
      <4>2. CASE ~(f[x] >= f[a])
        BY <3>1, <4>2
      <4>3. QED
        BY <4>1, <4>2
    <3>2. ASSUME NEW a, NEW T \in SUBSET V, a \in V,
                 T = {} \/ \E x \in T : \A y \in T : f[x] >= f[y]
          PROVE  \E x \in T \cup {a} : \A y \in T \cup {a} : f[x] >= f[y]
      <4>1. CASE T = {}
        BY <2>2, <3>2, <4>1
      <4>2. CASE T # {}
        <5>1. PICK x \in T : \A y \in T : f[x] >= f[y]
          BY <3>2, <4>2
        <5>2. f[a] \in Int /\ \A y \in T : f[y] \in Int
          BY <2>2, <3>2
        <5>3. QED
          BY <3>1, <5>1, <5>2
      <4>3. QED
        BY <4>1, <4>2
    <3> DEFINE V1 == V \cap {"minute"}
               V2 == V \cap {"minute", "five_hours"}
               V3 == V \cap {"minute", "five_hours", "seven_days"}
               Top(T) == T = {} \/ \E x \in T : \A y \in T : f[x] >= f[y]
    <3>3. ASSUME NEW a, NEW T \in SUBSET V, NEW U, Top(T), U = T \/ (a \in V /\ U = T \cup {a})
          PROVE  Top(U)
      BY <3>2, <3>3
    <3>4. /\ V1 = {} \/ ("minute" \in V /\ V1 = {} \cup {"minute"})
          /\ V2 = V1 \/ ("five_hours" \in V /\ V2 = V1 \cup {"five_hours"})
          /\ V3 = V2 \/ ("seven_days" \in V /\ V3 = V2 \cup {"seven_days"})
          /\ V = V3 \/ ("month" \in V /\ V = V3 \cup {"month"})
      BY <2>2
    <3>5. {} \in SUBSET V /\ V1 \in SUBSET V /\ V2 \in SUBSET V /\ V3 \in SUBSET V /\ Top({})
      OBVIOUS
    <3> HIDE DEF V1, V2, V3, Top
    <3>6. Top(V1)
      BY <3>3, <3>4, <3>5
    <3>7. Top(V2)
      BY <3>3, <3>4, <3>5, <3>6
    <3>8. Top(V3)
      BY <3>3, <3>4, <3>5, <3>7
    <3>9. Top(V)
      BY <3>3, <3>4, <3>5, <3>8
    <3>10. QED
      BY <2>2, <3>9 DEF Top
  <2>3. PICK x \in Windows : \A y \in Windows : WindowEnd(x, r) >= WindowEnd(y, r)
    <3> DEFINE f == [w \in Windows |-> WindowEnd(w, r)]
    <3>1. \A w \in Windows : f[w] \in Int /\ f[w] = WindowEnd(w, r)
      BY <1>2
    <3> HIDE DEF f
    <3>2. \E x \in Windows : \A y \in Windows : f[x] >= f[y]
      BY <2>1, <2>2, <3>1
    <3>3. QED
      BY <3>1, <3>2
  <2>4. QED
    BY <2>3
<1>4. LatestEnd(r) \in S /\ \A y \in S : LatestEnd(r) >= y
  BY <1>3 DEF LatestEnd, Max
<1>5. QED
  BY <1>2, <1>4

\* The keys of a receipt, as the clock advances.
LEMMA KeysOverTime ==
  ASSUME NEW r \in Receipt, NEW t \in Int, NEW u \in Int, t <= u
  PROVE  /\ ExpiryKeys(r, u) = {k \in ExpiryKeys(r, t) : k.at > u}
         /\ \A k \in ExpiryKeys(r, t) : /\ k.id = r.id /\ k.at \in Int /\ k.at > t
                                        /\ \E w \in Windows : k.at = WindowEnd(w, r)
         /\ LatestEnd(r) <= t => ExpiryKeys(r, t) = {}
<1>1. \A w \in Windows : WindowEnd(w, r) \in Int /\ WindowEnd(w, r) <= LatestEnd(r)
  BY WindowEnds
<1>2. LatestEnd(r) \in Int
  BY WindowEnds
<1>3. ASSUME NEW k \in ExpiryKeys(r, t)
      PROVE  /\ k.id = r.id /\ k.at \in Int /\ k.at > t
             /\ \E w \in Windows : k.at = WindowEnd(w, r)
  BY <1>1 DEF ExpiryKeys
<1>4. LatestEnd(r) <= t => ExpiryKeys(r, t) = {}
  BY <1>1, <1>2, <1>3
<1>5. ExpiryKeys(r, u) = {k \in ExpiryKeys(r, t) : k.at > u}
  <2> DEFINE key(a, w) == [at |-> WindowEnd(w, r), account |-> a, window |-> Key(w, r.month), id |-> r.id]
  <2>1. \A a, w : key(a, w).at = WindowEnd(w, r)
    OBVIOUS
  <2>2. \A k : k \in ExpiryKeys(r, u) <=>
          \E a \in r.accounts, w \in Windows : WindowEnd(w, r) > u /\ k = key(a, w)
    BY DEF ExpiryKeys
  <2>3. \A k : k \in ExpiryKeys(r, t) <=>
          \E a \in r.accounts, w \in Windows : WindowEnd(w, r) > t /\ k = key(a, w)
    BY DEF ExpiryKeys
  <2> HIDE DEF key
  <2>4. \A w \in Windows : WindowEnd(w, r) > u => WindowEnd(w, r) > t
    BY <1>1
  <2>5. ASSUME NEW k \in ExpiryKeys(r, u) PROVE k \in ExpiryKeys(r, t) /\ k.at > u
    BY <2>1, <2>2, <2>3, <2>4
  <2>6. ASSUME NEW k \in ExpiryKeys(r, t), k.at > u PROVE k \in ExpiryKeys(r, u)
    BY <2>1, <2>2, <2>3, <2>6
  <2>7. QED
    BY <2>5, <2>6
<1>6. QED
  BY <1>3, <1>4, <1>5

\* The types that the steps below need.
LEMMA LedgerTypes ==
  ASSUME LedgerInv
  PROVE  /\ clock \in Nat
         /\ receipts \in [Ids -> Receipt \cup {Absent}] /\ Absent \notin Receipt
         /\ \A id \in Stored(receipts) : /\ id \in Ids /\ receipts[id] \in Receipt
                                         /\ receipts[id].id = id /\ ReceiptValid(id)
         /\ \A id \in Stored(archive) : id \in Ids /\ archive[id] \in Receipt
BY LedgerAssumption DEF LedgerInv, LedgerTypeOK, Inv, QueueTypeOK, Stored, KeysMatch

\* What pruning takes out has left its last window, and every key that stays has
\* its receipt.
LEMMA PrunedExpiry ==
  ASSUME LedgerInv, ExpiryInv, NEW t \in Nat, clock <= t
  PROVE  /\ \A k \in expiry \ Due(t) :
              k.id \in Stored(receipts) /\ PrunedReceipts(t)[k.id] = receipts[k.id]
         /\ \A id \in Stored(archive) : archive[id].state # "active" =>
              ExpiryKeys(archive[id], t) \subseteq expiry \ Due(t)
         /\ \A id \in Stored(receipts) : PrunedReceipts(t)[id] = Absent =>
              receipts[id].state # "active" /\ LatestEnd(receipts[id]) <= t
<1>1. ASSUME NEW id \in Stored(receipts), PrunedReceipts(t)[id] # receipts[id]
      PROVE  /\ receipts[id].state # "active" /\ LatestEnd(receipts[id]) <= t
  <2>1. PICK k \in Retirable(t) : k.id = id
    BY <1>1, LedgerTypes DEF PrunedReceipts
  <2>2. k \in retire /\ k.at <= t /\ pending[id] = Absent
    BY <2>1 DEF Retirable
  <2>3. k = RetireKey(receipts[id])
    BY <2>1, <2>2 DEF LedgerInv, KeysMatch
  <2>4. k.at = LatestEnd(receipts[id])
    BY <2>3 DEF RetireKey
  <2>5. receipts[id].state # "active"
    BY <2>2, LedgerTypes DEF ReceiptValid
  <2>6. QED
    BY <2>2, <2>4, <2>5
<1>2. ASSUME NEW k \in expiry \ Due(t)
      PROVE  k.id \in Stored(receipts) /\ PrunedReceipts(t)[k.id] = receipts[k.id]
  <2>1. k.id \in Stored(receipts) /\ receipts[k.id] \in Receipt
    BY LedgerTypes DEF ExpiryInv, KeysStand
  <2>2. PICK w \in Windows : k.at = WindowEnd(w, receipts[k.id])
    BY DEF ExpiryInv, KeysStand
  <2>3. k.at \in Int /\ k.at <= LatestEnd(receipts[k.id]) /\ LatestEnd(receipts[k.id]) \in Int
    BY <2>1, <2>2, WindowEnds
  <2>4. k.at > t
    BY <2>3 DEF Due
  <2>5. QED
    BY <1>1, <2>1, <2>3, <2>4
<1>3. ASSUME NEW id \in Stored(archive), archive[id].state # "active"
      PROVE  ExpiryKeys(archive[id], t) \subseteq expiry \ Due(t)
  <2>1. archive[id] \in Receipt /\ clock \in Int
    BY LedgerTypes
  <2>2. ExpiryKeys(archive[id], t) = {k \in ExpiryKeys(archive[id], clock) : k.at > t}
    BY <2>1, KeysOverTime
  <2>3. \A k \in ExpiryKeys(archive[id], clock) : k.at \in Int
    BY <2>1, KeysOverTime
  <2>4. ExpiryKeys(archive[id], clock) \subseteq expiry
    BY <1>3 DEF ExpiryInv, UsageKept
  <2>5. QED
    BY <2>2, <2>3, <2>4 DEF Due
<1>4. \A id \in Stored(receipts) : receipts[id] # Absent
  BY DEF Stored
<1>5. QED
  BY <1>1, <1>2, <1>3, <1>4

\* The receipts and their keys stay, or are pruned; the clock may advance.
LEMMA ExpiryKept ==
  ASSUME LedgerInv, LedgerInv', ExpiryInv, clock <= clock', UNCHANGED archive,
         \/ UNCHANGED <<receipts, expiry>>
         \/ receipts' = PrunedReceipts(clock') /\ expiry' = expiry \ Due(clock')
  PROVE  ExpiryInv'
<1>0. clock \in Nat /\ clock' \in Nat /\ clock <= clock
  BY LedgerTypes DEF LedgerInv, Inv, QueueTypeOK
<1>1. \A k \in expiry' : k \in expiry /\ receipts'[k.id] = receipts[k.id]
  BY <1>0, PrunedExpiry
<1>2. \A id \in Stored(archive) : archive[id].state # "active" =>
        ExpiryKeys(archive[id], clock') \subseteq expiry'
  <2>1. CASE UNCHANGED <<receipts, expiry>>
    <3>1. ASSUME NEW id \in Stored(archive), archive[id].state # "active"
          PROVE  ExpiryKeys(archive[id], clock') \subseteq expiry
      <4>1. ExpiryKeys(archive[id], clock') \subseteq ExpiryKeys(archive[id], clock)
        BY <1>0, LedgerTypes, KeysOverTime
      <4>2. QED
        BY <3>1, <4>1 DEF ExpiryInv, UsageKept
    <3>2. QED
      BY <2>1, <3>1
  <2>2. CASE receipts' = PrunedReceipts(clock') /\ expiry' = expiry \ Due(clock')
    BY <1>0, <2>2, PrunedExpiry
  <2>3. QED
    BY <2>1, <2>2
<1>3. /\ \A id \in Ids : receipts'[id] = receipts[id] \/ receipts'[id] = Absent
      /\ Stored(receipts)' \subseteq Stored(receipts) /\ Stored(archive)' = Stored(archive)
      /\ \A id \in Stored(receipts)' : receipts'[id] = receipts[id]
  <2>1. \A id \in Ids : receipts'[id] = receipts[id] \/ receipts'[id] = Absent
    BY PruneFacts
  <2>2. QED
    BY <2>1 DEF Stored
<1>4. KeysStand'
  <2>1. ASSUME NEW k \in expiry'
        PROVE  /\ k.id \in Stored(receipts)' /\ receipts'[k.id].state # "active"
               /\ \E w \in Windows : k.at = WindowEnd(w, receipts'[k.id])
    <3>1. k.id \in Stored(receipts) /\ receipts[k.id].state # "active"
            /\ \E w \in Windows : k.at = WindowEnd(w, receipts[k.id])
      BY <1>1 DEF ExpiryInv, KeysStand
    <3>2. k.id \in Stored(receipts)'
      BY <1>1, <3>1 DEF Stored
    <3>3. QED
      BY <1>1, <3>1, <3>2
  <2>2. QED
    BY <2>1 DEF KeysStand, WindowEnd
<1>5. ArchiveFollows'
  <2>1. ASSUME NEW id \in Stored(archive), receipts'[id] = Absent
        PROVE  archive[id].state # "active" /\ LatestEnd(archive[id]) <= clock'
    <3>1. CASE receipts[id] = Absent
      <4>1. archive[id].state # "active" /\ LatestEnd(archive[id]) <= clock
        BY <2>1, <3>1 DEF ExpiryInv, ArchiveFollows
      <4>2. LatestEnd(archive[id]) \in Int
        BY LedgerTypes, WindowEnds
      <4>3. QED
        BY <1>0, <4>1, <4>2
    <3>2. CASE receipts[id] # Absent
      <4>1. id \in Stored(receipts) /\ archive[id] = receipts[id]
        BY <3>2 DEF ExpiryInv, ArchiveFollows, Stored
      <4>2. receipts' = PrunedReceipts(clock')
        BY <2>1, <3>2
      <4>3. QED
        BY <1>0, <2>1, <4>1, <4>2, PrunedExpiry
    <3>3. QED
      BY <3>1, <3>2
  <2>2. \A id \in Stored(receipts)' : archive'[id] = receipts'[id]
    BY <1>3 DEF ExpiryInv, ArchiveFollows
  <2>3. \A id \in Stored(archive)' : receipts'[id] = Absent =>
          archive'[id].state # "active" /\ LatestEnd(archive'[id]) <= clock'
    BY <1>3, <2>1
  <2>4. QED
    BY <2>2, <2>3 DEF ArchiveFollows, LatestEnd, WindowEnd
<1>6. UsageKept'
  <2>1. \A id \in Stored(archive)' : archive'[id].state # "active" =>
          ExpiryKeys(archive'[id], clock') \subseteq expiry'
    BY <1>2, <1>3
  <2>2. QED
    BY <2>1 DEF UsageKept, ExpiryKeys, WindowEnd, Key
<1>7. QED
  BY <1>4, <1>5, <1>6 DEF ExpiryInv

\* One receipt that was absent or active is stored, after a pruning or none; if it
\* is settled its keys are added.
LEMMA ExpiryStored ==
  ASSUME LedgerInv, LedgerInv', ExpiryInv, clock <= clock',
         NEW id \in Ids, NEW entry \in Receipt, entry.id = id,
         receipts[id] = Absent \/ receipts[id].state = "active",
         NEW R, NEW E,
         \/ R = receipts /\ E = expiry
         \/ R = PrunedReceipts(clock') /\ E = expiry \ Due(clock'),
         receipts' = [R EXCEPT ![id] = entry], Archive,
         expiry' = E \cup (IF entry.state = "active" THEN {} ELSE ExpiryKeys(entry, clock'))
  PROVE  ExpiryInv'
<1>0. clock \in Nat /\ clock' \in Nat /\ Absent \notin Receipt
  BY LedgerTypes DEF LedgerInv, Inv, QueueTypeOK
<1>1. /\ R \in [Ids -> Receipt \cup {Absent}]
      /\ \A i \in Ids : R[i] = receipts[i] \/ R[i] = Absent
      /\ \A k \in E : k \in expiry /\ R[k.id] = receipts[k.id]
      /\ \A i \in Stored(receipts) : R[i] = Absent =>
           receipts[i].state # "active" /\ LatestEnd(receipts[i]) <= clock'
      /\ \A i \in Stored(archive) : archive[i].state # "active" =>
           ExpiryKeys(archive[i], clock') \subseteq E
  <2>1. CASE R = receipts /\ E = expiry
    <3>1. ASSUME NEW i \in Stored(archive), archive[i].state # "active"
          PROVE  ExpiryKeys(archive[i], clock') \subseteq expiry
      <4>1. ExpiryKeys(archive[i], clock') \subseteq ExpiryKeys(archive[i], clock)
        BY <1>0, LedgerTypes, KeysOverTime
      <4>2. QED
        BY <3>1, <4>1 DEF ExpiryInv, UsageKept
    <3>2. \A i \in Stored(receipts) : receipts[i] # Absent
      BY DEF Stored
    <3>3. QED
      BY <2>1, <3>1, <3>2, LedgerTypes
  <2>2. CASE R = PrunedReceipts(clock') /\ E = expiry \ Due(clock')
    BY <1>0, <2>2, PrunedExpiry, PruneFacts
  <2>3. QED
    BY <2>1, <2>2
<1>2. receipts'[id] = entry /\ \A i \in Ids : i # id => receipts'[i] = R[i]
  BY <1>1
<1>3. entry # Absent
  BY <1>0
<1>4. archive'[id] = entry
        /\ \A i \in Ids : i # id => archive'[i] = IF R[i] # Absent THEN R[i] ELSE archive[i]
  BY <1>2, <1>3 DEF Archive
<1>5. ASSUME NEW i \in Ids, i # id
      PROVE  archive'[i] = archive[i]
  <2>1. CASE R[i] = Absent
    BY <1>4, <1>5, <2>1
  <2>2. CASE R[i] # Absent
    <3>1. R[i] = receipts[i] /\ i \in Stored(receipts)
      BY <1>1, <2>2 DEF Stored
    <3>2. QED
      BY <1>4, <1>5, <2>2, <3>1 DEF ExpiryInv, ArchiveFollows
  <2>3. QED
    BY <2>1, <2>2
<1>6. \A k \in E : k.id \in Stored(receipts) /\ k.id # id /\ k.id \in Ids
  <2>1. ASSUME NEW k \in E PROVE k.id \in Stored(receipts) /\ k.id # id
    <3>1. k.id \in Stored(receipts) /\ receipts[k.id].state # "active"
      BY <1>1 DEF ExpiryInv, KeysStand
    <3>2. receipts[k.id] # Absent
      BY <3>1 DEF Stored
    <3>3. QED
      BY <3>1, <3>2
  <2>2. QED
    BY <2>1 DEF Stored
<1>7. KeysStand'
  <2>1. ASSUME NEW k \in expiry'
        PROVE  /\ k.id \in Stored(receipts)' /\ receipts'[k.id].state # "active"
               /\ \E w \in Windows : k.at = WindowEnd(w, receipts'[k.id])
    <3>1. CASE k \in E
      <4>1. receipts'[k.id] = receipts[k.id] /\ k.id \in Stored(receipts)
        BY <1>1, <1>2, <1>6, <3>1
      <4>2. k.id \in Stored(receipts)'
        BY <4>1 DEF Stored
      <4>3. QED
        BY <1>1, <3>1, <4>1, <4>2 DEF ExpiryInv, KeysStand
    <3>2. CASE entry.state # "active" /\ k \in ExpiryKeys(entry, clock')
      <4>1. k.id = id /\ \E w \in Windows : k.at = WindowEnd(w, entry)
        BY <1>0, <3>2, KeysOverTime
      <4>2. id \in Stored(receipts)'
        BY <1>2, <1>3 DEF Stored
      <4>3. QED
        BY <1>2, <3>2, <4>1, <4>2
    <3>3. QED
      BY <3>1, <3>2
  <2>2. QED
    BY <2>1 DEF KeysStand, WindowEnd
<1>8. ArchiveFollows'
  <2>1. ASSUME NEW i \in Stored(receipts)' PROVE archive'[i] = receipts'[i]
    BY DEF Archive, Stored
  <2>2. ASSUME NEW i \in Stored(archive)', receipts'[i] = Absent
        PROVE  archive'[i].state # "active" /\ LatestEnd(archive'[i]) <= clock'
    <3>1. i \in Ids /\ i # id /\ archive'[i] # Absent
      BY <1>2, <1>3, <2>2 DEF Stored
    <3>2. R[i] = Absent /\ archive'[i] = archive[i] /\ i \in Stored(archive)
      BY <1>2, <1>5, <2>2, <3>1 DEF Stored
    <3>3. CASE receipts[i] = Absent
      <4>1. archive[i].state # "active" /\ LatestEnd(archive[i]) <= clock
        BY <3>2, <3>3 DEF ExpiryInv, ArchiveFollows
      <4>2. LatestEnd(archive[i]) \in Int
        BY <3>2, LedgerTypes, WindowEnds
      <4>3. QED
        BY <1>0, <3>2, <4>1, <4>2
    <3>4. CASE receipts[i] # Absent
      <4>1. i \in Stored(receipts) /\ archive[i] = receipts[i]
        BY <3>1, <3>4 DEF ExpiryInv, ArchiveFollows, Stored
      <4>2. QED
        BY <1>1, <3>2, <4>1
    <3>5. QED
      BY <3>3, <3>4
  <2>3. QED
    BY <2>1, <2>2 DEF ArchiveFollows, LatestEnd, WindowEnd
<1>9. UsageKept'
  <2>1. ASSUME NEW i \in Stored(archive)', archive'[i].state # "active"
        PROVE  ExpiryKeys(archive'[i], clock') \subseteq expiry'
    <3>1. CASE i = id
      BY <1>4, <2>1, <3>1
    <3>2. CASE i # id
      <4>1. i \in Ids /\ archive'[i] = archive[i] /\ i \in Stored(archive)
        BY <1>5, <3>2 DEF Stored
      <4>2. QED
        BY <1>1, <2>1, <4>1
    <3>3. QED
      BY <3>1, <3>2
  <2>2. QED
    BY <2>1 DEF UsageKept, ExpiryKeys, WindowEnd, Key
<1>10. QED
  BY <1>7, <1>8, <1>9 DEF ExpiryInv

\* Open rebuilds the keys from the receipts it keeps.
LEMMA ExpiryRebuilt ==
  ASSUME LedgerInv, LedgerInv', ExpiryInv, OpenLedger
  PROVE  ExpiryInv'
<1> DEFINE held == Stored(receipts)
           gone == {id \in held : /\ LatestEnd(receipts[id]) <= clock
                                  /\ ready[id] = Absent /\ pending[id] = Absent}
<1>0. /\ expiry' = UNION {ExpiryKeys(Recovered[id], clock) : id \in held}
      /\ receipts' = [id \in Ids |-> IF id \in gone THEN Absent ELSE Recovered[id]]
      /\ Archive
      /\ UNCHANGED clock
  BY DEF OpenLedger, recoverQuota, initLimits
<1>1. clock \in Nat /\ Absent \notin Receipt /\ clock \in Int /\ clock <= clock
  BY LedgerTypes
<1>2. ASSUME NEW id \in held
      PROVE  /\ id \in Ids /\ Recovered[id] \in Receipt
             /\ Recovered[id].id = id /\ Recovered[id].at = receipts[id].at
             /\ Recovered[id].month = receipts[id].month /\ Recovered[id].state # "active"
             /\ receipts[id].state # "active" => Recovered[id] = receipts[id]
  BY RecoveredReceipt, LedgerTypes
<1>3. ASSUME NEW id \in held
      PROVE  LatestEnd(Recovered[id]) = LatestEnd(receipts[id])
  <2>1. \A w \in Windows : WindowEnd(w, Recovered[id]) = WindowEnd(w, receipts[id])
    BY <1>2 DEF WindowEnd
  <2>2. QED
    BY <2>1 DEF LatestEnd
<1>4. \A id \in Ids \ held : Recovered[id] = Absent
  BY DEF Recovered, Stored
<1>5. ASSUME NEW id \in gone
      PROVE  /\ id \in held /\ receipts[id].state # "active" /\ LatestEnd(receipts[id]) <= clock
             /\ archive[id] = receipts[id]
  BY LedgerTypes DEF ReceiptValid, ExpiryInv, ArchiveFollows
<1> HIDE DEF held, gone
<1>6. /\ \A id \in held \ gone : receipts'[id] = Recovered[id] /\ receipts'[id] # Absent
      /\ \A id \in Ids : id \notin held \ gone => receipts'[id] = Absent
  BY <1>0, <1>1, <1>2, <1>4
<1>7. KeysStand'
  <2>1. ASSUME NEW k \in expiry'
        PROVE  /\ k.id \in Stored(receipts)' /\ receipts'[k.id].state # "active"
               /\ \E w \in Windows : k.at = WindowEnd(w, receipts'[k.id])
    <3>1. PICK id \in held : k \in ExpiryKeys(Recovered[id], clock)
      BY <1>0
    <3>2. /\ k.id = id /\ k.at > clock /\ k.at \in Int
          /\ \E w \in Windows : k.at = WindowEnd(w, Recovered[id])
      BY <1>1, <1>2, <3>1, KeysOverTime
    <3>3. k.at <= LatestEnd(receipts[id]) /\ LatestEnd(receipts[id]) \in Int
      BY <1>2, <1>3, <3>2, WindowEnds
    <3>4. id \notin gone
      BY <1>1, <1>5, <3>2, <3>3
    <3>5. receipts'[id] = Recovered[id] /\ id \in Stored(receipts)'
      BY <1>2, <1>6, <3>1, <3>4 DEF Stored
    <3>6. QED
      BY <1>2, <3>1, <3>2, <3>5
  <2>2. QED
    BY <2>1 DEF KeysStand, WindowEnd
<1>8. ArchiveFollows'
  <2>1. ASSUME NEW i \in Stored(receipts)' PROVE archive'[i] = receipts'[i]
    BY <1>0 DEF Archive, Stored
  <2>2. ASSUME NEW i \in Stored(archive)', receipts'[i] = Absent
        PROVE  archive'[i].state # "active" /\ LatestEnd(archive'[i]) <= clock'
    <3>1. i \in Ids /\ archive'[i] = archive[i] /\ i \in Stored(archive)
      BY <1>0, <2>2 DEF Archive, Stored
    <3>2. CASE i \in held
      <4>1. i \in gone
        BY <1>6, <2>2, <3>2
      <4>2. QED
        BY <1>0, <1>5, <3>1, <4>1
    <3>3. CASE i \notin held
      <4>1. receipts[i] = Absent
        BY <3>1, <3>3 DEF held, Stored
      <4>2. QED
        BY <1>0, <3>1, <4>1 DEF ExpiryInv, ArchiveFollows
    <3>4. QED
      BY <3>2, <3>3
  <2>3. QED
    BY <2>1, <2>2 DEF ArchiveFollows, LatestEnd, WindowEnd
<1>9. UsageKept'
  <2>1. ASSUME NEW i \in Stored(archive)', archive'[i].state # "active"
        PROVE  ExpiryKeys(archive'[i], clock') \subseteq expiry'
    <3>1. CASE receipts'[i] # Absent
      <4>1. i \in held \ gone /\ archive'[i] = Recovered[i]
        BY <1>0, <1>6, <3>1 DEF Archive, Stored
      <4>2. QED
        BY <1>0, <4>1
    <3>2. CASE receipts'[i] = Absent
      <4>1. LatestEnd(archive'[i]) <= clock /\ archive'[i] = archive[i] /\ i \in Stored(archive)
        BY <1>0, <1>8, <3>2 DEF ArchiveFollows, LatestEnd, WindowEnd, Archive, Stored
      <4>2. archive[i] \in Receipt
        BY <4>1, LedgerTypes
      <4>3. ExpiryKeys(archive[i], clock) = {}
        BY <1>1, <4>1, <4>2, KeysOverTime
      <4>4. QED
        BY <1>0, <4>1, <4>3
    <3>3. QED
      BY <3>1, <3>2
  <2>2. QED
    BY <2>1 DEF UsageKept, ExpiryKeys, WindowEnd, Key
<1>10. QED
  BY <1>7, <1>8, <1>9 DEF ExpiryInv

LEMMA ExpiryNext ==
  ASSUME LedgerInv, LedgerInv', ExpiryInv, [Next]_vars
  PROVE  ExpiryInv'
<1>0. clock \in Nat /\ clock <= clock /\ \A now \in Times : clock <= logicalLimitTime(now)
  BY LedgerTypes, ClockAdvances
<1>1. ASSUME UNCHANGED quotaVars, clock <= clock' PROVE ExpiryInv'
  BY <1>1, ExpiryKept DEF quotaVars
<1>2. ASSUME NEW id \in Ids, NEW payload \in Payloads,
             \/ LegacyReserve(id, payload)
             \/ \E policy \in Policies, now \in Times : LegacyReserveWithLimits(id, payload, policy, now)
             \/ LegacyUpdatePending(id, payload)
             \/ LegacyComplete(id, payload)
      PROVE  ExpiryInv'
  <2>1. UNCHANGED quotaVars
    BY <1>2 DEF LegacyReserve, LegacyReserveWithLimits, LegacyUpdatePending, LegacyComplete
  <2>2. clock' = clock \/ \E now \in Times : clock' = logicalLimitTime(now)
    BY <1>2 DEF LegacyReserve, LegacyReserveWithLimits, LegacyUpdatePending, LegacyComplete,
       Reserve, ReserveWithLimits, applyLimitAdmission, UpdatePending, Complete, limits
  <2>3. QED
    BY <1>0, <1>1, <2>1, <2>2
<1>3. ASSUME NEW id \in Ids, Ack(id), UNCHANGED quotaVars PROVE ExpiryInv'
  BY <1>0, <1>1, <1>3 DEF Ack, limits
<1>4. ASSUME NEW now \in Times,
             \/ AccountUsage(now) /\ UNCHANGED quotaVars
             \/ AccountQuotaUsage(now)
             \/ \E id \in Ids, policy \in Policies, bound \in Bounds, z \in Zones :
                  PreflightWithQuota(id, policy, bound, z, now)
             \/ \E z \in Zones : EnableQuota(z, now)
      PROVE  ExpiryInv'
  <2>1. clock' = logicalLimitTime(now) /\ UNCHANGED archive
    BY <1>4 DEF AccountUsage, AccountQuotaUsage, PreflightWithQuota, EnableQuota, quotaVars
  <2>2. \/ UNCHANGED <<receipts, expiry>>
        \/ /\ receipts' = PrunedReceipts(logicalLimitTime(now))
           /\ expiry' = expiry \ Due(logicalLimitTime(now))
    BY <1>4 DEF AccountQuotaUsage, PreflightWithQuota, EnableQuota, pruneQuota, quotaVars, ledger
  <2>3. clock <= clock'
    BY <1>0, <2>1
  <2>4. \/ UNCHANGED <<receipts, expiry>>
        \/ receipts' = PrunedReceipts(clock') /\ expiry' = expiry \ Due(clock')
    BY <2>1, <2>2
  <2>5. QED
    BY <2>1, <2>3, <2>4, ExpiryKept
<1>5. ASSUME NEW id \in Ids, NEW payload \in Payloads, NEW policy \in Policies,
             NEW bound \in Bounds, NEW recovery \in Settlements, NEW now \in Times,
             ReserveWithQuotaRecovery(id, payload, policy, bound, recovery, now)
      PROVE  ExpiryInv'
  <2> DEFINE t == logicalLimitTime(now)
             entry == [id |-> id, at |-> t, month |-> MonthStart(t, zone),
                       accounts |-> DOMAIN policy, bound |-> bound, state |-> "active",
                       actual |-> Unsettled, recovery |-> recovery, digest |-> Nil,
                       overrun |-> FALSE]
  <2>1. /\ version = 2 /\ receipts[id] = Absent /\ clock' = t /\ Archive
        /\ receipts' = [PrunedReceipts(t) EXCEPT ![id] = entry] /\ expiry' = expiry \ Due(t)
    BY <1>5 DEF ReserveWithQuotaRecovery, checkQuotaAdmission, applyLimitAdmission
  <2>2. t \in Nat /\ zone \in Zones
    BY <2>1, ClockAdvances DEF LedgerInv, LedgerTypeOK, Inv, QueueTypeOK
  <2>3. entry \in Receipt /\ entry.id = id /\ entry.state = "active"
    BY <2>2, NewReceipt
  <2>4. clock <= clock'
    BY <1>0, <2>1
  <2> HIDE DEF t, entry
  <2>5. PICK R, E : R = PrunedReceipts(clock') /\ E = expiry \ Due(clock')
    OBVIOUS
  <2>6. /\ receipts' = [R EXCEPT ![id] = entry]
        /\ expiry' = E \cup (IF entry.state = "active" THEN {} ELSE ExpiryKeys(entry, clock'))
    BY <2>1, <2>3, <2>5
  <2>7. QED
    BY <2>1, <2>3, <2>4, <2>5, <2>6, ExpiryStored
<1>6. ASSUME NEW id \in Ids, NEW payload \in Payloads, NEW s \in Settlements,
             UpdatePendingQuota(id, payload, s)
      PROVE  ExpiryInv'
  <2> DEFINE entry == [receipts[id] EXCEPT !.recovery = s]
  <2>1. /\ receipts[id] # Absent /\ receipts[id].state = "active"
        /\ receipts' = [receipts EXCEPT ![id] = entry] /\ Archive /\ UNCHANGED <<expiry, clock>>
    BY <1>6 DEF UpdatePendingQuota, limits
  <2>2. receipts[id] \in Receipt /\ receipts[id].id = id
    BY <2>1, LedgerTypes DEF Stored
  <2>3. entry \in Receipt /\ entry.id = id /\ entry.state = "active"
    BY <2>1, <2>2 DEF Receipt
  <2> HIDE DEF entry
  <2>4. /\ expiry' = expiry \cup (IF entry.state = "active" THEN {} ELSE ExpiryKeys(entry, clock'))
        /\ clock <= clock'
    BY <1>0, <2>1, <2>3
  <2>5. QED
    BY <2>1, <2>3, <2>4, ExpiryStored
<1>7. ASSUME NEW id \in Ids, NEW payload \in Payloads, NEW actual \in Settlements,
             NEW now \in Times, CompleteQuota(id, payload, actual, now)
      PROVE  ExpiryInv'
  <2> DEFINE t == logicalLimitTime(now)
             old == receipts[id]
             entry == [old EXCEPT !.state = "complete", !.actual = actual, !.recovery = Unsettled,
                                  !.digest = quotaSettlementDigest(actual, payload),
                                  !.overrun = Overruns(old.bound, actual)]
  <2>1. /\ old # Absent /\ old.state = "active" /\ clock' = t /\ Archive
        /\ receipts' = [receipts EXCEPT ![id] = entry] /\ expiry' = expiry \cup ExpiryKeys(entry, t)
    BY <1>7 DEF CompleteQuota
  <2>2. old \in Receipt /\ old.id = id
    BY <2>1, LedgerTypes DEF Stored
  <2>3. Overruns(old.bound, actual) \in BOOLEAN /\ Unsettled \in Settlements
    BY LedgerAssumption DEF Overruns
  <2>4. entry \in Receipt /\ entry.id = id /\ entry.state = "complete"
    BY <2>2, <2>3 DEF Receipt, quotaSettlementDigest
  <2> HIDE DEF entry
  <2>5. /\ expiry' = expiry \cup (IF entry.state = "active" THEN {} ELSE ExpiryKeys(entry, clock'))
        /\ clock <= clock'
    BY <1>0, <2>1, <2>4
  <2>6. QED
    BY <2>1, <2>4, <2>5, ExpiryStored
<1>8. CASE UNCHANGED vars
  BY <1>0, <1>1, <1>8 DEF vars, quotaVars
<1>9. CASE OpenLedger
  BY <1>9, ExpiryRebuilt
<1>10. CASE Next
  BY <1>2, <1>3, <1>4, <1>5, <1>6, <1>7, <1>9, <1>10 DEF Next
<1>11. QED
  BY <1>8, <1>10

LEMMA ExpiryInvariance == Spec => []ExpiryInv
<1>1. Init => ExpiryInv
  <2>1. Init => Stored(receipts) = {} /\ Stored(archive) = {} /\ expiry = {}
    BY DEF Init, Stored
  <2>2. QED
    BY <2>1 DEF ExpiryInv, KeysStand, ArchiveFollows, UsageKept
<1>2. LedgerInv /\ LedgerInv' /\ ExpiryInv /\ [Next]_vars => ExpiryInv'
  BY ExpiryNext
<1>3. QED
  BY <1>1, <1>2, LedgerInvariance, PTL DEF Spec

\* No settled call leaves a window before the window's end, whatever prunings,
\* acknowledgements and restarts come between (projectTerminalQuota, pruneQuota,
\* recoverQuota); and at any instant pruneQuota finds the receipt of every key that
\* is due before it retires that receipt, so no stale key stops every admission.
THEOREM UsageIsKept == Spec => [](UsageKept /\ \A instant \in Nat : KeysReadable(instant))
<1>1. ASSUME LedgerInv, ExpiryInv PROVE UsageKept /\ \A instant \in Nat : KeysReadable(instant)
  <2>1. ASSUME NEW instant \in Nat PROVE KeysReadable(instant)
    <3>1. ASSUME NEW k \in Due(instant) PROVE k.id \in Stored(receipts) /\ k \in expiry
      BY <1>1 DEF Due, ExpiryInv, KeysStand
    <3>2. ASSUME NEW k \in Due(instant), NEW r \in Retirable(instant), r.id = k.id
          PROVE  r.at >= k.at
      <4>1. receipts[k.id] \in Receipt
        BY <1>1, <3>1, LedgerTypes
      <4>2. r.at = LatestEnd(receipts[k.id])
        BY <1>1, <3>2 DEF Retirable, LedgerInv, KeysMatch, RetireKey
      <4>3. PICK w \in Windows : k.at = WindowEnd(w, receipts[k.id])
        BY <1>1, <3>1 DEF ExpiryInv, KeysStand
      <4>4. QED
        BY <4>1, <4>2, <4>3, WindowEnds
    <3>3. \A k \in Retirable(instant) : k.id \in Stored(receipts)
      BY <1>1 DEF Retirable, LedgerInv, KeysMatch
    <3>4. PrunedReceiptCount(instant) >= 0
      BY <1>1, PruneFacts
    <3>5. QED
      BY <3>1, <3>2, <3>3, <3>4 DEF KeysReadable, Stored
  <2>2. QED
    BY <1>1, <2>1 DEF ExpiryInv
<1>2. LedgerInv /\ ExpiryInv => UsageKept /\ \A instant \in Nat : KeysReadable(instant)
  BY <1>1
<1>3. QED
  BY <1>2, LedgerInvariance, ExpiryInvariance, PTL

-----------------------------------------------------------------------------
(* An overrun bound is never trusted again.                                *)

\* The revision of every bound that was ever exceeded is remembered, unless the
\* call had none, and what is not settled exceeds nothing.
OverrunsRemembered ==
  \A id \in Stored(archive) :
    Exceeded(archive[id]) => archive[id].bound.revision \in invalidBounds \cup {Nil}

\* Recovery evidence that was accepted with a bound is within it.
LEMMA RecoveryWithin ==
  ASSUME NEW r \in Receipt, NEW s \in Settlements, validQuotaRecovery(r.bound, s),
         NEW e, e.bound = r.bound, e.actual = s
  PROVE  ~Exceeded(e)
<1>1. r.bound \in Bounds
  BY DEF Receipt
<1>2. /\ s.tokens \in Nat \cup {Nil} /\ s.money \in Nat \cup {Nil}
      /\ r.bound.tokens \in Nat \cup {Nil} /\ r.bound.money \in Nat \cup {Nil}
  BY <1>1, LedgerAssumption
<1>3. QED
  BY <1>2 DEF Exceeded, validQuotaRecovery

\* What is not settled exceeds nothing.
LEMMA ActiveWithin ==
  ASSUME NEW e, e.actual.tokens = Nil, e.actual.money = Nil
  PROVE  ~Exceeded(e)
BY DEF Exceeded

\* Every step of the history keeps an old receipt, stores one that exceeds nothing,
\* or stores one whose revision is remembered with it.
LEMMA OverrunsNext ==
  ASSUME LedgerInv, LedgerInv', ExpiryInv, OverrunsRemembered, [Next]_vars
  PROVE  OverrunsRemembered'
<1>1. ASSUME invalidBounds \subseteq invalidBounds',
             \A i \in Stored(archive)' :
               \/ i \in Stored(archive) /\ archive'[i] = archive[i]
               \/ ~Exceeded(archive'[i])
               \/ archive'[i].bound.revision \in invalidBounds' \cup {Nil}
      PROVE  OverrunsRemembered'
  <2>1. ASSUME NEW i \in Stored(archive)', Exceeded(archive'[i])
        PROVE  archive'[i].bound.revision \in invalidBounds' \cup {Nil}
    BY <1>1, <2>1 DEF OverrunsRemembered
  <2>2. QED
    BY <2>1 DEF OverrunsRemembered, Exceeded
<1>2. ASSUME UNCHANGED <<archive, invalidBounds>> PROVE OverrunsRemembered'
  BY <1>1, <1>2 DEF Stored
<1>3. ASSUME Archive, UNCHANGED invalidBounds,
             \A i \in Stored(receipts)' :
               \/ i \in Stored(receipts) /\ receipts'[i] = receipts[i]
               \/ ~Exceeded(receipts'[i])
      PROVE  OverrunsRemembered'
  <2>1. ASSUME NEW i \in Stored(archive)'
        PROVE  (i \in Stored(archive) /\ archive'[i] = archive[i]) \/ ~Exceeded(archive'[i])
    <3>1. CASE i \in Stored(receipts)'
      <4>1. archive'[i] = receipts'[i] /\ archive'[i] # Absent /\ i \in Ids
        BY <1>3, <3>1 DEF Archive, Stored
      <4>2. CASE i \in Stored(receipts) /\ receipts'[i] = receipts[i]
        BY <4>1, <4>2 DEF ExpiryInv, ArchiveFollows, Stored
      <4>3. QED
        BY <1>3, <3>1, <4>1, <4>2
    <3>2. CASE i \notin Stored(receipts)'
      BY <1>3, <3>2 DEF Archive, Stored
    <3>3. QED
      BY <3>1, <3>2
  <2>2. QED
    BY <1>1, <1>3, <2>1
<1>4. ASSUME NEW id \in Ids, NEW payload \in Payloads,
             \/ LegacyReserve(id, payload)
             \/ \E policy \in Policies, now \in Times : LegacyReserveWithLimits(id, payload, policy, now)
             \/ LegacyUpdatePending(id, payload)
             \/ LegacyComplete(id, payload)
      PROVE  OverrunsRemembered'
  BY <1>2, <1>4 DEF LegacyReserve, LegacyReserveWithLimits, LegacyUpdatePending, LegacyComplete,
     quotaVars
<1>5. ASSUME NEW id \in Ids, Ack(id), UNCHANGED quotaVars PROVE OverrunsRemembered'
  BY <1>2, <1>5 DEF quotaVars
<1>6. ASSUME NEW now \in Times,
             \/ AccountUsage(now) /\ UNCHANGED quotaVars
             \/ AccountQuotaUsage(now)
             \/ \E id \in Ids, policy \in Policies, bound \in Bounds, z \in Zones :
                  PreflightWithQuota(id, policy, bound, z, now)
             \/ \E z \in Zones : EnableQuota(z, now)
      PROVE  OverrunsRemembered'
  BY <1>2, <1>6 DEF AccountQuotaUsage, PreflightWithQuota, EnableQuota, quotaVars
<1>7. ASSUME NEW id \in Ids, NEW payload \in Payloads, NEW policy \in Policies,
             NEW bound \in Bounds, NEW recovery \in Settlements, NEW now \in Times,
             ReserveWithQuotaRecovery(id, payload, policy, bound, recovery, now)
      PROVE  OverrunsRemembered'
  <2> DEFINE t == logicalLimitTime(now)
             entry == [id |-> id, at |-> t, month |-> MonthStart(t, zone),
                       accounts |-> DOMAIN policy, bound |-> bound, state |-> "active",
                       actual |-> Unsettled, recovery |-> recovery, digest |-> Nil,
                       overrun |-> FALSE]
  <2>1. /\ Archive /\ UNCHANGED invalidBounds
        /\ receipts' = [PrunedReceipts(t) EXCEPT ![id] = entry]
    BY <1>7 DEF ReserveWithQuotaRecovery
  <2>2. entry.actual.tokens = Nil /\ entry.actual.money = Nil
    BY DEF Unsettled
  <2> HIDE DEF t, entry
  <2>3. receipts'[id] = entry /\ \A i \in Ids : i # id =>
          receipts'[i] = receipts[i] \/ receipts'[i] = Absent
    BY <2>1, PruneFacts
  <2>4. ~Exceeded(entry)
    BY <2>2, ActiveWithin
  <2>5. \A i \in Stored(receipts)' : \/ i \in Stored(receipts) /\ receipts'[i] = receipts[i]
                                     \/ ~Exceeded(receipts'[i])
    BY <2>3, <2>4 DEF Stored
  <2>6. QED
    BY <1>3, <2>1, <2>5
<1>8. ASSUME NEW id \in Ids, NEW payload \in Payloads, NEW s \in Settlements,
             UpdatePendingQuota(id, payload, s)
      PROVE  OverrunsRemembered'
  <2> DEFINE entry == [receipts[id] EXCEPT !.recovery = s]
  <2>1. /\ receipts[id] # Absent /\ receipts[id].state = "active" /\ Archive
        /\ receipts' = [receipts EXCEPT ![id] = entry] /\ UNCHANGED invalidBounds
    BY <1>8 DEF UpdatePendingQuota
  <2>2. receipts[id] \in Receipt /\ ReceiptValid(id)
    BY <2>1, LedgerTypes DEF Stored
  <2>3. entry.actual = receipts[id].actual
    BY <2>2 DEF Receipt
  <2>4. ~Exceeded(entry)
    BY <2>1, <2>2, <2>3, ActiveWithin DEF ReceiptValid
  <2> HIDE DEF entry
  <2>5. receipts'[id] = entry /\ \A i \in Ids : i # id => receipts'[i] = receipts[i]
    BY <2>1, LedgerTypes
  <2>6. \A i \in Stored(receipts)' : \/ i \in Stored(receipts) /\ receipts'[i] = receipts[i]
                                     \/ ~Exceeded(receipts'[i])
    BY <2>4, <2>5 DEF Stored
  <2>7. QED
    BY <1>3, <2>1, <2>6
<1>9. ASSUME NEW id \in Ids, NEW payload \in Payloads, NEW actual \in Settlements,
             NEW now \in Times, CompleteQuota(id, payload, actual, now)
      PROVE  OverrunsRemembered'
  <2> DEFINE old == receipts[id]
             entry == [old EXCEPT !.state = "complete", !.actual = actual, !.recovery = Unsettled,
                                  !.digest = quotaSettlementDigest(actual, payload),
                                  !.overrun = Overruns(old.bound, actual)]
  <2>1. /\ old # Absent /\ Archive
        /\ receipts' = [receipts EXCEPT ![id] = entry]
        /\ invalidBounds' = invalidBounds \cup
             IF entry.overrun THEN {entry.bound.revision} \ {Nil} ELSE {}
    BY <1>9 DEF CompleteQuota
  <2>2. old \in Receipt
    BY <2>1, LedgerTypes DEF Stored
  <2>3. entry.overrun = Overruns(old.bound, actual) /\ entry.bound = old.bound
          /\ entry.actual = actual
    BY <2>2 DEF Receipt
  <2> HIDE DEF entry
  <2>4. Exceeded(entry) => entry.overrun
    BY <2>3 DEF Exceeded, Overruns
  <2>5. receipts'[id] = entry /\ \A i \in Ids : i # id => receipts'[i] = receipts[i]
    BY <2>1, LedgerTypes
  <2>6. ASSUME NEW i \in Stored(archive)'
        PROVE  \/ i \in Stored(archive) /\ archive'[i] = archive[i]
               \/ ~Exceeded(archive'[i])
               \/ archive'[i].bound.revision \in invalidBounds' \cup {Nil}
    <3>1. CASE i = id
      <4>1. archive'[i] = entry \/ (archive'[i] = archive[i] /\ archive[i] # Absent)
        BY <2>1, <2>5, <3>1 DEF Archive, Stored
      <4>2. QED
        BY <2>1, <2>4, <3>1, <4>1 DEF Stored
    <3>2. CASE i # id
      <4>1. i \in Ids /\ archive'[i] # Absent
        BY DEF Stored
      <4>2. archive'[i] = IF receipts[i] # Absent THEN receipts[i] ELSE archive[i]
        BY <2>1, <2>5, <3>2, <4>1 DEF Archive
      <4>3. archive'[i] = archive[i]
        BY <4>1, <4>2 DEF ExpiryInv, ArchiveFollows, Stored
      <4>4. QED
        BY <4>1, <4>3 DEF Stored
    <3>3. QED
      BY <3>1, <3>2
  <2>7. invalidBounds \subseteq invalidBounds'
    BY <2>1
  <2>8. QED
    BY <1>1, <2>6, <2>7
<1>10. CASE OpenLedger
  <2>1. Archive /\ UNCHANGED invalidBounds
    BY <1>10 DEF OpenLedger
  <2>2. \A i \in Ids : receipts'[i] = Absent \/ receipts'[i] = Recovered[i]
    BY <1>10 DEF OpenLedger, recoverQuota
  <2>3. ASSUME NEW i \in Stored(receipts)'
        PROVE  (i \in Stored(receipts) /\ receipts'[i] = receipts[i]) \/ ~Exceeded(receipts'[i])
    <3>1. i \in Ids /\ receipts'[i] # Absent /\ receipts'[i] = Recovered[i]
      BY <2>2 DEF Stored
    <3>2. i \in Stored(receipts) /\ receipts[i] \in Receipt /\ ReceiptValid(i)
      BY <3>1, LedgerTypes DEF Recovered, Stored
    <3>3. CASE receipts[i].state # "active"
      BY <3>1, <3>2, <3>3, RecoveredReceipt
    <3>4. CASE receipts[i].state = "active"
      <4>1. Recovered[i].bound = receipts[i].bound /\ Recovered[i].actual = receipts[i].recovery
        BY <3>2, <3>4, RecoveredReceipt
      <4>2. receipts[i].recovery \in Settlements
              /\ validQuotaRecovery(receipts[i].bound, receipts[i].recovery)
        BY <3>2 DEF Receipt, ReceiptValid
      <4>3. QED
        BY <3>1, <3>2, <4>1, <4>2, RecoveryWithin
    <3>5. QED
      BY <3>3, <3>4
  <2>4. QED
    BY <1>3, <2>1, <2>3
<1>11. CASE UNCHANGED vars
  BY <1>2, <1>11 DEF vars
<1>12. CASE Next
  BY <1>4, <1>5, <1>6, <1>7, <1>8, <1>9, <1>10, <1>12 DEF Next
<1>13. QED
  BY <1>11, <1>12

LEMMA OverrunsInvariance == Spec => []OverrunsRemembered
<1>1. Init => OverrunsRemembered
  BY DEF Init, OverrunsRemembered, Stored
<1>2. LedgerInv /\ LedgerInv' /\ ExpiryInv /\ OverrunsRemembered /\ [Next]_vars => OverrunsRemembered'
  BY OverrunsNext
<1>3. QED
  BY <1>1, <1>2, LedgerInvariance, ExpiryInvariance, PTL DEF Spec

\* What every admission with a receipt respects: the second half of CeilingsRespected.
AdmitsTrusted ==
  [][\A i \in DOMAIN log' \ DOMAIN log :
       archive'[log'[i].id] # Absent => BoundsTrusted(archive'[log'[i].id], log'[i].policy)]_vars

LEMMA AdmissionTrusted ==
  ASSUME LedgerInv, OverrunsRemembered, NEW id \in Ids, NEW payload \in Payloads,
         NEW policy \in Policies, NEW bound \in Bounds, NEW recovery \in Settlements,
         NEW now \in Times, ReserveWithQuotaRecovery(id, payload, policy, bound, recovery, now),
         NEW n \in DOMAIN log' \ DOMAIN log
  PROVE  BoundsTrusted(archive'[log'[n].id], log'[n].policy)
<1> DEFINE t == logicalLimitTime(now)
           r == [id |-> id, at |-> t, policy |-> policy]
           entry == [id |-> id, at |-> t, month |-> MonthStart(t, zone),
                     accounts |-> DOMAIN policy, bound |-> bound, state |-> "active",
                     actual |-> Unsettled, recovery |-> recovery, digest |-> Nil,
                     overrun |-> FALSE]
<1>1. /\ version = 2 /\ Archive /\ log' = Append(log, r)
      /\ receipts' = [PrunedReceipts(t) EXCEPT ![id] = entry]
      /\ \A a \in DOMAIN policy : Constrained(policy[a]) => bound.revision \notin invalidBounds \cup {Nil}
  BY DEF ReserveWithQuotaRecovery, Record, checkQuotaAdmission, checkQuota
<1>2. t \in Nat /\ zone \in Zones /\ log \in Seq(Admission)
  BY <1>1, ClockAdvances DEF LedgerInv, LedgerTypeOK, Inv, QueueTypeOK
<1>3. entry \in Receipt /\ entry.bound = bound
  BY <1>2, NewReceipt
<1>4. r \in Admission /\ r.id = id /\ r.policy = policy
  BY <1>2 DEF Admission
<1> HIDE DEF t, r, entry
<1>5. log'[n] = r
  BY <1>1, <1>2, <1>4, LogEntries
<1>6. receipts'[id] = entry
  BY <1>1, PruneFacts
<1>7. archive'[id] = entry
  BY <1>1, <1>3, <1>6, LedgerAssumption DEF Archive
<1>8. BoundsTrusted(entry, policy)
  BY <1>1, <1>3 DEF BoundsTrusted, OverrunsRemembered
<1>9. QED
  BY <1>4, <1>5, <1>7, <1>8

\* Once a settlement exceeded the bound it was admitted with, no constrained call
\* is admitted on that bound revision again, after restarts and the pruning of the
\* receipt too (CompleteQuota, recoverQuota, checkQuota).
THEOREM OverrunNeverTrusted == Spec => AdmitsTrusted
<1> DEFINE Trusted == \A i \in DOMAIN log' \ DOMAIN log :
              archive'[log'[i].id] # Absent => BoundsTrusted(archive'[log'[i].id], log'[i].policy)
<1>1. ASSUME LedgerInv, OverrunsRemembered, [Next]_vars
      PROVE  [Trusted]_vars
  <2>1. ASSUME UNCHANGED log PROVE Trusted
    BY <2>1
  <2>2. ASSUME NEW id \in Ids, NEW payload \in Payloads, LegacyReserve(id, payload)
        PROVE  Trusted
    <3> DEFINE r == [id |-> id, at |-> clock, policy |-> EmptyPolicy]
    <3>1. r \in Admission /\ log' = Append(log, r) /\ log \in Seq(Admission)
      BY <1>1, <2>2 DEF LegacyReserve, Reserve, Record, Admission, LedgerInv, Inv, QueueTypeOK
    <3>2. DOMAIN r.policy = {}
      BY DEF EmptyPolicy
    <3> HIDE DEF r
    <3>3. ASSUME NEW n \in DOMAIN log' \ DOMAIN log PROVE log'[n] = r
      BY <3>1, LogEntries
    <3>4. QED
      BY <3>2, <3>3 DEF BoundsTrusted
  <2>3. ASSUME NEW id \in Ids, NEW payload \in Payloads, NEW policy \in Policies, NEW now \in Times,
               LegacyReserveWithLimits(id, payload, policy, now)
        PROVE  Trusted
    <3>1. UNCHANGED archive /\ Stored(archive) = {}
      BY <1>1, <2>3 DEF LegacyReserveWithLimits, quotaVars, LedgerInv, NothingBefore
    <3>2. \A i \in DOMAIN log' \ DOMAIN log : BoundsTrusted(archive'[log'[i].id], log'[i].policy)
      BY <3>1 DEF BoundsTrusted
    <3>3. QED
      BY <3>2
  <2>4. ASSUME NEW id \in Ids, NEW payload \in Payloads, NEW policy \in Policies,
               NEW bound \in Bounds, NEW recovery \in Settlements, NEW now \in Times,
               ReserveWithQuotaRecovery(id, payload, policy, bound, recovery, now)
        PROVE  Trusted
    BY <1>1, <2>4, AdmissionTrusted
  <2>5. ASSUME NEW id \in Ids, NEW payload \in Payloads,
               \/ LegacyUpdatePending(id, payload) \/ LegacyComplete(id, payload)
               \/ \E s \in Settlements : UpdatePendingQuota(id, payload, s)
               \/ \E s \in Settlements, now \in Times : CompleteQuota(id, payload, s, now)
        PROVE  Trusted
    BY <2>1, <2>5 DEF LegacyUpdatePending, LegacyComplete, UpdatePending, Complete,
       UpdatePendingQuota, CompleteQuota
  <2>6. ASSUME NEW id \in Ids, Ack(id) PROVE Trusted
    BY <2>1, <2>6 DEF Ack
  <2>7. ASSUME NEW now \in Times,
               \/ AccountUsage(now)
               \/ AccountQuotaUsage(now)
               \/ \E id \in Ids, policy \in Policies, bound \in Bounds, z \in Zones :
                    PreflightWithQuota(id, policy, bound, z, now)
               \/ \E z \in Zones : EnableQuota(z, now)
        PROVE  Trusted
    BY <2>1, <2>7 DEF AccountUsage, AccountQuotaUsage, PreflightWithQuota, EnableQuota
  <2>8. CASE OpenLedger
    BY <2>1, <2>8 DEF OpenLedger
  <2> HIDE DEF Trusted
  <2>9. QED
    BY <1>1, <2>2, <2>3, <2>4, <2>5, <2>6, <2>7, <2>8 DEF Next
<1>2. LedgerInv /\ OverrunsRemembered /\ [Next]_vars => [Trusted]_vars
  BY <1>1
<1>3. QED
  BY <1>2, LedgerInvariance, OverrunsInvariance, PTL DEF Spec, AdmitsTrusted

-----------------------------------------------------------------------------
(* Induction and sums over finite sets.                                    *)

\* The order of the numbers as a relation.
Less == {p \in Nat \X Nat : p[1] < p[2]}

\* Minimal elements in place of the induction schemes of the library: those take an
\* operator as a parameter, this one a set.
LEMMA LessWellFounded == IsWellFoundedOn(Less, Nat)
  BY NatLessThanWellFounded DEF OpToRel, Less

\* A set of numbers has a least element.
LEMMA LeastNumber ==
  ASSUME NEW U \in SUBSET Nat, U # {}
  PROVE  \E x \in U : \A y \in U : x <= y
<1>1. PICK x \in U : \A y \in U : ~ (<<y, x>> \in Less)
  BY LessWellFounded, WFMin
<1>2. \A y \in U : ~ (y < x)
  BY <1>1 DEF Less
<1>3. \A y \in U : x <= y
  BY <1>2
<1>4. QED
  BY <1>3

\* Induction over the numbers, for a set.
LEMMA NumberInduction ==
  ASSUME NEW T \in SUBSET Nat, 0 \in T, \A n \in T : n + 1 \in T
  PROVE  T = Nat
<1> SUFFICES ASSUME Nat \ T # {} PROVE FALSE
  OBVIOUS
<1>1. PICK x \in Nat \ T : \A y \in Nat \ T : x <= y
  BY LeastNumber
<1>2. x - 1 \in Nat
  BY <1>1
<1>4. x - 1 \in T
  BY <1>1, <1>2
<1>5. QED
  BY <1>1, <1>4

\* Induction over the subsets of a finite set, for a set of them.
LEMMA SubsetInduction ==
  ASSUME NEW S, IsFiniteSet(S), NEW G \in SUBSET SUBSET S, {} \in G,
         \A s \in SUBSET S : s # {} /\ (\A x \in s : s \ {x} \in G) => s \in G
  PROVE  G = SUBSET S
<1> DEFINE T == {n \in Nat : \A s \in SUBSET S : Cardinality(s) = n => s \in G}
<1>0. \A s \in SUBSET S : IsFiniteSet(s) /\ Cardinality(s) \in Nat
  BY FS_Subset, FS_CardinalityType
<1>1. 0 \in T
  BY <1>0, FS_EmptySet
<1>2. ASSUME NEW n \in T PROVE n + 1 \in T
  <2> SUFFICES ASSUME NEW s \in SUBSET S, Cardinality(s) = n + 1 PROVE s \in G
    OBVIOUS
  <2>1. s # {}
    BY FS_EmptySet
  <2>2. ASSUME NEW x \in s PROVE s \ {x} \in G
    <3>1. Cardinality(s \ {x}) = n
      BY <1>0, FS_RemoveElement
    <3>2. QED
      BY <3>1
  <2>3. QED
    BY <2>1, <2>2
<1>3. T = Nat
  <2>1. T \in SUBSET Nat
    OBVIOUS
  <2> HIDE DEF T
  <2>2. QED
    BY <1>1, <1>2, <2>1, NumberInduction
<1>4. \A s \in SUBSET S : s \in G
  BY <1>0, <1>3
<1>5. QED
  BY <1>4

\* The recursion behind MapThenSumSet over a function of weights g, on the sets in D.
Pick(s) == CHOOSE x \in s : TRUE
Small(S, n) == {s \in SUBSET S : Cardinality(s) <= n}
Folded(it, g, D) ==
  it = [s \in D |-> IF s = {} THEN 0 ELSE g[Pick(s)] + it[s \ {Pick(s)}]]
\* The sum of the weights of S.
SumOf(g, S) == (CHOOSE it : Folded(it, g, SUBSET S))[S]

LEMMA PickIn == \A s : s # {} => Pick(s) \in s
  BY DEF Pick

\* The recursion has a solution: by the size of the subsets.
LEMMA FoldExists ==
  ASSUME NEW S, IsFiniteSet(S), NEW g
  PROVE  \E it : Folded(it, g, SUBSET S)
<1>0. \A s \in SUBSET S : IsFiniteSet(s) /\ Cardinality(s) \in Nat
  BY FS_Subset, FS_CardinalityType
<1> DEFINE T == {n \in Nat : \E it : Folded(it, g, Small(S, n))}
<1>1. 0 \in T
  <2>1. Small(S, 0) = {{}}
    BY <1>0, FS_EmptySet DEF Small
  <2> DEFINE it == [s \in {{}} |-> 0]
  <2>2. Folded(it, g, Small(S, 0))
    BY <2>1 DEF Folded
  <2> HIDE DEF it
  <2>3. QED
    BY <2>2
<1>2. ASSUME NEW n \in T PROVE n + 1 \in T
  <2>1. PICK it : Folded(it, g, Small(S, n))
    OBVIOUS
  <2> DEFINE more == [s \in Small(S, n + 1) |->
                        IF s = {} THEN 0 ELSE g[Pick(s)] + it[s \ {Pick(s)}]]
  <2>2. Small(S, n) \subseteq Small(S, n + 1)
    BY <1>0 DEF Small
  <2>3. \A s \in Small(S, n) : more[s] = it[s]
    BY <2>1, <2>2 DEF Folded
  <2>4. ASSUME NEW s \in Small(S, n + 1), s # {}
        PROVE  s \ {Pick(s)} \in Small(S, n)
    <3>1. Pick(s) \in s
      BY <2>4, PickIn
    <3>2. Cardinality(s \ {Pick(s)}) = Cardinality(s) - 1
      BY <1>0, <3>1, FS_RemoveElement DEF Small
    <3>3. QED
      BY <1>0, <3>2 DEF Small
  <2>5. Folded(more, g, Small(S, n + 1))
    BY <2>3, <2>4 DEF Folded
  <2> HIDE DEF more
  <2>6. QED
    BY <2>5
<1>3. T = Nat
  <2>1. T \in SUBSET Nat
    OBVIOUS
  <2> HIDE DEF T
  <2>2. QED
    BY <1>1, <1>2, <2>1, NumberInduction
<1>4. Small(S, Cardinality(S)) = SUBSET S
  BY <1>0, FS_Subset DEF Small
<1>5. Cardinality(S) \in Nat
  BY <1>0
<1>6. Cardinality(S) \in T
  BY <1>3, <1>5
<1>7. PICK it : Folded(it, g, Small(S, Cardinality(S)))
  BY <1>6
<1>8. QED
  BY <1>4, <1>7

\* Two solutions agree where their weights do.
LEMMA FoldUnique ==
  ASSUME NEW S, IsFiniteSet(S), NEW g, NEW f, NEW D, NEW E, NEW i, NEW j,
         Folded(i, f, D), Folded(j, g, E), SUBSET S \subseteq D, SUBSET S \subseteq E,
         \A x \in S : f[x] = g[x]
  PROVE  i[S] = j[S]
<1> DEFINE G == {s \in SUBSET S : i[s] = j[s]}
<1>1. {} \in G
  <2>1. {} \in D /\ {} \in E
    OBVIOUS
  <2>2. QED
    BY <2>1 DEF Folded
<1>2. ASSUME NEW s \in SUBSET S, s # {}, \A x \in s : s \ {x} \in G
      PROVE  s \in G
  <2>1. Pick(s) \in s
    BY <1>2, PickIn
  <2>2. i[s] = f[Pick(s)] + i[s \ {Pick(s)}]
    BY <1>2 DEF Folded
  <2>3. j[s] = g[Pick(s)] + j[s \ {Pick(s)}]
    BY <1>2 DEF Folded
  <2>4. QED
    BY <1>2, <2>1, <2>2, <2>3
<1>3. G = SUBSET S
  <2>1. G \in SUBSET SUBSET S
    OBVIOUS
  <2> HIDE DEF G
  <2>2. QED
    BY <1>1, <1>2, <2>1, SubsetInduction
<1>4. S \in G
  BY <1>3
<1>5. QED
  BY <1>4

\* Any solution gives the sum.
LEMMA SumFold ==
  ASSUME NEW S, IsFiniteSet(S), NEW g, NEW i, NEW D, Folded(i, g, D), SUBSET S \subseteq D
  PROVE  SumOf(g, S) = i[S]
<1> DEFINE it == CHOOSE it : Folded(it, g, SUBSET S)
<1>1. Folded(it, g, SUBSET S)
  BY FoldExists
<1>2. it[S] = i[S]
  <2> HIDE DEF it
  <2>1. QED
    BY <1>1, FoldUnique
<1>3. QED
  BY <1>2 DEF SumOf

LEMMA SumEmpty == ASSUME NEW g PROVE SumOf(g, {}) = 0
<1>1. PICK it : Folded(it, g, SUBSET {})
  BY FoldExists, FS_EmptySet
<1>2. SumOf(g, {}) = it[{}]
  BY <1>1, SumFold, FS_EmptySet
<1>3. QED
  BY <1>1, <1>2 DEF Folded

\* The sum does not depend on the order: any element may come first.
LEMMA SumSplit ==
  ASSUME NEW S, IsFiniteSet(S), NEW g, \A x \in S : g[x] \in Int, NEW x \in S
  PROVE  /\ SumOf(g, S) \in Int
         /\ SumOf(g, S) = g[x] + SumOf(g, S \ {x})
<1>1. PICK it : Folded(it, g, SUBSET S)
  BY FoldExists
<1>8. \A s \in SUBSET S : it[s] \in Int
  <2> DEFINE H == {s \in SUBSET S : it[s] \in Int}
  <2>1. {} \in H
    BY <1>1 DEF Folded
  <2>2. ASSUME NEW s \in SUBSET S, s # {}, \A y \in s : s \ {y} \in H
        PROVE  s \in H
    <3>1. Pick(s) \in s
      BY <2>2, PickIn
    <3>2. it[s] = g[Pick(s)] + it[s \ {Pick(s)}]
      BY <1>1, <2>2 DEF Folded
    <3>3. g[Pick(s)] \in Int /\ it[s \ {Pick(s)}] \in Int
      BY <2>2, <3>1
    <3>4. QED
      BY <3>2, <3>3
  <2>3. H = SUBSET S
    <3>1. H \in SUBSET SUBSET S
      OBVIOUS
    <3> HIDE DEF H
    <3>2. QED
      BY <2>1, <2>2, <3>1, SubsetInduction
  <2>4. QED
    BY <2>3
<1> DEFINE G == {s \in SUBSET S : it[s] \in Int /\ \A y \in s : it[s] = g[y] + it[s \ {y}]}
<1>2. {} \in G
  BY <1>1 DEF Folded
<1>3. ASSUME NEW s \in SUBSET S, s # {}, \A y \in s : s \ {y} \in G
      PROVE  s \in G
  <2> DEFINE p == Pick(s)
  <2>1. p \in s
    BY <1>3, PickIn
  <2>2. it[s] = g[p] + it[s \ {p}]
    BY <1>1, <1>3 DEF Folded
  <2> HIDE DEF p
  <2>3. g[p] \in Int /\ it[s \ {p}] \in Int
    BY <1>3, <2>1
  <2>4. it[s] \in Int
    BY <2>2, <2>3
  <2>5. ASSUME NEW y \in s, y # p
        PROVE  it[s] = g[y] + it[s \ {y}]
    <3> DEFINE r == (s \ {p}) \ {y}
    <3>1. it[s \ {p}] = g[y] + it[r]
      BY <1>3, <2>1, <2>5
    <3>2. it[s \ {y}] = g[p] + it[r]
      <4>1. it[s \ {y}] = g[p] + it[(s \ {y}) \ {p}]
        BY <1>3, <2>1, <2>5
      <4>2. (s \ {y}) \ {p} = r
        OBVIOUS
      <4>3. QED
        BY <4>1, <4>2
    <3>4. g[y] \in Int
      OBVIOUS
    <3>5. it[r] \in Int
      <4>1. r \in SUBSET S
        OBVIOUS
      <4>2. QED
        BY <1>8, <4>1
    <3> HIDE DEF r
    <3>6. QED
      BY <2>2, <2>3, <3>1, <3>2, <3>4, <3>5
  <2>6. QED
    BY <2>1, <2>2, <2>4, <2>5 DEF p
<1>4. G = SUBSET S
  <2>1. G \in SUBSET SUBSET S
    OBVIOUS
  <2> HIDE DEF G
  <2>2. QED
    BY <1>2, <1>3, <2>1, SubsetInduction
<1>5. S \in G
  BY <1>4
<1>6. SumOf(g, S) = it[S] /\ SumOf(g, S \ {x}) = it[S \ {x}]
  BY <1>1, SumFold, FS_Subset
<1>9. QED
  BY <1>5, <1>6

LEMMA SumType ==
  ASSUME NEW S, IsFiniteSet(S), NEW g, \A x \in S : g[x] \in Nat
  PROVE  SumOf(g, S) \in Nat
<1> DEFINE G == {s \in SUBSET S : SumOf(g, s) \in Nat}
<1>1. {} \in G
  BY SumEmpty
<1>2. ASSUME NEW s \in SUBSET S, s # {}, \A y \in s : s \ {y} \in G
      PROVE  s \in G
  <2>1. PICK y \in s : TRUE
    BY <1>2
  <2>2. IsFiniteSet(s) /\ \A x \in s : g[x] \in Int
    BY FS_Subset
  <2>3. SumOf(g, s) = g[y] + SumOf(g, s \ {y})
    BY <2>2, SumSplit
  <2>4. g[y] \in Nat /\ SumOf(g, s \ {y}) \in Nat
    BY <1>2
  <2>5. QED
    BY <2>3, <2>4
<1>3. G = SUBSET S
  <2>1. G \in SUBSET SUBSET S
    OBVIOUS
  <2> HIDE DEF G
  <2>2. QED
    BY <1>1, <1>2, <2>1, SubsetInduction
<1>4. QED
  BY <1>3

\* Sums of disjoint sets add up.
LEMMA SumUnion ==
  ASSUME NEW A, NEW B, IsFiniteSet(A), IsFiniteSet(B), A \cap B = {},
         NEW g, \A x \in A \cup B : g[x] \in Nat
  PROVE  SumOf(g, A \cup B) = SumOf(g, A) + SumOf(g, B)
<1> DEFINE G == {s \in SUBSET B : SumOf(g, A \cup s) = SumOf(g, A) + SumOf(g, s)}
<1>0. SumOf(g, A) \in Nat
  BY SumType
<1>1. {} \in G
  <2>1. A \cup {} = A
    OBVIOUS
  <2>2. QED
    BY <1>0, <2>1, SumEmpty
<1>2. ASSUME NEW s \in SUBSET B, s # {}, \A y \in s : s \ {y} \in G
      PROVE  s \in G
  <2>1. PICK y \in s : TRUE
    BY <1>2
  <2>2. IsFiniteSet(s) /\ IsFiniteSet(A \cup s) /\ IsFiniteSet(s \ {y})
    BY FS_Subset, FS_Union
  <2>3. SumOf(g, s) = g[y] + SumOf(g, s \ {y})
    BY <2>2, SumSplit
  <2>4. SumOf(g, A \cup s) = g[y] + SumOf(g, (A \cup s) \ {y})
    BY <2>2, SumSplit
  <2>5. (A \cup s) \ {y} = A \cup (s \ {y})
    OBVIOUS
  <2>6. SumOf(g, A \cup (s \ {y})) = SumOf(g, A) + SumOf(g, s \ {y})
    BY <1>2
  <2>7. g[y] \in Nat /\ SumOf(g, s \ {y}) \in Nat
    BY <2>2, SumType
  <2>8. SumOf(g, A \cup s) = g[y] + (SumOf(g, A) + SumOf(g, s \ {y}))
    BY <2>4, <2>5, <2>6
  <2>9. SumOf(g, A \cup s) = SumOf(g, A) + SumOf(g, s)
    BY <1>0, <2>3, <2>7, <2>8
  <2>10. QED
    BY <2>9
<1>3. G = SUBSET B
  <2>1. G \in SUBSET SUBSET B
    OBVIOUS
  <2> HIDE DEF G
  <2>2. QED
    BY <1>1, <1>2, <2>1, SubsetInduction
<1>4. QED
  BY <1>3

\* Weights bounded one by one are bounded in the sum.
LEMMA SumBound ==
  ASSUME NEW S, IsFiniteSet(S), NEW f, NEW g, NEW h,
         \A x \in S : f[x] \in Nat /\ g[x] \in Nat /\ h[x] \in Nat /\ h[x] <= f[x] + g[x]
  PROVE  SumOf(h, S) <= SumOf(f, S) + SumOf(g, S)
<1> DEFINE G == {s \in SUBSET S : SumOf(h, s) <= SumOf(f, s) + SumOf(g, s)}
<1>1. {} \in G
  BY SumEmpty
<1>2. ASSUME NEW s \in SUBSET S, s # {}, \A y \in s : s \ {y} \in G
      PROVE  s \in G
  <2>1. PICK y \in s : TRUE
    BY <1>2
  <2>2. IsFiniteSet(s) /\ IsFiniteSet(s \ {y})
    BY FS_Subset
  <2>3. SumOf(f, s) = f[y] + SumOf(f, s \ {y})
    BY <2>2, SumSplit
  <2>4. SumOf(g, s) = g[y] + SumOf(g, s \ {y})
    BY <2>2, SumSplit
  <2>5. SumOf(h, s) = h[y] + SumOf(h, s \ {y})
    BY <2>2, SumSplit
  <2>6. SumOf(h, s \ {y}) <= SumOf(f, s \ {y}) + SumOf(g, s \ {y})
    BY <1>2
  <2>7. /\ SumOf(f, s \ {y}) \in Nat /\ SumOf(g, s \ {y}) \in Nat /\ SumOf(h, s \ {y}) \in Nat
    BY <2>2, SumType
  <2>8. f[y] \in Nat /\ g[y] \in Nat /\ h[y] \in Nat /\ h[y] <= f[y] + g[y]
    OBVIOUS
  <2>9. SumOf(h, s) <= SumOf(f, s) + SumOf(g, s)
    BY <2>3, <2>4, <2>5, <2>6, <2>7, <2>8
  <2>10. QED
    BY <2>9
<1>3. G = SUBSET S
  <2>1. G \in SUBSET SUBSET S
    OBVIOUS
  <2> HIDE DEF G
  <2>2. QED
    BY <1>1, <1>2, <2>1, SubsetInduction
<1>4. QED
  BY <1>3

\* A part weighs no more than the whole.
LEMMA SumSubset ==
  ASSUME NEW A, NEW B, IsFiniteSet(B), A \subseteq B, NEW g, \A x \in B : g[x] \in Nat
  PROVE  SumOf(g, A) <= SumOf(g, B)
<1>1. IsFiniteSet(A) /\ IsFiniteSet(B \ A)
  BY FS_Subset
<1>2. A \cup (B \ A) = B /\ A \cap (B \ A) = {}
  OBVIOUS
<1>3. SumOf(g, B) = SumOf(g, A) + SumOf(g, B \ A)
  BY <1>1, <1>2, SumUnion
<1>4. SumOf(g, A) \in Nat /\ SumOf(g, B \ A) \in Nat
  BY <1>1, SumType
<1>5. QED
  BY <1>3, <1>4

LEMMA SumMember ==
  ASSUME NEW S, IsFiniteSet(S), NEW g, \A x \in S : g[x] \in Nat, NEW x \in S
  PROVE  g[x] <= SumOf(g, S)
<1>1. IsFiniteSet(S \ {x})
  BY FS_Subset
<1>2. SumOf(g, S \ {x}) \in Nat
  BY <1>1, SumType
<1>3. SumOf(g, S) = g[x] + SumOf(g, S \ {x})
  BY SumSplit
<1>4. QED
  BY <1>2, <1>3

-----------------------------------------------------------------------------
(* The counters of the ledger are sums.                                    *)

\* The weight of a receipt in one line of a counter.
Weight(line) == [e \in Receipt |-> Contribution(e, line)]

LEMMA AmountType ==
  ASSUME NEW e \in Receipt
  PROVE  /\ TokenCharge(e) \in Nat /\ MoneyCharge(e) \in Nat
         /\ \A line : Contribution(e, line) \in Nat
<1>1. /\ e.actual.tokens \in Nat \cup {Nil} /\ e.actual.money \in Nat \cup {Nil}
      /\ e.bound.tokens \in Nat \cup {Nil} /\ e.bound.money \in Nat \cup {Nil}
  BY LedgerAssumption DEF Receipt
<1>2. TokenCharge(e) \in Nat /\ MoneyCharge(e) \in Nat
  BY <1>1 DEF TokenCharge, MoneyCharge, Amount
<1>3. ASSUME NEW line PROVE Contribution(e, line) \in Nat
  <2>1. Contribution(e, line) =
          (IF line = Line(e, "tokens", e.actual.tokens, e.bound.tokens) THEN TokenCharge(e) ELSE 0)
          + (IF line = Line(e, Currency(e), e.actual.money, e.bound.money) THEN MoneyCharge(e) ELSE 0)
    BY DEF Contribution, TokenCharge, MoneyCharge
  <2>2. QED
    BY <1>2, <2>1
<1>4. QED
  BY <1>2, <1>3

\* What MapThenSumSet computes for a line.
LEMMA TotalIsSum ==
  ASSUME NEW S \in SUBSET Receipt, IsFiniteSet(S), NEW line
  PROVE  Total(S, line) = SumOf(Weight(line), S)
<1> DEFINE P(it) == it = [s \in SUBSET S |->
              IF s = {} THEN 0
              ELSE Contribution(CHOOSE x \in s : TRUE, line) + it[s \ {CHOOSE x \in s : TRUE}]]
<1>1. \A it : P(it) <=> Folded(it, Weight(line), SUBSET S)
  BY PickIn DEF Folded, Weight, Pick
<1>2. Total(S, line) = (CHOOSE it : P(it))[S]
  BY DEF Total, MapThenSumSet, MapThenFoldSet
<1>3. \E it : P(it)
  <2>1. PICK it : Folded(it, Weight(line), SUBSET S)
    BY FoldExists
  <2>2. P(it)
    BY <1>1, <2>1
  <2> HIDE DEF P
  <2>3. QED
    BY <2>2
<1>4. P(CHOOSE it : P(it))
  <2> HIDE DEF P
  <2>1. QED
    BY <1>3
<1>5. QED
  BY <1>1, <1>2, <1>4, SumFold

LEMMA WeightType ==
  \A line : \A e \in Receipt : Weight(line)[e] = Contribution(e, line) /\ Weight(line)[e] \in Nat
BY AmountType DEF Weight

LEMMA TotalEmpty == \A line : Total({}, line) = 0
BY TotalIsSum, SumEmpty, FS_EmptySet

LEMMA TotalUnion ==
  ASSUME NEW A \in SUBSET Receipt, NEW B \in SUBSET Receipt, IsFiniteSet(A), IsFiniteSet(B),
         A \cap B = {}, NEW line
  PROVE  /\ Total(A \cup B, line) = Total(A, line) + Total(B, line)
         /\ Total(A, line) \in Nat /\ Total(B, line) \in Nat
<1>1. IsFiniteSet(A \cup B) /\ A \cup B \in SUBSET Receipt
  BY FS_Union
<1>2. \A x \in A \cup B : Weight(line)[x] \in Nat
  BY WeightType
<1>3. /\ Total(A \cup B, line) = SumOf(Weight(line), A \cup B)
      /\ Total(A, line) = SumOf(Weight(line), A)
      /\ Total(B, line) = SumOf(Weight(line), B)
  BY <1>1, TotalIsSum
<1>4. SumOf(Weight(line), A) \in Nat /\ SumOf(Weight(line), B) \in Nat
  BY <1>2, SumType
<1>5. SumOf(Weight(line), A \cup B) = SumOf(Weight(line), A) + SumOf(Weight(line), B)
  BY <1>2, SumUnion
<1>6. QED
  BY <1>3, <1>4, <1>5

\* One receipt alone.
LEMMA TotalOne ==
  ASSUME NEW e \in Receipt, NEW line
  PROVE  Total({e}, line) = Contribution(e, line)
<1>1. IsFiniteSet({e}) /\ {e} \in SUBSET Receipt
  BY FS_Singleton
<1>2. Weight(line)[e] = Contribution(e, line) /\ Weight(line)[e] \in Nat
  BY WeightType
<1>3. SumOf(Weight(line), {e}) = Weight(line)[e] + SumOf(Weight(line), {e} \ {e})
  BY <1>1, <1>2, SumSplit
<1>4. {e} \ {e} = {} /\ SumOf(Weight(line), {}) = 0
  BY SumEmpty
<1>5. Total({e}, line) = SumOf(Weight(line), {e})
  BY <1>1, TotalIsSum
<1>6. QED
  BY <1>2, <1>3, <1>4, <1>5

\* Receipts leave a sum.
LEMMA TotalRemove ==
  ASSUME NEW S \in SUBSET Receipt, IsFiniteSet(S), NEW D \in SUBSET S, NEW line
  PROVE  /\ Total(S \ D, line) = Total(S, line) - Total(D, line)
         /\ Total(S, line) \in Nat /\ Total(S \ D, line) \in Nat /\ Total(D, line) \in Nat
<1>1. IsFiniteSet(D) /\ IsFiniteSet(S \ D) /\ D \in SUBSET Receipt /\ S \ D \in SUBSET Receipt
  BY FS_Subset
<1>2. D \cap (S \ D) = {} /\ D \cup (S \ D) = S
  OBVIOUS
<1>3. /\ Total(D \cup (S \ D), line) = Total(D, line) + Total(S \ D, line)
      /\ Total(D, line) \in Nat /\ Total(S \ D, line) \in Nat
  BY <1>1, <1>2, TotalUnion
<1>4. Total(S, line) = Total(D, line) + Total(S \ D, line)
  BY <1>2, <1>3
<1> HIDE DEF Total
<1>5. QED
  BY <1>3, <1>4

\* The calls of an account in flight, in a history of receipts.
Flying(A, a) == {A[id] : id \in {i \in Stored(A) : a \in A[i].accounts /\ A[i].state = "active"}}

\* Each expiry key is one of its receipt; with it the two sums are inductive.
CounterInv ==
  /\ counters \in [CounterKeys -> [Lines -> Int]]
  /\ \A k \in expiry : \E w \in Windows :
       k.window = Key(w, archive[k.id].month) /\ k.at = WindowEnd(w, archive[k.id])
  /\ \A a \in Accounts, line \in Lines :
       counters[<<a, Active>>][line] = Total(Flying(archive, a), line)
  /\ \A x \in CounterKeys : x[2] # Active => \A line \in Lines :
       counters[x][line] = Total(Charged(expiry, archive, x[1], x[2]), line)

\* The keys of two windows differ, and none is the counter of calls in flight.
LEMMA KeysDiffer ==
  /\ \A v, w, m, n : Key(w, m) = Key(v, n) => v = w
  /\ \A w \in Windows : \A m : Key(w, m) # Active
<1>1. \A w \in Windows : w # "active"
  BY LedgerAssumption DEF Windows
<1>2. QED
  BY <1>1 DEF Key, Active

LEMMA CounterKeysHold ==
  /\ \A a \in Accounts : <<a, Active>> \in CounterKeys
  /\ \A x \in CounterKeys : x[1] \in Accounts
BY DEF CounterKeys

LEMMA ArchiveTypes ==
  ASSUME LedgerInv, ExpiryInv
  PROVE  /\ archive \in [Ids -> Receipt \cup {Absent}] /\ Absent \notin Receipt
         /\ \A id \in Stored(archive) : archive[id].state = "active" =>
              /\ id \in Stored(receipts) /\ receipts[id] = archive[id] /\ archive[id].id = id
         /\ \A id \in Stored(receipts) : archive[id] = receipts[id] /\ archive[id].id = id
                                         /\ archive[id] \in Receipt /\ id \in Ids
         /\ \A k \in expiry : /\ k.id \in Ids /\ k.id \in Stored(receipts)
                              /\ archive[k.id] \in Receipt /\ archive[k.id].id = k.id
                              /\ archive[k.id] = receipts[k.id]
                              /\ archive[k.id].state # "active"
<1>1. archive \in [Ids -> Receipt \cup {Absent}] /\ Absent \notin Receipt
  BY LedgerAssumption DEF LedgerInv, LedgerTypeOK
<1>2. \A id \in Stored(receipts) : archive[id] = receipts[id] /\ archive[id].id = id
                                   /\ archive[id] \in Receipt /\ id \in Ids
  BY LedgerTypes DEF ExpiryInv, ArchiveFollows
<1>3. \A id \in Stored(archive) : archive[id].state = "active" => id \in Stored(receipts)
  BY DEF ExpiryInv, ArchiveFollows, Stored
<1>4. \A k \in expiry : k.id \in Stored(receipts) /\ receipts[k.id].state # "active"
  BY DEF ExpiryInv, KeysStand
<1>5. QED
  BY <1>1, <1>2, <1>3, <1>4

LEMMA ImageFinite ==
  ASSUME NEW S, IsFiniteSet(S), NEW f, S \subseteq DOMAIN f
  PROVE  IsFiniteSet({f[x] : x \in S})
<1> DEFINE T == {f[x] : x \in S}
           g == [x \in S |-> f[x]]
<1>1. g \in Surjection(S, T)
  BY DEF Surjection
<1>2. QED
  BY <1>1, FS_Surjection DEF ExistsSurjection

LEMMA ChargedType ==
  ASSUME NEW R \in [Ids -> Receipt \cup {Absent}], NEW K, \A k \in K : k.id \in Ids /\ R[k.id] \in Receipt,
         NEW a, NEW w
  PROVE  Charged(K, R, a, w) \in SUBSET Receipt /\ IsFiniteSet(Charged(K, R, a, w))
<1>1. IsFiniteSet({R[id] : id \in Ids})
  BY ImageFinite, QueueAssumption
<1>2. Charged(K, R, a, w) \subseteq {R[id] : id \in Ids}
  BY DEF Charged
<1>3. Charged(K, R, a, w) \in SUBSET Receipt
  BY DEF Charged
<1>4. QED
  BY <1>1, <1>2, <1>3, FS_Subset

LEMMA FlyingType ==
  ASSUME NEW A \in [Ids -> Receipt \cup {Absent}], NEW a
  PROVE  Flying(A, a) \in SUBSET Receipt /\ IsFiniteSet(Flying(A, a))
<1>1. IsFiniteSet({A[id] : id \in Ids})
  BY ImageFinite, QueueAssumption
<1>2. Flying(A, a) \subseteq {A[id] : id \in Ids}
  BY DEF Flying, Stored
<1>3. Flying(A, a) \in SUBSET Receipt
  BY DEF Flying, Stored
<1>4. QED
  BY <1>1, <1>2, <1>3, FS_Subset

\* The keys of two different sets of calls charge different receipts.
LEMMA ChargedSplit ==
  ASSUME NEW R \in [Ids -> Receipt \cup {Absent}], NEW K, NEW L,
         \A k \in K \cup L : k.id \in Ids /\ R[k.id] \in Receipt /\ R[k.id].id = k.id,
         \A k \in K, l \in L : k.account = l.account /\ k.window = l.window => k.id # l.id,
         NEW a, NEW w, NEW line
  PROVE  /\ Total(Charged(K \cup L, R, a, w), line) =
              Total(Charged(K, R, a, w), line) + Total(Charged(L, R, a, w), line)
         /\ Total(Charged(K, R, a, w), line) \in Nat /\ Total(Charged(L, R, a, w), line) \in Nat
<1>1. Charged(K \cup L, R, a, w) = Charged(K, R, a, w) \cup Charged(L, R, a, w)
  BY DEF Charged
<1>2. Charged(K, R, a, w) \cap Charged(L, R, a, w) = {}
  <2>1. SUFFICES ASSUME NEW k \in K, NEW l \in L, k.account = a, k.window = w,
                        l.account = a, l.window = w, R[k.id] = R[l.id]
                 PROVE  FALSE
    BY DEF Charged
  <2>2. k.id # l.id
    BY <2>1
  <2>3. R[k.id].id = k.id /\ R[l.id].id = l.id
    OBVIOUS
  <2>4. QED
    BY <2>1, <2>2, <2>3
<1>3. /\ Charged(K, R, a, w) \in SUBSET Receipt /\ IsFiniteSet(Charged(K, R, a, w))
      /\ Charged(L, R, a, w) \in SUBSET Receipt /\ IsFiniteSet(Charged(L, R, a, w))
  BY ChargedType
<1>4. QED
  <2>1. PICK A, B : A = Charged(K, R, a, w) /\ B = Charged(L, R, a, w)
    OBVIOUS
  <2>2. /\ A \in SUBSET Receipt /\ B \in SUBSET Receipt /\ IsFiniteSet(A) /\ IsFiniteSet(B)
        /\ A \cap B = {}
    BY <1>2, <1>3, <2>1
  <2>3. /\ Total(A \cup B, line) = Total(A, line) + Total(B, line)
        /\ Total(A, line) \in Nat /\ Total(B, line) \in Nat
    BY <2>2, TotalUnion
  <2>4. QED
    BY <1>1, <2>1, <2>3

\* Pruning takes what is due out of the sums.
LEMMA PrunedSums ==
  ASSUME LedgerInv, ExpiryInv, CounterInv, NEW t \in Nat
  PROVE  /\ \A a \in Accounts, line \in Lines :
              PrunedCounters(t)[<<a, Active>>][line] = counters[<<a, Active>>][line]
         /\ \A x \in CounterKeys : x[2] # Active => \A line \in Lines :
              PrunedCounters(t)[x][line] = Total(Charged(expiry \ Due(t), archive, x[1], x[2]), line)
         /\ \A x \in CounterKeys, line \in Lines : PrunedCounters(t)[x][line] \in Nat
         /\ PrunedCounters(t) \in [CounterKeys -> [Lines -> Int]]
<1>1. PrunedCounters(t) = [x \in CounterKeys |-> [line \in Lines |->
         counters[x][line] - Total(Charged(Due(t), receipts, x[1], x[2]), line)]]
  BY DEF PrunedCounters, CounterInv
<1>2. \A x : Charged(Due(t), receipts, x[1], x[2]) = Charged(Due(t), archive, x[1], x[2])
  BY ArchiveTypes DEF Charged, Due
<1>3. ASSUME NEW a \in Accounts, NEW line \in Lines
      PROVE  /\ PrunedCounters(t)[<<a, Active>>][line] = counters[<<a, Active>>][line]
             /\ counters[<<a, Active>>][line] \in Nat
  <2>1. Charged(Due(t), archive, a, Active) = {}
    <3>1. \A k \in expiry : k.window # Active
      BY KeysDiffer DEF CounterInv
    <3>2. QED
      BY <3>1 DEF Charged, Due
  <2>2. counters[<<a, Active>>][line] = Total(Flying(archive, a), line)
    BY DEF CounterInv
  <2>3. Flying(archive, a) \in SUBSET Receipt /\ IsFiniteSet(Flying(archive, a))
    BY ArchiveTypes, FlyingType
  <2>4. Total(Flying(archive, a), line) \in Nat
    BY <2>3, TotalRemove
  <2>5. PrunedCounters(t)[<<a, Active>>][line] =
          counters[<<a, Active>>][line] - Total(Charged(Due(t), receipts, a, Active), line)
    BY <1>1, CounterKeysHold
  <2>6. Total(Charged(Due(t), receipts, a, Active), line) = 0
    <3>1. Charged(Due(t), receipts, a, Active) = {}
      BY <2>1, ArchiveTypes DEF Charged, Due
    <3>2. QED
      BY <3>1, TotalEmpty
  <2>7. QED
    BY <2>2, <2>4, <2>5, <2>6
<1>4. ASSUME NEW x \in CounterKeys, x[2] # Active, NEW line \in Lines
      PROVE  /\ PrunedCounters(t)[x][line] = Total(Charged(expiry \ Due(t), archive, x[1], x[2]), line)
             /\ PrunedCounters(t)[x][line] \in Nat
  <2>1. (expiry \ Due(t)) \cup Due(t) = expiry
    BY DEF Due
  <2>2. ASSUME NEW k \in expiry \ Due(t), NEW l \in Due(t),
               k.account = l.account, k.window = l.window
        PROVE  k.id # l.id
    <3>1. PICK v \in Windows : k.window = Key(v, archive[k.id].month) /\ k.at = WindowEnd(v, archive[k.id])
      BY DEF CounterInv
    <3>2. PICK w \in Windows : l.window = Key(w, archive[l.id].month) /\ l.at = WindowEnd(w, archive[l.id])
      BY DEF CounterInv, Due
    <3>3. Key(v, archive[k.id].month) = Key(w, archive[l.id].month)
      BY <2>2, <3>1, <3>2
    <3>4. v = w
      BY <3>3, KeysDiffer
    <3>5. QED
      BY <3>1, <3>2, <3>4 DEF Due
  <2>3. \A k \in (expiry \ Due(t)) \cup Due(t) :
          k.id \in Ids /\ archive[k.id] \in Receipt /\ archive[k.id].id = k.id
    BY <2>1, ArchiveTypes
  <2>4. /\ Total(Charged(expiry, archive, x[1], x[2]), line) =
             Total(Charged(expiry \ Due(t), archive, x[1], x[2]), line)
               + Total(Charged(Due(t), archive, x[1], x[2]), line)
        /\ Total(Charged(expiry \ Due(t), archive, x[1], x[2]), line) \in Nat
        /\ Total(Charged(Due(t), archive, x[1], x[2]), line) \in Nat
    <3>1. archive \in [Ids -> Receipt \cup {Absent}]
      BY ArchiveTypes
    <3>2. PICK K, L : K = expiry \ Due(t) /\ L = Due(t)
      OBVIOUS
    <3>3. /\ \A k \in K \cup L : k.id \in Ids /\ archive[k.id] \in Receipt /\ archive[k.id].id = k.id
          /\ \A k \in K, l \in L : k.account = l.account /\ k.window = l.window => k.id # l.id
      BY <2>2, <2>3, <3>2
    <3>4. /\ Total(Charged(K \cup L, archive, x[1], x[2]), line) =
               Total(Charged(K, archive, x[1], x[2]), line) + Total(Charged(L, archive, x[1], x[2]), line)
          /\ Total(Charged(K, archive, x[1], x[2]), line) \in Nat
          /\ Total(Charged(L, archive, x[1], x[2]), line) \in Nat
      BY <3>1, <3>3, ChargedSplit
    <3>5. QED
      BY <2>1, <3>2, <3>4
  <2>5. counters[x][line] = Total(Charged(expiry, archive, x[1], x[2]), line)
    BY <1>4 DEF CounterInv
  <2>6. PrunedCounters(t)[x][line] =
          counters[x][line] - Total(Charged(Due(t), archive, x[1], x[2]), line)
    BY <1>1, <1>2
  <2>7. QED
    BY <2>4, <2>5, <2>6
<1>5. \A x \in CounterKeys, line \in Lines : PrunedCounters(t)[x][line] \in Nat
  <2>1. ASSUME NEW x \in CounterKeys, x[2] = Active PROVE \E a \in Accounts : x = <<a, Active>>
    BY <2>1 DEF CounterKeys
  <2>2. QED
    BY <1>3, <1>4, <2>1
<1>6. PrunedCounters(t) \in [CounterKeys -> [Lines -> Int]]
  BY <1>1, <1>5
<1>7. QED
  BY <1>3, <1>4, <1>5, <1>6

\* B is the history A with receipt e for a call that had none or was in flight.
Stores(A, B, id, e) ==
  /\ A \in [Ids -> Receipt \cup {Absent}] /\ Absent \notin Receipt
  /\ \A i \in Stored(A) : A[i].state = "active" => A[i].id = i
  /\ id \in Ids /\ e \in Receipt /\ e.id = id
  /\ A[id] = Absent \/ A[id].state = "active"
  /\ B = [A EXCEPT ![id] = e]

\* A receipt takes the place of another one of its call.
LEMMA FlyingReplaced ==
  ASSUME NEW A, NEW B, NEW id, NEW e, Stores(A, B, id, e), NEW a
  PROVE  /\ Flying(B, a) = (Flying(A, a) \ {A[id]})
                            \cup (IF e.state = "active" /\ a \in e.accounts THEN {e} ELSE {})
         /\ e \notin Flying(A, a) \ {A[id]}
         /\ A[id] \in Flying(A, a) <=> A[id] # Absent /\ a \in A[id].accounts
<1> USE DEF Stores
<1> DEFINE rest == Flying(A, a) \ {A[id]}
           new == IF e.state = "active" /\ a \in e.accounts THEN {e} ELSE {}
<1>1. \A x : x \in Flying(A, a) <=>
         \E i \in Ids : A[i] # Absent /\ a \in A[i].accounts /\ A[i].state = "active" /\ x = A[i]
  BY DEF Flying, Stored
<1>2. \A x : x \in Flying(B, a) <=>
         \E i \in Ids : B[i] # Absent /\ a \in B[i].accounts /\ B[i].state = "active" /\ x = B[i]
  BY DEF Flying, Stored
<1>3. \A i \in Ids : B[i] = IF i = id THEN e ELSE A[i]
  OBVIOUS
<1>4. \A i \in Ids : A[i] # Absent /\ A[i].state = "active" => A[i].id = i
  BY DEF Stored
<1>5. \A x : x \in rest <=>
         \E i \in Ids \ {id} : A[i] # Absent /\ a \in A[i].accounts /\ A[i].state = "active" /\ x = A[i]
  BY <1>1, <1>4
<1>6. e # Absent
  OBVIOUS
<1>7. \A x : x \in Flying(B, a) <=> x \in rest \/ x \in new
  <2>1. ASSUME NEW x \in Flying(B, a) PROVE x \in rest \/ x \in new
    <3>1. PICK i \in Ids : B[i] # Absent /\ a \in B[i].accounts /\ B[i].state = "active" /\ x = B[i]
      BY <1>2
    <3>2. CASE i = id
      BY <1>3, <3>1, <3>2
    <3>3. CASE i # id
      BY <1>3, <1>5, <3>1, <3>3
    <3>4. QED
      BY <3>2, <3>3
  <2>2. ASSUME NEW x \in rest PROVE x \in Flying(B, a)
    <3>1. PICK i \in Ids \ {id} : A[i] # Absent /\ a \in A[i].accounts /\ A[i].state = "active" /\ x = A[i]
      BY <1>5
    <3>2. B[i] = A[i]
      BY <1>3
    <3>3. QED
      BY <1>2, <3>1, <3>2
  <2>3. ASSUME NEW x \in new PROVE x \in Flying(B, a)
    <3>1. x = e /\ e.state = "active" /\ a \in e.accounts /\ B[id] = e
      BY <1>3
    <3>2. QED
      BY <1>2, <1>6, <3>1
  <2>4. QED
    BY <2>1, <2>2, <2>3
<1>8. e \notin rest
  BY <1>4, <1>5
<1>9. A[id] \in Flying(A, a) <=> A[id] # Absent /\ a \in A[id].accounts
  BY <1>1
<1>10. QED
  BY <1>7, <1>8, <1>9

\* The total of the calls in flight changes by the two receipts.
LEMMA FlyingTotal ==
  ASSUME NEW A, NEW B, NEW id, NEW e, Stores(A, B, id, e), NEW a, NEW line
  PROVE  Total(Flying(B, a), line) =
           Total(Flying(A, a), line)
             - (IF A[id] # Absent /\ a \in A[id].accounts THEN Contribution(A[id], line) ELSE 0)
             + (IF e.state = "active" /\ a \in e.accounts THEN Contribution(e, line) ELSE 0)
<1>0. PICK rest, new : /\ rest = Flying(A, a) \ {A[id]}
                       /\ new = IF e.state = "active" /\ a \in e.accounts THEN {e} ELSE {}
  OBVIOUS
<1> DEFINE out == IF A[id] # Absent /\ a \in A[id].accounts THEN {A[id]} ELSE {}
<1>1. /\ Flying(B, a) = rest \cup new /\ rest \cap new = {}
      /\ A[id] \in Flying(A, a) <=> A[id] # Absent /\ a \in A[id].accounts
  <2>1. /\ Flying(B, a) = (Flying(A, a) \ {A[id]})
                           \cup (IF e.state = "active" /\ a \in e.accounts THEN {e} ELSE {})
        /\ e \notin Flying(A, a) \ {A[id]}
        /\ A[id] \in Flying(A, a) <=> A[id] # Absent /\ a \in A[id].accounts
    BY FlyingReplaced
  <2>2. QED
    BY <1>0, <2>1
<1> USE DEF Stores
<1>2. Flying(A, a) \in SUBSET Receipt /\ IsFiniteSet(Flying(A, a))
  BY FlyingType
<1>3. out \in SUBSET Flying(A, a) /\ rest = Flying(A, a) \ out
  BY <1>0, <1>1
<1>4. rest \in SUBSET Receipt /\ IsFiniteSet(rest)
  BY <1>0, <1>2, FS_Subset
<1>5. new \in SUBSET Receipt /\ IsFiniteSet(new)
  BY <1>0, FS_Singleton, FS_EmptySet
<1>6. Total(new, line) = IF e.state = "active" /\ a \in e.accounts THEN Contribution(e, line) ELSE 0
  BY <1>0, TotalOne, TotalEmpty
<1>7. Total(out, line) = IF A[id] # Absent /\ a \in A[id].accounts THEN Contribution(A[id], line) ELSE 0
  BY TotalOne, TotalEmpty
<1> HIDE DEF out
<1>8. /\ Total(rest, line) = Total(Flying(A, a), line) - Total(out, line)
      /\ Total(Flying(A, a), line) \in Nat /\ Total(out, line) \in Nat
  BY <1>2, <1>3, TotalRemove
<1>9. /\ Total(rest \cup new, line) = Total(rest, line) + Total(new, line)
      /\ Total(rest, line) \in Nat /\ Total(new, line) \in Nat
  BY <1>1, <1>4, <1>5, TotalUnion
<1>10. Total(Flying(B, a), line) = Total(Flying(A, a), line) - Total(out, line) + Total(new, line)
  BY <1>1, <1>8, <1>9
<1>11. QED
  BY <1>6, <1>7, <1>10

\* Nothing is stored; what is due may be pruned.
LEMMA CounterKept ==
  ASSUME LedgerInv, ExpiryInv, CounterInv, UNCHANGED archive,
         \/ UNCHANGED <<counters, expiry>>
         \/ \E t \in Nat : counters' = PrunedCounters(t) /\ expiry' = expiry \ Due(t)
  PROVE  CounterInv'
<1>1. CASE UNCHANGED <<counters, expiry>>
  BY <1>1 DEF CounterInv
<1>2. ASSUME NEW t \in Nat, counters' = PrunedCounters(t), expiry' = expiry \ Due(t)
      PROVE  CounterInv'
  <2>1. counters' \in [CounterKeys -> [Lines -> Int]]
    BY <1>2, PrunedSums
  <2>2. \A a \in Accounts, line \in Lines : counters'[<<a, Active>>][line] = Total(Flying(archive, a), line)
    BY <1>2, PrunedSums DEF CounterInv
  <2>3. \A x \in CounterKeys : x[2] # Active => \A line \in Lines :
          counters'[x][line] = Total(Charged(expiry', archive, x[1], x[2]), line)
    BY <1>2, PrunedSums
  <2>4. \A k \in expiry' : \E w \in Windows :
          k.window = Key(w, archive[k.id].month) /\ k.at = WindowEnd(w, archive[k.id])
    BY <1>2 DEF CounterInv
  <2>5. QED
    BY <2>1, <2>2, <2>3, <2>4 DEF CounterInv
<1>3. QED
  BY <1>1, <1>2

\* The counters C are the sums over the history and the keys K.
Sums(C, K) ==
  /\ \A a \in Accounts, line \in Lines : C[<<a, Active>>][line] = Total(Flying(archive, a), line)
  /\ \A x \in CounterKeys : x[2] # Active => \A line \in Lines :
       C[x][line] = Total(Charged(K, archive, x[1], x[2]), line)

\* The counters C lose what the call held, and gain what its new receipt e adds to
\* the calls in flight or, with the keys N, to the windows.
Moves(id, e, C, K, N) ==
  /\ \E t : N = IF e.state = "active" THEN {} ELSE ExpiryKeys(e, t)
  /\ expiry' = K \cup N
  /\ counters' \in [CounterKeys -> [Lines -> Int]]
  /\ \A a \in Accounts, line \in Lines : counters'[<<a, Active>>][line] =
       C[<<a, Active>>][line]
         - (IF archive[id] # Absent /\ a \in archive[id].accounts THEN Contribution(archive[id], line) ELSE 0)
         + (IF e.state = "active" /\ a \in e.accounts THEN Contribution(e, line) ELSE 0)
  /\ \A x \in CounterKeys : x[2] # Active => \A line \in Lines :
       counters'[x][line] = C[x][line] + Total(Charged(N, archive', x[1], x[2]), line)

\* A receipt is stored and the counters follow.
LEMMA CounterStored ==
  ASSUME LedgerInv, ExpiryInv, CounterInv, NEW id, NEW e, Stores(archive, archive', id, e),
         NEW C, NEW K \in SUBSET expiry, Sums(C, K), NEW N, Moves(id, e, C, K, N)
  PROVE  CounterInv'
<1> USE DEF Sums, Moves
<1>1. /\ archive \in [Ids -> Receipt \cup {Absent}] /\ archive' = [archive EXCEPT ![id] = e]
      /\ id \in Ids /\ e \in Receipt /\ e.id = id
      /\ archive[id] = Absent \/ archive[id].state = "active"
      /\ Absent \notin Receipt
  BY DEF Stores
<1>2. archive' \in [Ids -> Receipt \cup {Absent}]
  BY <1>1
<1>3. \A k \in K : /\ k.id \in Ids /\ k.id # id /\ archive[k.id] \in Receipt
                   /\ archive'[k.id] = archive[k.id] /\ archive[k.id].id = k.id
  BY <1>1, ArchiveTypes
<1>4. \A k \in N : /\ k.id = id /\ archive'[k.id] = e
                   /\ \E w \in Windows : k.window = Key(w, e.month) /\ k.at = WindowEnd(w, e)
  BY <1>1 DEF ExpiryKeys
<1>5. \A k \in expiry' : \E w \in Windows :
        k.window = Key(w, archive'[k.id].month) /\ k.at = WindowEnd(w, archive'[k.id])
  BY <1>3, <1>4 DEF CounterInv
<1>6. ASSUME NEW a \in Accounts, NEW line \in Lines
      PROVE  counters'[<<a, Active>>][line] = Total(Flying(archive', a), line)
  BY FlyingTotal
<1>7. ASSUME NEW x \in CounterKeys, x[2] # Active, NEW line \in Lines
      PROVE  counters'[x][line] = Total(Charged(expiry', archive', x[1], x[2]), line)
  <2>1. Charged(K, archive', x[1], x[2]) = Charged(K, archive, x[1], x[2])
    BY <1>3 DEF Charged
  <2>2. PICK R : R = archive'
    OBVIOUS
  <2>3. /\ \A k \in K \cup N : k.id \in Ids /\ R[k.id] \in Receipt /\ R[k.id].id = k.id
        /\ \A k \in K, l \in N : k.account = l.account /\ k.window = l.window => k.id # l.id
        /\ R \in [Ids -> Receipt \cup {Absent}]
    BY <1>1, <1>2, <1>3, <1>4, <2>2
  <2>4. Total(Charged(K \cup N, R, x[1], x[2]), line) =
          Total(Charged(K, R, x[1], x[2]), line) + Total(Charged(N, R, x[1], x[2]), line)
    BY <2>3, ChargedSplit
  <2>5. counters'[x][line] = C[x][line] + Total(Charged(N, archive', x[1], x[2]), line)
    BY <1>7
  <2>6. C[x][line] = Total(Charged(K, archive, x[1], x[2]), line)
    BY <1>7
  <2>7. QED
    BY <2>1, <2>2, <2>4, <2>5, <2>6
<1>8. QED
  BY <1>5, <1>6, <1>7 DEF CounterInv

\* Open rebuilds every counter from the receipts.
LEMMA CounterRebuilt ==
  ASSUME LedgerInv, LedgerInv', ExpiryInv, ExpiryInv', CounterInv, OpenLedger
  PROVE  CounterInv'
<1> DEFINE keys == UNION {ExpiryKeys(Recovered[id], clock) : id \in Stored(receipts)}
<1>1. /\ expiry' = keys
      /\ counters' = [x \in CounterKeys |-> [line \in Lines |-> Total(Charged(keys, Recovered, x[1], x[2]), line)]]
      /\ \A i \in Ids : receipts'[i] \in {Absent, Recovered[i]}
      /\ Archive
  BY DEF OpenLedger, recoverQuota, CounterInv
<1>2. \A i \in Stored(receipts) : /\ Recovered[i] \in Receipt /\ Recovered[i].id = i
                                  /\ Recovered[i].state # "active"
  BY RecoveredReceipt
<1>3. \A i \in Ids : i \notin Stored(receipts) => Recovered[i] = Absent
  BY DEF Recovered, Stored
<1>4. \A k \in keys : \E i \in Stored(receipts) : k.id = i /\
        \E w \in Windows : k.window = Key(w, Recovered[i].month) /\ k.at = WindowEnd(w, Recovered[i])
  BY <1>2 DEF ExpiryKeys
<1>5. Recovered \in [Ids -> Receipt \cup {Absent}] /\ Stored(receipts) \subseteq Ids
  BY <1>2, <1>3 DEF Recovered, Stored
<1> HIDE DEF keys
<1>6. \A k \in keys : archive'[k.id] = Recovered[k.id] /\ k.id \in Ids /\ Recovered[k.id] \in Receipt
  <2>1. ASSUME NEW k \in keys PROVE archive'[k.id] = Recovered[k.id]
    <3>1. k.id \in Stored(receipts)' /\ archive'[k.id] = receipts'[k.id]
      BY <1>1 DEF ExpiryInv, KeysStand, ArchiveFollows
    <3>2. QED
      BY <1>1, <3>1 DEF Stored
  <2>2. QED
    BY <1>2, <1>4, <1>5, <2>1
<1>7. \A k \in expiry' : \E w \in Windows :
        k.window = Key(w, archive'[k.id].month) /\ k.at = WindowEnd(w, archive'[k.id])
  BY <1>1, <1>4, <1>6
<1>8. \A a, w : /\ Charged(keys, Recovered, a, w) = Charged(keys, archive', a, w)
                /\ Charged(keys, Recovered, a, w) \in SUBSET Receipt
                /\ IsFiniteSet(Charged(keys, Recovered, a, w))
  <2>1. \A a, w : Charged(keys, Recovered, a, w) = Charged(keys, archive', a, w)
    BY <1>6 DEF Charged
  <2>2. QED
    BY <1>5, <1>6, <2>1, ChargedType
<1>9. counters' \in [CounterKeys -> [Lines -> Int]]
  <2>1. \A x \in CounterKeys, line \in Lines : Total(Charged(keys, Recovered, x[1], x[2]), line) \in Nat
    BY <1>8, TotalRemove
  <2>2. QED
    BY <1>1, <2>1
<1>10. ASSUME NEW a \in Accounts, NEW line \in Lines
       PROVE  counters'[<<a, Active>>][line] = Total(Flying(archive', a), line)
  <2>1. Flying(archive', a) = {}
    <3>1. ASSUME NEW i \in Ids, archive'[i] # Absent PROVE archive'[i].state # "active"
      <4>1. CASE receipts'[i] = Absent
        BY <3>1, <4>1 DEF ExpiryInv, ArchiveFollows, Stored
      <4>2. CASE receipts'[i] # Absent
        BY <1>1, <1>2, <1>3, <3>1, <4>2 DEF Archive
      <4>3. QED
        BY <4>1, <4>2
    <3>2. QED
      BY <3>1 DEF Flying, Stored
  <2>2. Charged(keys, Recovered, a, Active) = {}
    BY <1>4, KeysDiffer DEF Charged
  <2>3. counters'[<<a, Active>>][line] = Total(Charged(keys, Recovered, a, Active), line)
    BY <1>1, CounterKeysHold
  <2>4. QED
    BY <2>1, <2>2, <2>3
<1>11. \A x \in CounterKeys : x[2] # Active => \A line \in Lines :
         counters'[x][line] = Total(Charged(expiry', archive', x[1], x[2]), line)
  BY <1>1, <1>8
<1>12. QED
  BY <1>7, <1>9, <1>10, <1>11 DEF CounterInv

\* The history after a receipt is stored over others that stay or are pruned.
LEMMA ArchiveStores ==
  ASSUME LedgerInv, ExpiryInv, NEW id \in Ids, NEW e \in Receipt, e.id = id, Archive,
         NEW R, R \in {receipts} \cup {PrunedReceipts(t) : t \in Nat},
         receipts' = [R EXCEPT ![id] = e],
         archive[id] = Absent \/ archive[id].state = "active"
  PROVE  Stores(archive, archive', id, e)
<1>1. /\ archive \in [Ids -> Receipt \cup {Absent}] /\ Absent \notin Receipt
      /\ receipts \in [Ids -> Receipt \cup {Absent}]
  BY ArchiveTypes, LedgerTypes
<1>2. R \in [Ids -> Receipt \cup {Absent}] /\ \A i \in Ids : R[i] \in {receipts[i], Absent}
  BY <1>1 DEF PrunedReceipts
<1>3. \A i \in Ids : archive'[i] = IF i = id THEN e ELSE archive[i]
  BY <1>1, <1>2, ArchiveTypes DEF Archive, Stored
<1>4. archive' = [archive EXCEPT ![id] = e]
  <2>1. archive' = [i \in Ids |-> archive'[i]]
    BY DEF Archive
  <2>2. QED
    BY <1>1, <1>3, <2>1
<1>5. \A i \in Stored(archive) : archive[i].state = "active" => archive[i].id = i
  BY ArchiveTypes
<1>6. QED
  BY <1>1, <1>4, <1>5 DEF Stores

\* An admission prunes and holds its bound in flight.
LEMMA CounterReserved ==
  ASSUME LedgerInv, ExpiryInv, CounterInv, NEW id \in Ids, NEW payload \in Payloads,
         NEW policy \in Policies, NEW bound \in Bounds, NEW recovery \in Settlements,
         NEW now \in Times, Fresh(id),
         ReserveWithQuotaRecovery(id, payload, policy, bound, recovery, now)
  PROVE  CounterInv'
<1> DEFINE t == logicalLimitTime(now)
           entry == [id |-> id, at |-> t, month |-> MonthStart(t, zone),
                     accounts |-> DOMAIN policy, bound |-> bound, state |-> "active",
                     actual |-> Unsettled, recovery |-> recovery, digest |-> Nil,
                     overrun |-> FALSE]
<1>1. /\ version = 2 /\ Archive
      /\ receipts' = [PrunedReceipts(t) EXCEPT ![id] = entry] /\ expiry' = expiry \ Due(t)
      /\ counters' = [x \in DOMAIN counters |-> [line \in Lines |->
                        PrunedCounters(t)[x][line]
                          + IF x[1] \in DOMAIN policy /\ x[2] = Active
                            THEN Contribution(entry, line) ELSE 0]]
  BY DEF ReserveWithQuotaRecovery
<1>2. t \in Nat /\ zone \in Zones
  BY <1>1, ClockAdvances DEF LedgerInv, LedgerTypeOK, Inv, QueueTypeOK
<1>3. entry \in Receipt /\ entry.id = id /\ entry.state = "active" /\ entry.accounts = DOMAIN policy
  BY <1>2, NewReceipt
<1> HIDE DEF t, entry
<1>4. archive[id] = Absent
  BY DEF Fresh, LedgerInv, ArchivedAdmitted, Stored
<1>5. Stores(archive, archive', id, entry)
  <2>1. PICK R : R = PrunedReceipts(t)
    OBVIOUS
  <2>2. R \in {receipts} \cup {PrunedReceipts(u) : u \in Nat} /\ receipts' = [R EXCEPT ![id] = entry]
    BY <1>1, <1>2, <2>1
  <2>3. QED
    BY <1>1, <1>3, <1>4, <2>2, ArchiveStores
<1>6. PICK C, K, N : /\ C = PrunedCounters(t) /\ K = expiry \ Due(t) /\ N = {}
  OBVIOUS
<1>7. /\ \A a \in Accounts, line \in Lines : C[<<a, Active>>][line] = Total(Flying(archive, a), line)
      /\ \A x \in CounterKeys : x[2] # Active => \A line \in Lines :
           C[x][line] = Total(Charged(K, archive, x[1], x[2]), line)
      /\ \A x \in CounterKeys, line \in Lines : C[x][line] \in Nat
  BY <1>2, <1>6, PrunedSums DEF CounterInv
<1>8. counters' = [x \in CounterKeys |-> [line \in Lines |->
                     C[x][line] + IF x[1] \in DOMAIN policy /\ x[2] = Active
                                  THEN Contribution(entry, line) ELSE 0]]
  BY <1>1, <1>6 DEF CounterInv
<1>9. \A line : Contribution(entry, line) \in Nat
  BY <1>3, AmountType
<1>10. counters' \in [CounterKeys -> [Lines -> Int]]
  BY <1>7, <1>8, <1>9
<1>11. \A a \in Accounts, line \in Lines : counters'[<<a, Active>>][line] =
         C[<<a, Active>>][line]
           - (IF archive[id] # Absent /\ a \in archive[id].accounts THEN Contribution(archive[id], line) ELSE 0)
           + (IF entry.state = "active" /\ a \in entry.accounts THEN Contribution(entry, line) ELSE 0)
  <2>1. ASSUME NEW a \in Accounts, NEW line \in Lines
        PROVE  /\ counters'[<<a, Active>>][line] =
                    C[<<a, Active>>][line] + (IF a \in DOMAIN policy THEN Contribution(entry, line) ELSE 0)
               /\ C[<<a, Active>>][line] \in Nat
    BY <1>7, <1>8, CounterKeysHold
  <2>2. QED
    BY <1>3, <1>4, <1>9, <2>1
<1>12. \A x \in CounterKeys : x[2] # Active => \A line \in Lines :
         counters'[x][line] = C[x][line] + Total(Charged(N, archive', x[1], x[2]), line)
  <2>1. \A x : Charged(N, archive', x[1], x[2]) = {}
    BY <1>6 DEF Charged
  <2>2. QED
    BY <1>7, <1>8, <2>1, TotalEmpty
<1>13. /\ K \in SUBSET expiry /\ expiry' = K \cup N
       /\ N = IF entry.state = "active" THEN {} ELSE ExpiryKeys(entry, t)
  BY <1>1, <1>3, <1>6
<1>14. Sums(C, K) /\ Moves(id, entry, C, K, N)
  BY <1>7, <1>10, <1>11, <1>12, <1>13 DEF Sums, Moves
<1>15. QED
  BY <1>5, <1>13, <1>14, CounterStored

\* Recovery evidence is not charged before it is used.
LEMMA CounterUpdated ==
  ASSUME LedgerInv, ExpiryInv, CounterInv, NEW id \in Ids, NEW payload \in Payloads,
         NEW s \in Settlements, UpdatePendingQuota(id, payload, s)
  PROVE  CounterInv'
<1> DEFINE old == receipts[id]
           entry == [old EXCEPT !.recovery = s]
<1>1. /\ old # Absent /\ old.state = "active"
      /\ receipts' = [receipts EXCEPT ![id] = entry] /\ Archive /\ UNCHANGED <<expiry, counters>>
  BY DEF UpdatePendingQuota
<1>2. old \in Receipt /\ old.id = id /\ archive[id] = old
  BY <1>1, ArchiveTypes, LedgerTypes DEF Stored
<1>3. /\ entry \in Receipt /\ entry.id = id /\ entry.state = "active"
      /\ entry.accounts = old.accounts /\ entry.actual = old.actual /\ entry.bound = old.bound
  BY <1>1, <1>2 DEF Receipt
<1> HIDE DEF entry
<1>4. \A line : Contribution(entry, line) = Contribution(old, line)
  BY <1>1, <1>3 DEF Contribution, Line, Amount, Currency
<1>5. Stores(archive, archive', id, entry)
  BY <1>1, <1>2, <1>3, ArchiveStores
<1>6. PICK N : N = {}
  OBVIOUS
<1>7. /\ \A a \in Accounts, line \in Lines : counters[<<a, Active>>][line] = Total(Flying(archive, a), line)
      /\ \A x \in CounterKeys : x[2] # Active => \A line \in Lines :
           counters[x][line] = Total(Charged(expiry, archive, x[1], x[2]), line)
      /\ counters' \in [CounterKeys -> [Lines -> Int]]
      /\ \A x \in CounterKeys, line \in Lines : counters[x][line] \in Int
  BY <1>1 DEF CounterInv
<1>8. \A a \in Accounts, line \in Lines : counters'[<<a, Active>>][line] =
         counters[<<a, Active>>][line]
           - (IF archive[id] # Absent /\ a \in archive[id].accounts THEN Contribution(archive[id], line) ELSE 0)
           + (IF entry.state = "active" /\ a \in entry.accounts THEN Contribution(entry, line) ELSE 0)
  <2>1. \A line : Contribution(old, line) \in Nat
    BY <1>2, AmountType
  <2>2. \A a \in Accounts, line \in Lines :
          counters'[<<a, Active>>][line] = counters[<<a, Active>>][line] /\ counters[<<a, Active>>][line] \in Int
    BY <1>1, <1>7, CounterKeysHold
  <2>3. QED
    BY <1>1, <1>2, <1>3, <1>4, <2>1, <2>2
<1>9. ASSUME NEW x \in CounterKeys, NEW line \in Lines
      PROVE  counters'[x][line] = counters[x][line] + Total(Charged(N, archive', x[1], x[2]), line)
  <2>1. Charged(N, archive', x[1], x[2]) = {}
    BY <1>6 DEF Charged
  <2>2. Total(Charged(N, archive', x[1], x[2]), line) = 0
    BY <2>1, TotalEmpty
  <2>3. QED
    BY <1>1, <1>7, <2>2
<1>10. PICK C, K, t : C = counters /\ K = expiry /\ t = 0
  OBVIOUS
<1>11. Sums(C, K)
  BY <1>7, <1>10 DEF Sums
<1>12. /\ N = IF entry.state = "active" THEN {} ELSE ExpiryKeys(entry, t)
       /\ K \in SUBSET expiry /\ expiry' = K \cup N
  BY <1>1, <1>3, <1>6, <1>10
<1>13. Moves(id, entry, C, K, N)
  BY <1>7, <1>8, <1>9, <1>10, <1>12 DEF Moves
<1>14. QED
  BY <1>5, <1>11, <1>12, <1>13, CounterStored

\* A settlement moves a call from the calls in flight to its windows.
LEMMA CounterSettled ==
  ASSUME LedgerInv, ExpiryInv, CounterInv, NEW id \in Ids, NEW payload \in Payloads,
         NEW actual \in Settlements, NEW now \in Times, CompleteQuota(id, payload, actual, now)
  PROVE  CounterInv'
<1> DEFINE t == logicalLimitTime(now)
           old == receipts[id]
           entry == [old EXCEPT !.state = "complete", !.actual = actual, !.recovery = Unsettled,
                                !.digest = quotaSettlementDigest(actual, payload),
                                !.overrun = Overruns(old.bound, actual)]
           N == ExpiryKeys(entry, t)
           R == [receipts EXCEPT ![id] = entry]
<1>1. /\ old # Absent /\ old.state = "active" /\ Archive
      /\ receipts' = R /\ expiry' = expiry \cup N
      /\ counters' = [x \in DOMAIN counters |-> [line \in Lines |->
           counters[x][line]
             - (IF x[1] \in old.accounts /\ x[2] = Active THEN Contribution(old, line) ELSE 0)
             + Total(Charged(N, R, x[1], x[2]), line)]]
  BY DEF CompleteQuota
<1>2. old \in Receipt /\ old.id = id /\ archive[id] = old
  BY <1>1, ArchiveTypes, LedgerTypes DEF Stored
<1>3. entry \in Receipt /\ entry.id = id /\ entry.state = "complete"
  <2>1. Overruns(old.bound, actual) \in BOOLEAN /\ Unsettled \in Settlements
    BY LedgerAssumption DEF Overruns
  <2>2. QED
    BY <1>2, <2>1 DEF Receipt, quotaSettlementDigest
<1> HIDE DEF entry
<1>4. Stores(archive, archive', id, entry)
  BY <1>1, <1>2, <1>3, ArchiveStores
<1>5. R[id] = entry /\ archive'[id] = entry
  BY <1>3, <1>4, LedgerTypes DEF Stores
<1>6. \A k \in N : /\ k.id = id /\ k.window # Active
  BY <1>3, KeysDiffer DEF ExpiryKeys
<1> HIDE DEF N, R, t, old
<1>7. /\ \A x : Charged(N, R, x[1], x[2]) = Charged(N, archive', x[1], x[2])
      /\ \A a : Charged(N, R, a, Active) = {}
  BY <1>5, <1>6 DEF Charged
<1>8. \A a, w, line : Total(Charged(N, R, a, w), line) \in Nat
  <2>1. \A a, w : Charged(N, R, a, w) \subseteq {entry}
    BY <1>5, <1>6 DEF Charged
  <2>2. IsFiniteSet({entry}) /\ {entry} \in SUBSET Receipt
    BY <1>3, FS_Singleton
  <2>3. QED
    BY <1>7, <2>1, <2>2, TotalRemove
<1>9. \A line : Contribution(old, line) \in Nat
  BY <1>2, AmountType
<1>10. /\ \A a \in Accounts, line \in Lines : counters[<<a, Active>>][line] = Total(Flying(archive, a), line)
       /\ \A x \in CounterKeys : x[2] # Active => \A line \in Lines :
            counters[x][line] = Total(Charged(expiry, archive, x[1], x[2]), line)
       /\ \A x \in CounterKeys, line \in Lines : counters[x][line] \in Int
  BY DEF CounterInv
<1>11. counters' = [x \in CounterKeys |-> [line \in Lines |->
           counters[x][line]
             - (IF x[1] \in old.accounts /\ x[2] = Active THEN Contribution(old, line) ELSE 0)
             + Total(Charged(N, R, x[1], x[2]), line)]]
  BY <1>1 DEF CounterInv
<1>12. counters' \in [CounterKeys -> [Lines -> Int]]
  <2>1. ASSUME NEW x \in CounterKeys, NEW line \in Lines
        PROVE  /\ counters[x][line] \in Int
               /\ Total(Charged(N, R, x[1], x[2]), line) \in Int
               /\ Contribution(old, line) \in Int
    <3>1. Total(Charged(N, R, x[1], x[2]), line) \in Nat
      BY <1>8
    <3>2. QED
      BY <1>9, <1>10, <3>1
  <2>2. QED
    BY <1>11, <2>1
<1>13. \A a \in Accounts, line \in Lines : counters'[<<a, Active>>][line] =
         counters[<<a, Active>>][line]
           - (IF archive[id] # Absent /\ a \in archive[id].accounts THEN Contribution(archive[id], line) ELSE 0)
           + (IF entry.state = "active" /\ a \in entry.accounts THEN Contribution(entry, line) ELSE 0)
  <2>1. ASSUME NEW a \in Accounts, NEW line \in Lines
        PROVE  /\ counters'[<<a, Active>>][line] =
                    counters[<<a, Active>>][line]
                      - (IF a \in old.accounts THEN Contribution(old, line) ELSE 0)
                      + Total(Charged(N, R, a, Active), line)
               /\ counters[<<a, Active>>][line] \in Int
    BY <1>10, <1>11, CounterKeysHold
  <2>2. ASSUME NEW a, NEW line PROVE Total(Charged(N, R, a, Active), line) = 0
    BY <1>7, TotalEmpty
  <2>3. QED
    BY <1>1, <1>2, <1>3, <1>9, <2>1, <2>2
<1>14. ASSUME NEW x \in CounterKeys, x[2] # Active, NEW line \in Lines
       PROVE  counters'[x][line] = counters[x][line] + Total(Charged(N, archive', x[1], x[2]), line)
  <2>1. counters[x][line] \in Int /\ Total(Charged(N, R, x[1], x[2]), line) \in Int
    <3>1. Total(Charged(N, R, x[1], x[2]), line) \in Nat
      BY <1>8
    <3>2. QED
      BY <1>10, <3>1
  <2>2. counters'[x][line] = counters[x][line] - 0 + Total(Charged(N, R, x[1], x[2]), line)
    BY <1>11, <1>14
  <2>3. Total(Charged(N, R, x[1], x[2]), line) = Total(Charged(N, archive', x[1], x[2]), line)
    <3>1. Charged(N, R, x[1], x[2]) = Charged(N, archive', x[1], x[2])
      BY <1>7
    <3>2. QED
      BY <3>1
  <2>4. QED
    BY <2>1, <2>2, <2>3
<1>15. PICK C, K : C = counters /\ K = expiry
  OBVIOUS
<1>16. Sums(C, K) /\ K \in SUBSET expiry
  BY <1>10, <1>15 DEF Sums
<1>17. /\ N = IF entry.state = "active" THEN {} ELSE ExpiryKeys(entry, t)
       /\ expiry' = K \cup N
  BY <1>1, <1>3, <1>15 DEF N
<1>18. Moves(id, entry, C, K, N)
  BY <1>12, <1>13, <1>14, <1>15, <1>17 DEF Moves
<1>19. QED
  BY <1>4, <1>16, <1>18, CounterStored

LEMMA CounterNext ==
  ASSUME LedgerInv, LedgerInv', ExpiryInv, ExpiryInv', CounterInv, [Next]_vars
  PROVE  CounterInv'
<1>1. ASSUME UNCHANGED quotaVars PROVE CounterInv'
  BY <1>1, CounterKept DEF quotaVars
<1>2. ASSUME NEW id \in Ids, NEW payload \in Payloads,
             \/ LegacyReserve(id, payload)
             \/ \E policy \in Policies, now \in Times : LegacyReserveWithLimits(id, payload, policy, now)
             \/ LegacyUpdatePending(id, payload)
             \/ LegacyComplete(id, payload)
      PROVE  CounterInv'
  BY <1>1, <1>2 DEF LegacyReserve, LegacyReserveWithLimits, LegacyUpdatePending, LegacyComplete
<1>3. ASSUME NEW now \in Times,
             \/ AccountQuotaUsage(now)
             \/ \E id \in Ids, policy \in Policies, bound \in Bounds, z \in Zones :
                  PreflightWithQuota(id, policy, bound, z, now)
             \/ \E z \in Zones : EnableQuota(z, now)
      PROVE  CounterInv'
  <2>1. logicalLimitTime(now) \in Nat /\ UNCHANGED archive
    BY <1>3, ClockAdvances, LedgerTypes DEF AccountQuotaUsage, PreflightWithQuota, EnableQuota
  <2>2. \/ UNCHANGED <<counters, expiry>>
        \/ /\ counters' = PrunedCounters(logicalLimitTime(now))
           /\ expiry' = expiry \ Due(logicalLimitTime(now))
    BY <1>3 DEF AccountQuotaUsage, PreflightWithQuota, EnableQuota, pruneQuota, ledger
  <2>3. QED
    BY <2>1, <2>2, CounterKept
<1>4. ASSUME NEW id \in Ids, NEW payload \in Payloads, NEW policy \in Policies,
             NEW bound \in Bounds, NEW recovery \in Settlements, NEW now \in Times, Fresh(id),
             ReserveWithQuotaRecovery(id, payload, policy, bound, recovery, now)
      PROVE  CounterInv'
  BY <1>4, CounterReserved
<1>5. ASSUME NEW id \in Ids, NEW payload \in Payloads, NEW s \in Settlements,
             \/ UpdatePendingQuota(id, payload, s)
             \/ \E now \in Times : CompleteQuota(id, payload, s, now)
      PROVE  CounterInv'
  BY <1>5, CounterUpdated, CounterSettled
<1>6. CASE OpenLedger
  BY <1>6, CounterRebuilt
<1>7. CASE UNCHANGED vars
  BY <1>1, <1>7 DEF vars, quotaVars
<1>8. CASE Next
  BY <1>1, <1>2, <1>3, <1>4, <1>5, <1>6, <1>8 DEF Next
<1>9. QED
  BY <1>7, <1>8

LEMMA CounterInvariance == Spec => []CounterInv
<1>1. Init => CounterInv
  <2> SUFFICES ASSUME Init PROVE CounterInv
    OBVIOUS
  <2>1. expiry = {} /\ Stored(archive) = {} /\ counters = [x \in CounterKeys |-> [line \in Lines |-> 0]]
    BY DEF Init, Stored, Zero
  <2>2. \A a : Flying(archive, a) = {}
    BY <2>1 DEF Flying
  <2>3. \A a, w : Charged(expiry, archive, a, w) = {}
    BY <2>1 DEF Charged
  <2>4. \A x \in CounterKeys, line \in Lines : counters[x][line] = 0
    BY <2>1
  <2>5. \A a, line : Total(Flying(archive, a), line) = 0
    BY <2>2, TotalEmpty
  <2>6. \A a, w, line : Total(Charged(expiry, archive, a, w), line) = 0
    BY <2>3, TotalEmpty
  <2>7. counters \in [CounterKeys -> [Lines -> Int]]
    BY <2>1
  <2>8. QED
    BY <2>1, <2>4, <2>5, <2>6, <2>7, CounterKeysHold DEF CounterInv
<1>2. LedgerInv /\ LedgerInv' /\ ExpiryInv /\ ExpiryInv' /\ CounterInv /\ [Next]_vars => CounterInv'
  BY CounterNext
<1>3. QED
  BY <1>1, <1>2, LedgerInvariance, ExpiryInvariance, PTL DEF Spec

\* Each counter is the sum over the calls that belong in it, kept incrementally or
\* rebuilt (projectTerminalQuota, pruneQuota, recoverQuota), no settled call has left
\* a window before its end, and at every coming instant both prunings succeed.
THEOREM CountersTrue == Spec => []CountersAreProjections
<1>1. ASSUME LedgerInv, ExpiryInv, CounterInv, \A instant \in Nat : KeysReadable(instant)
      PROVE  CountersAreProjections
  <2>1. \A a : {archive[id] : id \in {i \in Account(a) : archive[i].state = "active"}} = Flying(archive, a)
    BY DEF Account, Flying
  <2>2. ASSUME NEW now \in Times
        PROVE  CanPrune(logicalLimitTime(now)) /\ CanPruneQuota(logicalLimitTime(now))
    <3>1. PICK t \in Nat : t = logicalLimitTime(now)
      BY <1>1, LedgerTypes, ClockAdvances
    <3>2. CanPrune(t)
      <4>1. PrunedCount(t) \in [Accounts -> Nat] /\ PrunedSequence(t) \in Nat
        BY <1>1, PrunedFacts DEF LedgerInv
      <4>2. QED
        BY <4>1 DEF CanPrune
    <3>3. CanPruneQuota(t)
      <4>1. DOMAIN counters = CounterKeys
        BY <1>1 DEF CounterInv
      <4>2. \A x \in CounterKeys : \A line \in Lines : PrunedCounters(t)[x][line] \in Nat
        BY <1>1, PrunedSums
      <4>3. \A n \in Nat : n >= 0
        OBVIOUS
      <4>4. QED
        BY <1>1, <4>1, <4>2, <4>3 DEF CanPruneQuota
    <3>4. QED
      BY <3>1, <3>2, <3>3
  <2>3. QED
    BY <1>1, <2>1, <2>2 DEF CountersAreProjections, CounterInv, ExpiryInv
<1>2. LedgerInv /\ ExpiryInv /\ CounterInv /\ (UsageKept /\ \A instant \in Nat : KeysReadable(instant))
        => CountersAreProjections
  BY <1>1
<1>3. QED
  BY <1>2, LedgerInvariance, ExpiryInvariance, CounterInvariance, UsageIsKept, PTL

-----------------------------------------------------------------------------
(* No admission takes an account over a hard ceiling.                      *)

\* The stored clock is a reading, or was never written.
ClockRead == clock \in Times \cup {0}

LEMMA InstantRead ==
  ASSUME ClockRead, NEW now \in Times
  PROVE  logicalLimitTime(now) \in Times
BY QueueAssumption DEF ClockRead, logicalLimitTime

LEMMA ClockInvariance == Spec => []ClockRead
<1>1. Init => ClockRead
  BY DEF Init, QueueInit, ClockRead
<1>2. ASSUME ClockRead, [Next]_vars PROVE ClockRead'
  <2>1. clock' = clock \/ \E now \in Times : clock' = logicalLimitTime(now)
    <3>1. CASE UNCHANGED vars
      BY <3>1 DEF vars
    <3>2. CASE OpenLedger
      BY <3>2 DEF OpenLedger, initLimits
    <3>3. ASSUME NEW id \in Ids, NEW payload \in Payloads,
                 \/ LegacyReserve(id, payload)
                 \/ \E policy \in Policies, now \in Times : LegacyReserveWithLimits(id, payload, policy, now)
                 \/ LegacyUpdatePending(id, payload)
                 \/ LegacyComplete(id, payload)
          PROVE  clock' = clock \/ \E now \in Times : clock' = logicalLimitTime(now)
      BY <3>3 DEF LegacyReserve, LegacyReserveWithLimits, LegacyUpdatePending, LegacyComplete,
         Reserve, ReserveWithLimits, applyLimitAdmission, UpdatePending, Complete, limits
    <3>4. ASSUME NEW id \in Ids, NEW payload \in Payloads, NEW policy \in Policies,
                 NEW bound \in Bounds, NEW recovery \in Settlements, NEW now \in Times,
                 ReserveWithQuotaRecovery(id, payload, policy, bound, recovery, now)
          PROVE  clock' = logicalLimitTime(now)
      BY <3>4 DEF ReserveWithQuotaRecovery, applyLimitAdmission
    <3>5. ASSUME NEW id \in Ids, NEW payload \in Payloads, NEW s \in Settlements,
                 \/ UpdatePendingQuota(id, payload, s)
                 \/ \E now \in Times : CompleteQuota(id, payload, s, now)
          PROVE  clock' = clock \/ \E now \in Times : clock' = logicalLimitTime(now)
      BY <3>5 DEF UpdatePendingQuota, CompleteQuota, limits
    <3>6. ASSUME NEW now \in Times,
                 \/ AccountUsage(now)
                 \/ AccountQuotaUsage(now)
                 \/ \E id \in Ids, policy \in Policies, bound \in Bounds, z \in Zones :
                      PreflightWithQuota(id, policy, bound, z, now)
                 \/ \E z \in Zones : EnableQuota(z, now)
          PROVE  clock' = logicalLimitTime(now)
      BY <3>6 DEF AccountUsage, AccountQuotaUsage, PreflightWithQuota, EnableQuota
    <3>7. ASSUME NEW id \in Ids, Ack(id) PROVE clock' = clock
      BY <3>7 DEF Ack, limits
    <3>8. CASE Next
      BY <3>2, <3>3, <3>4, <3>5, <3>6, <3>7, <3>8 DEF Next
    <3>9. QED
      BY <1>2, <3>1, <3>8
  <2>2. QED
    BY <1>2, <2>1, InstantRead DEF ClockRead
<1>3. ClockRead /\ [Next]_vars => ClockRead'
  BY <1>2
<1>4. QED
  BY <1>1, <1>3, PTL DEF Spec

\* What is charged for a set of receipts, as sums of weights.
TokenWeight == [e \in Receipt |-> TokenCharge(e)]
MoneyWeight == [e \in Receipt |-> MoneyCharge(e)]

LEMMA TokensAreSum ==
  ASSUME NEW S \in SUBSET Receipt, IsFiniteSet(S)
  PROVE  MapThenSumSet(TokenCharge, S) = SumOf(TokenWeight, S)
<1> DEFINE P(it) == it = [s \in SUBSET S |->
              IF s = {} THEN 0
              ELSE TokenCharge(CHOOSE x \in s : TRUE) + it[s \ {CHOOSE x \in s : TRUE}]]
<1>1. \A it : P(it) <=> Folded(it, TokenWeight, SUBSET S)
  BY PickIn DEF Folded, TokenWeight, Pick
<1>2. MapThenSumSet(TokenCharge, S) = (CHOOSE it : P(it))[S]
  BY DEF MapThenSumSet, MapThenFoldSet
<1>3. \E it : P(it)
  <2>1. PICK it : Folded(it, TokenWeight, SUBSET S)
    BY FoldExists
  <2>2. P(it)
    BY <1>1, <2>1
  <2> HIDE DEF P
  <2>3. QED
    BY <2>2
<1>4. P(CHOOSE it : P(it))
  <2> HIDE DEF P
  <2>1. QED
    BY <1>3
<1>5. QED
  BY <1>1, <1>2, <1>4, SumFold

LEMMA MoneyIsSum ==
  ASSUME NEW S \in SUBSET Receipt, IsFiniteSet(S)
  PROVE  MapThenSumSet(MoneyCharge, S) = SumOf(MoneyWeight, S)
<1> DEFINE P(it) == it = [s \in SUBSET S |->
              IF s = {} THEN 0
              ELSE MoneyCharge(CHOOSE x \in s : TRUE) + it[s \ {CHOOSE x \in s : TRUE}]]
<1>1. \A it : P(it) <=> Folded(it, MoneyWeight, SUBSET S)
  BY PickIn DEF Folded, MoneyWeight, Pick
<1>2. MapThenSumSet(MoneyCharge, S) = (CHOOSE it : P(it))[S]
  BY DEF MapThenSumSet, MapThenFoldSet
<1>3. \E it : P(it)
  <2>1. PICK it : Folded(it, MoneyWeight, SUBSET S)
    BY FoldExists
  <2>2. P(it)
    BY <1>1, <2>1
  <2> HIDE DEF P
  <2>3. QED
    BY <2>2
<1>4. P(CHOOSE it : P(it))
  <2> HIDE DEF P
  <2>1. QED
    BY <1>3
<1>5. QED
  BY <1>1, <1>2, <1>4, SumFold

\* A total of 0 has no contribution.
LEMMA NoContribution ==
  ASSUME NEW S \in SUBSET Receipt, IsFiniteSet(S), NEW line, Total(S, line) = 0, NEW e \in S
  PROVE  Contribution(e, line) = 0
<1>1. \A x \in S : Weight(line)[x] = Contribution(x, line) /\ Weight(line)[x] \in Nat
  BY WeightType
<1>2. Weight(line)[e] <= SumOf(Weight(line), S)
  BY <1>1, SumMember
<1>3. SumOf(Weight(line), S) = 0
  BY TotalIsSum
<1>4. QED
  BY <1>1, <1>2, <1>3

\* Weights that the two lines of a unit cover are within the totals of the lines.
LEMMA WeightsWithin ==
  ASSUME NEW S \in SUBSET Receipt, IsFiniteSet(S), NEW u, NEW h,
         \A e \in S : /\ h[e] \in Nat
                      /\ h[e] <= Contribution(e, <<u, "used">>) + Contribution(e, <<u, "held">>)
  PROVE  /\ SumOf(h, S) <= Total(S, <<u, "used">>) + Total(S, <<u, "held">>)
         /\ SumOf(h, S) \in Nat
         /\ Total(S, <<u, "used">>) \in Nat /\ Total(S, <<u, "held">>) \in Nat
<1>1. PICK f, g : f = Weight(<<u, "used">>) /\ g = Weight(<<u, "held">>)
  OBVIOUS
<1>2. \A e \in S : f[e] \in Nat /\ g[e] \in Nat /\ h[e] \in Nat /\ h[e] <= f[e] + g[e]
  BY <1>1, WeightType
<1>3. SumOf(h, S) <= SumOf(f, S) + SumOf(g, S)
  BY <1>2, SumBound
<1>4. SumOf(h, S) \in Nat /\ SumOf(f, S) \in Nat /\ SumOf(g, S) \in Nat
  BY <1>2, SumType
<1>5. SumOf(f, S) = Total(S, <<u, "used">>) /\ SumOf(g, S) = Total(S, <<u, "held">>)
  BY <1>1, TotalIsSum
<1>6. QED
  BY <1>3, <1>4, <1>5

\* One receipt, the calls in flight and the settled ones: their weight is within
\* what the two lines of a unit hold of them.
LEMMA WeightsTogether ==
  ASSUME NEW F \in SUBSET Receipt, NEW G \in SUBSET Receipt, NEW e \in Receipt,
         IsFiniteSet(F), IsFiniteSet(G), F \cap G = {}, e \notin F \cup G,
         NEW S \in SUBSET (F \cup G \cup {e}), NEW u, NEW h, h[e] \in Nat,
         \A x \in F \cup G : /\ h[x] \in Nat
                             /\ h[x] <= Contribution(x, <<u, "used">>) + Contribution(x, <<u, "held">>)
  PROVE  /\ SumOf(h, S) <= Total(G, <<u, "used">>) + Total(G, <<u, "held">>)
                            + (Total(F, <<u, "used">>) + Total(F, <<u, "held">>)) + h[e]
         /\ SumOf(h, S) \in Nat
<1>1. IsFiniteSet(F \cup G) /\ IsFiniteSet(F \cup G \cup {e})
  BY FS_Union, FS_AddElement
<1>2. \A x \in F \cup G \cup {e} : h[x] \in Nat
  OBVIOUS
<1>3. SumOf(h, F \cup G) = SumOf(h, F) + SumOf(h, G)
  BY <1>2, SumUnion
<1>4. SumOf(h, F \cup G \cup {e}) = h[e] + SumOf(h, F \cup G)
  <2>1. PICK T : T = F \cup G \cup {e}
    OBVIOUS
  <2>2. IsFiniteSet(T) /\ e \in T /\ (\A x \in T : h[x] \in Int) /\ T \ {e} = F \cup G
    BY <1>1, <1>2, <2>1
  <2>3. SumOf(h, T) = h[e] + SumOf(h, T \ {e})
    BY <2>2, SumSplit
  <2>4. QED
    BY <2>1, <2>2, <2>3
<1>5. SumOf(h, S) <= SumOf(h, F \cup G \cup {e})
  BY <1>1, <1>2, SumSubset
<1>6. SumOf(h, S) \in Nat
  <2>1. IsFiniteSet(S)
    BY <1>1, FS_Subset
  <2>2. QED
    BY <1>2, <2>1, SumType
<1>7. /\ SumOf(h, F) <= Total(F, <<u, "used">>) + Total(F, <<u, "held">>) /\ SumOf(h, F) \in Nat
      /\ Total(F, <<u, "used">>) \in Nat /\ Total(F, <<u, "held">>) \in Nat
  BY WeightsWithin
<1>8. /\ SumOf(h, G) <= Total(G, <<u, "used">>) + Total(G, <<u, "held">>) /\ SumOf(h, G) \in Nat
      /\ Total(G, <<u, "used">>) \in Nat /\ Total(G, <<u, "held">>) \in Nat
  BY WeightsWithin
<1>9. QED
  BY <1>3, <1>4, <1>5, <1>6, <1>7, <1>8

\* A receipt without unknown tokens is covered by the lines of the tokens.
LEMMA TokensCovered ==
  ASSUME NEW e \in Receipt, Contribution(e, <<"tokens", "unknown">>) = 0
  PROVE  /\ Line(e, "tokens", e.actual.tokens, e.bound.tokens)[2] # "unknown"
         /\ TokenCharge(e) <= Contribution(e, <<"tokens", "used">>) + Contribution(e, <<"tokens", "held">>)
<1>1. TokenCharge(e) \in Nat /\ MoneyCharge(e) \in Nat
  BY AmountType
<1>2. \A line : Contribution(e, line) =
          (IF line = Line(e, "tokens", e.actual.tokens, e.bound.tokens) THEN TokenCharge(e) ELSE 0)
          + (IF line = Line(e, Currency(e), e.actual.money, e.bound.money) THEN MoneyCharge(e) ELSE 0)
  BY DEF Contribution, TokenCharge, MoneyCharge
<1>3. Line(e, "tokens", e.actual.tokens, e.bound.tokens) # <<"tokens", "unknown">>
  <2>1. SUFFICES ASSUME Line(e, "tokens", e.actual.tokens, e.bound.tokens) = <<"tokens", "unknown">>
                 PROVE  FALSE
    OBVIOUS
  <2>2. TokenCharge(e) = 1
    BY <2>1 DEF Line, TokenCharge, Amount
  <2>3. QED
    BY <1>1, <1>2, <2>1, <2>2
<1>4. Line(e, "tokens", e.actual.tokens, e.bound.tokens) \in {<<"tokens", "used">>, <<"tokens", "held">>}
  BY <1>3 DEF Line
<1>5. \A line : Contribution(e, line) \in Nat
  BY AmountType
<1>6. \A line : line = Line(e, "tokens", e.actual.tokens, e.bound.tokens) => Contribution(e, line) >= TokenCharge(e)
  BY <1>1, <1>2
<1>7. QED
  BY <1>1, <1>4, <1>5, <1>6

\* A receipt without unknown money, and nothing in other currencies, is covered by
\* the lines of the currency.
LEMMA MoneyCovered ==
  ASSUME NEW e \in Receipt, NEW cur, Contribution(e, <<"money", "unknown">>) = 0,
         \A c \in Currencies \ {cur} :
           Contribution(e, <<c, "used">>) = 0 /\ Contribution(e, <<c, "held">>) = 0
  PROVE  /\ Currency(e) = cur \/ MoneyCharge(e) = 0
         /\ MoneyCharge(e) <= Contribution(e, <<cur, "used">>) + Contribution(e, <<cur, "held">>)
<1>1. TokenCharge(e) \in Nat /\ MoneyCharge(e) \in Nat
  BY AmountType
<1>2. \A line : Contribution(e, line) =
          (IF line = Line(e, "tokens", e.actual.tokens, e.bound.tokens) THEN TokenCharge(e) ELSE 0)
          + (IF line = Line(e, Currency(e), e.actual.money, e.bound.money) THEN MoneyCharge(e) ELSE 0)
  BY DEF Contribution, TokenCharge, MoneyCharge
<1>3. \A line : line = Line(e, Currency(e), e.actual.money, e.bound.money) => Contribution(e, line) >= MoneyCharge(e)
  BY <1>1, <1>2
<1>4. \A line : Contribution(e, line) \in Nat
  BY AmountType
<1>5. e.actual \in Settlements /\ e.bound \in Bounds
  BY DEF Receipt
<1>6. \/ /\ Currency(e) \in Currencies
         /\ Line(e, Currency(e), e.actual.money, e.bound.money) \in
              {<<Currency(e), "used">>, <<Currency(e), "held">>}
      \/ /\ Line(e, Currency(e), e.actual.money, e.bound.money) = <<"money", "unknown">>
         /\ MoneyCharge(e) = 1
  BY <1>5, LedgerAssumption DEF Line, Currency, MoneyCharge, Amount
<1>7. Line(e, Currency(e), e.actual.money, e.bound.money) # <<"money", "unknown">> \/ MoneyCharge(e) = 0
  BY <1>1, <1>3, <1>4
<1>8. /\ Currency(e) \in Currencies
      /\ Line(e, Currency(e), e.actual.money, e.bound.money) \in
              {<<Currency(e), "used">>, <<Currency(e), "held">>}
  BY <1>6, <1>7
<1>9. CASE Currency(e) = cur
  BY <1>1, <1>3, <1>4, <1>8, <1>9
<1>10. CASE Currency(e) # cur
  <2>1. MoneyCharge(e) <= 0
    <3>1. PICK line : line = Line(e, Currency(e), e.actual.money, e.bound.money)
      OBVIOUS
    <3>2. Contribution(e, line) >= MoneyCharge(e)
      BY <1>3, <3>1
    <3>3. Contribution(e, line) = 0
      <4>1. Currency(e) \in Currencies \ {cur}
        BY <1>8, <1>10
      <4>2. Contribution(e, <<Currency(e), "used">>) = 0 /\ Contribution(e, <<Currency(e), "held">>) = 0
        BY <4>1
      <4>3. QED
        BY <1>8, <3>1, <4>2
    <3>4. QED
      BY <1>1, <3>2, <3>3
  <2>2. MoneyCharge(e) = 0
    BY <1>1, <2>1
  <2>3. QED
    BY <1>4, <2>2
<1>11. QED
  BY <1>9, <1>10

\* What competes with a new receipt: itself, the calls in flight and those charged
\* to the window by a key that is not due.
LEMMA CompetingKept ==
  ASSUME LedgerInv, ExpiryInv, CounterInv, NEW id \in Ids, NEW e \in Receipt, archive[id] = Absent,
         Stores(archive, archive', id, e), e.state = "active",
         NEW t \in Nat, clock <= t, e.at = t, NEW z \in Zones, e.month = MonthStart(t, z),
         NEW a \in Accounts, NEW w \in Windows
  PROVE  Competing(a, w, e) \subseteq
           Flying(archive, a) \cup Charged(expiry \ Due(t), archive, a, Key(w, e.month)) \cup {e}
<1>1. \A i \in Ids : archive'[i] = IF i = id THEN e ELSE archive[i]
  BY DEF Stores
<1>2. SUFFICES ASSUME NEW i \in Ids, archive'[i] # Absent, a \in archive'[i].accounts,
                      \/ archive'[i].state = "active"
                      \/ InWindow(archive'[i], w, e.month, e.at)
               PROVE  archive'[i] \in Flying(archive, a) \cup
                        Charged(expiry \ Due(t), archive, a, Key(w, e.month)) \cup {e}
  BY DEF Competing
<1>3. CASE i = id
  BY <1>1, <1>3
<1>4. CASE i # id /\ archive'[i].state = "active"
  BY <1>1, <1>2, <1>4 DEF Flying, Stored
<1>5. CASE i # id /\ archive'[i].state # "active"
  <2>1. PICK r : r = archive[i]
    OBVIOUS
  <2>2. /\ archive'[i] = r /\ r \in Receipt /\ i \in Stored(archive) /\ a \in r.accounts
        /\ InWindow(r, w, e.month, t) /\ r.state # "active"
    BY <1>1, <1>2, <1>5, <2>1, LedgerTypes DEF Stored
  <2>3. WindowEnd(w, r) \in Int /\ WindowEnd(w, r) > t
    <3>1. r.at \in Nat /\ r.month \in Int
      BY <2>2 DEF Receipt
    <3>2. CASE w = "month"
      <4>1. MonthLength \in Nat \ {0} /\ Offset[z] \in Nat
        BY LedgerAssumption
      <4>2. (t + Offset[z]) % MonthLength \in 0..(MonthLength - 1)
        BY <4>1
      <4>3. r.month = t - ((t + Offset[z]) % MonthLength)
        BY <2>2, <3>2 DEF InWindow, MonthStart
      <4>4. QED
        BY <3>2, <4>1, <4>2, <4>3 DEF WindowEnd
    <3>3. CASE w # "month"
      <4>1. Length[w] \in Nat
        BY <3>3, LedgerAssumption DEF Windows
      <4>2. QED
        BY <2>2, <3>1, <3>3, <4>1 DEF InWindow, WindowEnd
    <3>4. QED
      BY <3>2, <3>3
  <2>4. i \in Stored(receipts)
    <3>1. LatestEnd(r) \in Int /\ WindowEnd(w, r) <= LatestEnd(r)
      BY <2>2, WindowEnds
    <3>2. receipts[i] = Absent => LatestEnd(r) <= clock
      BY <2>1, <2>2 DEF ExpiryInv, ArchiveFollows
    <3>3. clock \in Nat
      BY LedgerTypes
    <3>4. receipts[i] # Absent
      BY <2>3, <3>1, <3>2, <3>3
    <3>5. QED
      BY <3>4 DEF Stored
  <2>5. r.id = i
    BY <2>1, <2>4, ArchiveTypes
  <2> DEFINE k == [at |-> WindowEnd(w, r), account |-> a, window |-> Key(w, r.month), id |-> r.id]
  <2>6. k \in ExpiryKeys(r, t)
    BY <2>2, <2>3 DEF ExpiryKeys
  <2>7. ExpiryKeys(r, t) \subseteq expiry \ Due(t)
    BY <2>1, <2>2, PrunedExpiry
  <2>8. Key(w, r.month) = Key(w, e.month)
    BY <2>2 DEF Key, InWindow
  <2>9. /\ k \in expiry \ Due(t) /\ k.account = a /\ k.window = Key(w, e.month)
        /\ archive[k.id] = r
    BY <2>1, <2>5, <2>6, <2>7, <2>8
  <2> HIDE DEF k
  <2>10. r \in Charged(expiry \ Due(t), archive, a, Key(w, e.month))
    BY <2>9 DEF Charged
  <2>11. QED
    BY <2>2, <2>10
<1>6. QED
  BY <1>3, <1>4, <1>5

\* The counters that checkQuota reads.
LEMMA CounterKeyOf ==
  ASSUME NEW a \in Accounts, NEW w \in Windows, NEW t \in Times, NEW z \in Zones
  PROVE  <<a, Key(w, MonthStart(t, z))>> \in CounterKeys /\ Key(w, MonthStart(t, z)) # Active
<1>1. Key(w, MonthStart(t, z)) # Active
  BY KeysDiffer
<1>2. CASE w = "month"
  BY <1>1, <1>2 DEF Key, CounterKeys, Months
<1>3. CASE w # "month"
  BY <1>1, <1>3 DEF Key, CounterKeys, Windows
<1>4. QED
  BY <1>2, <1>3

LEMMA LinesOf ==
  /\ \A c \in Currencies \cup {"tokens"} : <<c, "used">> \in Lines /\ <<c, "held">> \in Lines
  /\ <<"tokens", "unknown">> \in Lines /\ <<"money", "unknown">> \in Lines
BY DEF Lines, Units

\* The receipts that the counters an admission reads are the sums of: the calls in
\* flight F and the settled ones G.
Rivals(e, t, z, a, w, F, G) ==
  /\ F = Flying(archive, a)
  /\ G = Charged(expiry \ Due(t), archive, a, Key(w, MonthStart(t, z)))
  /\ F \in SUBSET Receipt /\ G \in SUBSET Receipt /\ IsFiniteSet(F) /\ IsFiniteSet(G)
  /\ F \cap G = {} /\ e \notin F \cup G
  /\ \A line \in Lines :
       /\ PrunedCounters(t)[<<a, Active>>][line] = Total(F, line)
       /\ PrunedCounters(t)[<<a, Key(w, MonthStart(t, z))>>][line] = Total(G, line)

LEMMA CompetingSums ==
  ASSUME LedgerInv, ExpiryInv, CounterInv, NEW id \in Ids, NEW e \in Receipt, e.id = id,
         archive[id] = Absent, NEW t \in Times, NEW z \in Zones, NEW a \in Accounts, NEW w \in Windows
  PROVE  \E F, G : Rivals(e, t, z, a, w, F, G)
<1>0. PICK F, G : /\ F = Flying(archive, a)
                  /\ G = Charged(expiry \ Due(t), archive, a, Key(w, MonthStart(t, z)))
  OBVIOUS
<1>1. archive \in [Ids -> Receipt \cup {Absent}] /\ Absent \notin Receipt
  BY ArchiveTypes
<1>2. F \in SUBSET Receipt /\ IsFiniteSet(F)
  BY <1>0, <1>1, FlyingType
<1>3. G \in SUBSET Receipt /\ IsFiniteSet(G)
  <2>1. PICK K : K = expiry \ Due(t)
    OBVIOUS
  <2>2. \A k \in K : k.id \in Ids /\ archive[k.id] \in Receipt
    BY <2>1, ArchiveTypes
  <2>3. QED
    BY <1>0, <1>1, <2>1, <2>2, ChargedType
<1>4. \A x \in F : x.state = "active" /\ x.id # id
  BY <1>0, <1>1, ArchiveTypes DEF Flying, Stored
<1>5. \A x \in G : x.state # "active" /\ x.id # id
  BY <1>0, <1>1, ArchiveTypes DEF Charged, Stored
<1>6. F \cap G = {} /\ e \notin F \cup G
  BY <1>4, <1>5
<1>7. t \in Nat
  BY QueueAssumption
<1>8. PICK x : x = <<a, Key(w, MonthStart(t, z))>>
  OBVIOUS
<1>9. x \in CounterKeys /\ x[2] # Active /\ x[1] = a /\ x[2] = Key(w, MonthStart(t, z))
  BY <1>8, CounterKeyOf
<1>10. ASSUME NEW line \in Lines
       PROVE  /\ PrunedCounters(t)[<<a, Active>>][line] = Total(F, line)
              /\ PrunedCounters(t)[x][line] = Total(G, line)
  <2>1. PrunedCounters(t)[<<a, Active>>][line] = counters[<<a, Active>>][line]
    BY <1>7, PrunedSums
  <2>2. counters[<<a, Active>>][line] = Total(F, line)
    BY <1>0 DEF CounterInv
  <2>3. PrunedCounters(t)[x][line] = Total(Charged(expiry \ Due(t), archive, x[1], x[2]), line)
    BY <1>7, <1>9, PrunedSums
  <2>4. QED
    BY <1>0, <1>9, <2>1, <2>2, <2>3
<1>11. Rivals(e, t, z, a, w, F, G)
  BY <1>0, <1>2, <1>3, <1>6, <1>8, <1>10 DEF Rivals
<1>12. QED
  BY <1>11

\* An account with a hard ceiling of tokens in a window.
LEMMA TokensWithin ==
  ASSUME NEW F \in SUBSET Receipt, NEW G \in SUBSET Receipt, NEW e \in Receipt,
         IsFiniteSet(F), IsFiniteSet(G), F \cap G = {}, e \notin F \cup G,
         e.state = "active", NEW S \in SUBSET (F \cup G \cup {e}),
         NEW counter, NEW active,
         \A line \in Lines : active[line] = Total(F, line) /\ counter[line] = Total(G, line),
         NEW ceiling \in Nat, TokensAllow(ceiling, FALSE, e.bound, counter, active)
  PROVE  /\ \A x \in S : Line(x, "tokens", x.actual.tokens, x.bound.tokens)[2] # "unknown"
         /\ MapThenSumSet(TokenCharge, S) <= ceiling
<1>1. /\ e.bound.tokens # Nil /\ Total(F, <<"tokens", "unknown">>) = 0
      /\ Total(G, <<"tokens", "unknown">>) = 0
      /\ Total(G, <<"tokens", "used">>) + Total(G, <<"tokens", "held">>)
          + (Total(F, <<"tokens", "used">>) + Total(F, <<"tokens", "held">>)) + e.bound.tokens <= ceiling
  BY LinesOf DEF TokensAllow, Sum
<1>2. \A x \in F \cup G : Contribution(x, <<"tokens", "unknown">>) = 0
  BY <1>1, NoContribution
<1>3. \A x \in F \cup G :
        /\ Line(x, "tokens", x.actual.tokens, x.bound.tokens)[2] # "unknown"
        /\ TokenCharge(x) <= Contribution(x, <<"tokens", "used">>) + Contribution(x, <<"tokens", "held">>)
  BY <1>2, TokensCovered
<1>4. /\ Line(e, "tokens", e.actual.tokens, e.bound.tokens)[2] # "unknown"
      /\ TokenCharge(e) = e.bound.tokens
  BY <1>1 DEF Line, TokenCharge, Amount
<1>5. \A x \in Receipt : TokenWeight[x] = TokenCharge(x) /\ TokenCharge(x) \in Nat
  BY AmountType DEF TokenWeight
<1>6. PICK h, u : h = TokenWeight /\ u = "tokens"
  OBVIOUS
<1>7. /\ \A x \in F \cup G : /\ h[x] \in Nat
                             /\ h[x] <= Contribution(x, <<u, "used">>) + Contribution(x, <<u, "held">>)
      /\ h[e] \in Nat
  BY <1>3, <1>5, <1>6
<1>8. /\ SumOf(h, S) <= Total(G, <<u, "used">>) + Total(G, <<u, "held">>)
                          + (Total(F, <<u, "used">>) + Total(F, <<u, "held">>)) + h[e]
      /\ SumOf(h, S) \in Nat
  BY <1>7, WeightsTogether
<1>9. MapThenSumSet(TokenCharge, S) = SumOf(TokenWeight, S)
  <2>1. S \in SUBSET Receipt /\ IsFiniteSet(S)
    BY FS_Union, FS_AddElement, FS_Subset
  <2>2. QED
    BY <2>1, TokensAreSum
<1>10. h[e] = e.bound.tokens
  BY <1>4, <1>5, <1>6
<1>11. \A line : Total(F, line) \in Nat /\ Total(G, line) \in Nat
  BY TotalRemove
<1>12. SumOf(TokenWeight, S) <= ceiling
  BY <1>1, <1>6, <1>7, <1>8, <1>10, <1>11
<1>13. QED
  BY <1>3, <1>4, <1>9, <1>12

\* An account with a hard ceiling of money.
LEMMA MoneyWithin ==
  ASSUME NEW F \in SUBSET Receipt, NEW G \in SUBSET Receipt, NEW e \in Receipt,
         IsFiniteSet(F), IsFiniteSet(G), F \cap G = {}, e \notin F \cup G,
         e.state = "active", NEW S \in SUBSET (F \cup G \cup {e}),
         NEW counter, NEW active,
         \A line \in Lines : active[line] = Total(F, line) /\ counter[line] = Total(G, line),
         NEW limit, limit.money \in Nat, ~limit.moneySoft, MoneyAllows(limit, e.bound, counter, active)
  PROVE  /\ \A x \in S : Currency(x) = limit.currency \/ MoneyCharge(x) = 0
         /\ MapThenSumSet(MoneyCharge, S) <= limit.money
<1>0. \A line : Total(F, line) \in Nat /\ Total(G, line) \in Nat
  BY TotalRemove
<1>1. PICK u : u = limit.currency
  OBVIOUS
<1>2. e.bound.money # Nil /\ e.bound.currency = u /\ u \in Currencies
  BY <1>1, LedgerAssumption DEF MoneyAllows, Receipt
<1>3. /\ Total(F, <<"money", "unknown">>) = 0 /\ Total(G, <<"money", "unknown">>) = 0
      /\ Total(G, <<u, "used">>) + Total(G, <<u, "held">>)
          + (Total(F, <<u, "used">>) + Total(F, <<u, "held">>)) + e.bound.money <= limit.money
  BY <1>1, <1>2, LinesOf DEF MoneyAllows, Sum
<1>4. ASSUME NEW c \in Currencies \ {u}
      PROVE  /\ Total(F, <<c, "used">>) = 0 /\ Total(F, <<c, "held">>) = 0
             /\ Total(G, <<c, "used">>) = 0 /\ Total(G, <<c, "held">>) = 0
  <2>1. Total(G, <<c, "used">>) + Total(G, <<c, "held">>)
          + (Total(F, <<c, "used">>) + Total(F, <<c, "held">>)) = 0
    BY <1>1, LinesOf DEF MoneyAllows, Sum
  <2>2. QED
    BY <1>0, <2>1
<1>5. ASSUME NEW x \in F \cup G
      PROVE  /\ Contribution(x, <<"money", "unknown">>) = 0
             /\ \A c \in Currencies \ {u} :
                  Contribution(x, <<c, "used">>) = 0 /\ Contribution(x, <<c, "held">>) = 0
  BY <1>3, <1>4, NoContribution
<1>6. \A x \in F \cup G :
        /\ Currency(x) = u \/ MoneyCharge(x) = 0
        /\ MoneyCharge(x) <= Contribution(x, <<u, "used">>) + Contribution(x, <<u, "held">>)
  BY <1>5, MoneyCovered
<1>7. Currency(e) = u /\ MoneyCharge(e) = e.bound.money
  BY <1>2 DEF Currency, MoneyCharge, Amount
<1>8. \A x \in Receipt : MoneyWeight[x] = MoneyCharge(x) /\ MoneyCharge(x) \in Nat
  BY AmountType DEF MoneyWeight
<1>9. PICK h : h = MoneyWeight
  OBVIOUS
<1>10. /\ \A x \in F \cup G : /\ h[x] \in Nat
                              /\ h[x] <= Contribution(x, <<u, "used">>) + Contribution(x, <<u, "held">>)
       /\ h[e] \in Nat
  BY <1>6, <1>8, <1>9
<1>11. /\ SumOf(h, S) <= Total(G, <<u, "used">>) + Total(G, <<u, "held">>)
                           + (Total(F, <<u, "used">>) + Total(F, <<u, "held">>)) + h[e]
       /\ SumOf(h, S) \in Nat
  BY <1>10, WeightsTogether
<1>12. MapThenSumSet(MoneyCharge, S) = SumOf(MoneyWeight, S)
  <2>1. S \in SUBSET Receipt /\ IsFiniteSet(S)
    BY FS_Union, FS_AddElement, FS_Subset
  <2>2. QED
    BY <2>1, MoneyIsSum
<1>13. h[e] = e.bound.money
  BY <1>7, <1>8, <1>9
<1>14. SumOf(MoneyWeight, S) <= limit.money
  BY <1>0, <1>3, <1>9, <1>10, <1>11, <1>13
<1>15. QED
  BY <1>1, <1>6, <1>7, <1>12, <1>14

\* What an admission promises, for its receipt and its policy.
WithinCeilings(entry, policy) ==
  \A a \in DOMAIN policy :
    /\ \A w \in Windows :
         policy[a].tokens[w] # Unlimited /\ ~(w = "month" /\ policy[a].tokensSoft) =>
           /\ \A e \in Competing(a, w, entry) :
                Line(e, "tokens", e.actual.tokens, e.bound.tokens)[2] # "unknown"
           /\ MapThenSumSet(TokenCharge, Competing(a, w, entry)) <= policy[a].tokens[w]
    /\ policy[a].money # Unlimited /\ ~policy[a].moneySoft =>
         /\ \A e \in Competing(a, "month", entry) :
              Currency(e) = policy[a].currency \/ MoneyCharge(e) = 0
         /\ MapThenSumSet(MoneyCharge, Competing(a, "month", entry)) <= policy[a].money

LEMMA AdmissionWithinCeilings ==
  ASSUME LedgerInv, ExpiryInv, CounterInv, ClockRead, NEW id \in Ids, NEW payload \in Payloads,
         NEW policy \in Policies, NEW bound \in Bounds, NEW recovery \in Settlements,
         NEW now \in Times, Fresh(id),
         ReserveWithQuotaRecovery(id, payload, policy, bound, recovery, now),
         NEW n \in DOMAIN log' \ DOMAIN log
  PROVE  WithinCeilings(archive'[log'[n].id], log'[n].policy)
<1> DEFINE t == logicalLimitTime(now)
           r == [id |-> id, at |-> t, policy |-> policy]
           e == [id |-> id, at |-> t, month |-> MonthStart(t, zone),
                 accounts |-> DOMAIN policy, bound |-> bound, state |-> "active",
                 actual |-> Unsettled, recovery |-> recovery, digest |-> Nil, overrun |-> FALSE]
<1>1. /\ version = 2 /\ Archive /\ log' = Append(log, r)
      /\ receipts' = [PrunedReceipts(t) EXCEPT ![id] = e]
      /\ \A a \in DOMAIN policy :
           checkQuota(a, policy[a], bound, coverage, MonthStart(t, zone), t, PrunedCounters(t))
  BY DEF ReserveWithQuotaRecovery, Record, checkQuotaAdmission
<1>2. /\ t \in Nat /\ clock <= t /\ zone \in Zones /\ log \in Seq(Admission) /\ t \in Times
  BY <1>1, ClockAdvances, InstantRead DEF LedgerInv, LedgerTypeOK, Inv, QueueTypeOK
<1>3. /\ e \in Receipt /\ e.id = id /\ e.state = "active" /\ e.at = t
      /\ e.month = MonthStart(t, zone) /\ e.bound = bound
  BY <1>2, NewReceipt
<1>4. r \in Admission /\ r.id = id /\ r.policy = policy
  BY <1>2 DEF Admission
<1> HIDE DEF t, r, e
<1>5. log'[n] = r
  BY <1>1, <1>2, <1>4, LogEntries
<1>6. archive[id] = Absent
  BY DEF Fresh, LedgerInv, ArchivedAdmitted, Stored
<1>7. Stores(archive, archive', id, e)
  <2>1. PICK R : R = PrunedReceipts(t)
    OBVIOUS
  <2>2. R \in {receipts} \cup {PrunedReceipts(u) : u \in Nat} /\ receipts' = [R EXCEPT ![id] = e]
    BY <1>1, <1>2, <2>1
  <2>3. QED
    BY <1>1, <1>3, <1>6, <2>2, ArchiveStores
<1>8. archive'[id] = e
  BY <1>7 DEF Stores
<1>9. ASSUME NEW a \in DOMAIN policy, NEW w \in Windows
      PROVE  \E F, G : /\ Rivals(e, t, zone, a, w, F, G)
                       /\ Competing(a, w, e) \in SUBSET (F \cup G \cup {e})
  <2>1. a \in Accounts
    BY PolicyFinite
  <2>2. PICK F, G : Rivals(e, t, zone, a, w, F, G)
    BY <1>2, <1>3, <1>6, <2>1, CompetingSums
  <2>3. Competing(a, w, e) \subseteq
          Flying(archive, a) \cup Charged(expiry \ Due(t), archive, a, Key(w, e.month)) \cup {e}
    BY <1>2, <1>3, <1>6, <1>7, <2>1, CompetingKept
  <2>4. F = Flying(archive, a) /\ G = Charged(expiry \ Due(t), archive, a, Key(w, e.month))
    BY <1>3, <2>2 DEF Rivals
  <2>5. Competing(a, w, e) \in SUBSET (F \cup G \cup {e})
    BY <2>3, <2>4
  <2>6. QED
    BY <2>2, <2>5
<1>10. ASSUME NEW a \in DOMAIN policy, NEW w \in Windows,
              policy[a].tokens[w] # Unlimited, ~(w = "month" /\ policy[a].tokensSoft)
       PROVE  /\ \A x \in Competing(a, w, e) :
                   Line(x, "tokens", x.actual.tokens, x.bound.tokens)[2] # "unknown"
              /\ MapThenSumSet(TokenCharge, Competing(a, w, e)) <= policy[a].tokens[w]
  <2>1. PICK F, G : Rivals(e, t, zone, a, w, F, G) /\ Competing(a, w, e) \in SUBSET (F \cup G \cup {e})
    BY <1>9
  <2>2. PICK S, counter, active, ceiling :
          /\ S = Competing(a, w, e) /\ active = PrunedCounters(t)[<<a, Active>>]
          /\ counter = PrunedCounters(t)[<<a, Key(w, MonthStart(t, zone))>>]
          /\ ceiling = policy[a].tokens[w]
    OBVIOUS
  <2>3. ceiling \in Nat
    BY <1>10, <2>2, LedgerAssumption
  <2>4. TokensAllow(ceiling, FALSE, e.bound, counter, active)
    <3>1. TokensAllow(policy[a].tokens[w], w = "month" /\ policy[a].tokensSoft, bound, counter, active)
      BY <1>1, <1>10, <2>2 DEF checkQuota
    <3>2. QED
      BY <1>3, <1>10, <2>2, <3>1 DEF TokensAllow
  <2>5. \A line \in Lines : active[line] = Total(F, line) /\ counter[line] = Total(G, line)
    BY <2>1, <2>2 DEF Rivals
  <2>6. /\ S \in SUBSET (F \cup G \cup {e}) /\ F \in SUBSET Receipt /\ G \in SUBSET Receipt
        /\ IsFiniteSet(F) /\ IsFiniteSet(G) /\ F \cap G = {} /\ e \notin F \cup G
    BY <2>1, <2>2 DEF Rivals
  <2>7. /\ \A x \in S : Line(x, "tokens", x.actual.tokens, x.bound.tokens)[2] # "unknown"
        /\ MapThenSumSet(TokenCharge, S) <= ceiling
    BY <1>3, <2>3, <2>4, <2>5, <2>6, TokensWithin
  <2>8. QED
    BY <2>2, <2>7
<1>11. ASSUME NEW a \in DOMAIN policy, policy[a].money # Unlimited, ~policy[a].moneySoft
       PROVE  /\ \A x \in Competing(a, "month", e) :
                   Currency(x) = policy[a].currency \/ MoneyCharge(x) = 0
              /\ MapThenSumSet(MoneyCharge, Competing(a, "month", e)) <= policy[a].money
  <2>0. PICK w \in Windows : w = "month"
    BY DEF Windows
  <2>1. PICK F, G : Rivals(e, t, zone, a, w, F, G) /\ Competing(a, w, e) \in SUBSET (F \cup G \cup {e})
    BY <1>9
  <2>2. PICK S, counter, active, limit :
          /\ S = Competing(a, w, e) /\ active = PrunedCounters(t)[<<a, Active>>]
          /\ counter = PrunedCounters(t)[<<a, Key(w, MonthStart(t, zone))>>]
          /\ limit = policy[a]
    OBVIOUS
  <2>3. limit.money \in Nat /\ ~limit.moneySoft
    BY <1>11, <2>2, LedgerAssumption
  <2>4. MoneyAllows(limit, e.bound, counter, active)
    BY <1>1, <1>3, <1>11, <2>0, <2>2 DEF checkQuota
  <2>5. \A line \in Lines : active[line] = Total(F, line) /\ counter[line] = Total(G, line)
    BY <2>1, <2>2 DEF Rivals
  <2>6. /\ S \in SUBSET (F \cup G \cup {e}) /\ F \in SUBSET Receipt /\ G \in SUBSET Receipt
        /\ IsFiniteSet(F) /\ IsFiniteSet(G) /\ F \cap G = {} /\ e \notin F \cup G
    BY <2>1, <2>2 DEF Rivals
  <2>7. /\ \A x \in S : Currency(x) = limit.currency \/ MoneyCharge(x) = 0
        /\ MapThenSumSet(MoneyCharge, S) <= limit.money
    BY <1>3, <2>3, <2>4, <2>5, <2>6, MoneyWithin
  <2>8. QED
    BY <2>0, <2>2, <2>7
<1>12. WithinCeilings(e, policy)
  BY <1>10, <1>11 DEF WithinCeilings
<1>13. QED
  BY <1>4, <1>5, <1>8, <1>12

\* No quota-aware admission takes an account over a hard ceiling of tokens in any
\* window, or of money in the month, counted over every call ever admitted and not
\* over the counters; nothing unknown and no other currency competes with it; and
\* no constrained call is admitted on an exceeded bound (checkQuota).
THEOREM CeilingsHold == Spec => CeilingsRespected
<1> DEFINE Respected == \A i \in DOMAIN log' \ DOMAIN log :
              archive'[log'[i].id] # Absent => /\ WithinCeilings(archive'[log'[i].id], log'[i].policy)
                                               /\ BoundsTrusted(archive'[log'[i].id], log'[i].policy)
<1>1. ASSUME LedgerInv, ExpiryInv, CounterInv, ClockRead, OverrunsRemembered, [Next]_vars
      PROVE  [Respected]_vars
  <2>1. ASSUME UNCHANGED log PROVE Respected
    BY <2>1
  <2>2. ASSUME NEW id \in Ids, NEW payload \in Payloads, LegacyReserve(id, payload)
        PROVE  Respected
    <3> DEFINE r == [id |-> id, at |-> clock, policy |-> EmptyPolicy]
    <3>1. r \in Admission /\ log' = Append(log, r) /\ log \in Seq(Admission)
      BY <1>1, <2>2 DEF LegacyReserve, Reserve, Record, Admission, LedgerInv, Inv, QueueTypeOK
    <3>2. DOMAIN r.policy = {}
      BY DEF EmptyPolicy
    <3> HIDE DEF r
    <3>3. ASSUME NEW n \in DOMAIN log' \ DOMAIN log PROVE log'[n] = r
      BY <3>1, LogEntries
    <3>4. QED
      BY <3>2, <3>3 DEF BoundsTrusted, WithinCeilings
  <2>3. ASSUME NEW id \in Ids, NEW payload \in Payloads, NEW policy \in Policies, NEW now \in Times,
               LegacyReserveWithLimits(id, payload, policy, now)
        PROVE  Respected
    <3> DEFINE r == [id |-> id, at |-> logicalLimitTime(now), policy |-> policy]
    <3>1. UNCHANGED archive /\ Stored(archive) = {} /\ log' = Append(log, r)
      BY <1>1, <2>3 DEF LegacyReserveWithLimits, ReserveWithLimits, Record, quotaVars, LedgerInv,
         NothingBefore
    <3>2. r \in Admission /\ r.id = id /\ log \in Seq(Admission)
      BY <1>1, ClockAdvances DEF Admission, LedgerInv, Inv, QueueTypeOK
    <3> HIDE DEF r
    <3>3. ASSUME NEW n \in DOMAIN log' \ DOMAIN log PROVE archive'[log'[n].id] = Absent
      <4>1. log'[n] = r
        BY <3>1, <3>2, LogEntries
      <4>2. QED
        BY <3>1, <3>2, <4>1 DEF Stored
    <3>4. QED
      BY <3>3
  <2>4. ASSUME NEW id \in Ids, NEW payload \in Payloads, NEW policy \in Policies,
               NEW bound \in Bounds, NEW recovery \in Settlements, NEW now \in Times, Fresh(id),
               ReserveWithQuotaRecovery(id, payload, policy, bound, recovery, now)
        PROVE  Respected
    BY <1>1, <2>4, AdmissionTrusted, AdmissionWithinCeilings
  <2>5. ASSUME NEW id \in Ids, NEW payload \in Payloads,
               \/ LegacyUpdatePending(id, payload) \/ LegacyComplete(id, payload)
               \/ \E s \in Settlements : UpdatePendingQuota(id, payload, s)
               \/ \E s \in Settlements, now \in Times : CompleteQuota(id, payload, s, now)
        PROVE  Respected
    BY <2>1, <2>5 DEF LegacyUpdatePending, LegacyComplete, UpdatePending, Complete,
       UpdatePendingQuota, CompleteQuota
  <2>6. ASSUME NEW id \in Ids, Ack(id) PROVE Respected
    BY <2>1, <2>6 DEF Ack
  <2>7. ASSUME NEW now \in Times,
               \/ AccountUsage(now)
               \/ AccountQuotaUsage(now)
               \/ \E id \in Ids, policy \in Policies, bound \in Bounds, z \in Zones :
                    PreflightWithQuota(id, policy, bound, z, now)
               \/ \E z \in Zones : EnableQuota(z, now)
        PROVE  Respected
    BY <2>1, <2>7 DEF AccountUsage, AccountQuotaUsage, PreflightWithQuota, EnableQuota
  <2>8. CASE OpenLedger
    BY <2>1, <2>8 DEF OpenLedger
  <2> HIDE DEF Respected
  <2>9. QED
    BY <1>1, <2>2, <2>3, <2>4, <2>5, <2>6, <2>7, <2>8 DEF Next
<1>2. LedgerInv /\ ExpiryInv /\ CounterInv /\ ClockRead /\ OverrunsRemembered /\ [Next]_vars
        => [Respected]_vars
  BY <1>1
<1>3. QED
  BY <1>2, LedgerInvariance, ExpiryInvariance, CounterInvariance, ClockInvariance,
     OverrunsInvariance, PTL DEF Spec, CeilingsRespected, WithinCeilings
=============================================================================
