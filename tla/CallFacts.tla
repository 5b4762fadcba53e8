----------------------------- MODULE CallFacts -----------------------------
(***************************************************************************)
(* What the durable call journal promises, without buckets, leases or      *)
(* counters.  A request has at most one fact.  It starts as a draft (the   *)
(* fallback that says what to record if the process dies), the draft may   *)
(* be revised, and it becomes final once: settled by the gateway, or by an *)
(* interruption that turns every draft into the fact to deliver.  A final  *)
(* fact never changes; it leaves the store only when it is acknowledged.   *)
(***************************************************************************)
EXTENDS Naturals, FiniteSets

CONSTANTS
  Ids,        \* request identifiers
  Payloads,   \* opaque facts
  Capacity    \* the most facts the store holds

VARIABLE facts

NoFact == [kind |-> "none"]
Draft(payload) == [kind |-> "draft", payload |-> payload]
Final(payload) == [kind |-> "final", payload |-> payload]

Held == {id \in Ids : facts[id] # NoFact}

Init == facts = [id \in Ids |-> NoFact]

Accept(id, payload) ==
  /\ facts[id] = NoFact
  /\ Cardinality(Held) < Capacity
  /\ facts' = [facts EXCEPT ![id] = Draft(payload)]

Revise(id, payload) ==
  /\ facts[id].kind = "draft"
  /\ facts' = [facts EXCEPT ![id] = Draft(payload)]

Settle(id, payload) ==
  /\ facts[id].kind = "draft"
  /\ facts' = [facts EXCEPT ![id] = Final(payload)]

Interrupt ==
  facts' = [id \in Ids |-> IF facts[id].kind = "draft"
                           THEN Final(facts[id].payload)
                           ELSE facts[id]]

Acknowledge(id) ==
  /\ facts[id].kind = "final"
  /\ facts' = [facts EXCEPT ![id] = NoFact]

Next ==
  \/ \E id \in Ids, payload \in Payloads :
       Accept(id, payload) \/ Revise(id, payload) \/ Settle(id, payload)
  \/ \E id \in Ids : Acknowledge(id)
  \/ Interrupt

Spec == Init /\ [][Next]_facts
=============================================================================
