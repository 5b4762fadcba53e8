----------------------------- MODULE QuotaLedger -----------------------------
(***************************************************************************)
(* pkg/eventqueue, format 2: token and money quotas (quota.go,             *)
(* quota_counters.go, quota_recovery.go) in the journal of EventQueue.     *)
(*                                                                         *)
(* An admission stores a receipt with the bound it reserves.  While the    *)
(* call runs the bound is held in the "active" counter of its accounts;    *)
(* a settlement moves it to the counters of the windows its admission time *)
(* falls in, as proven usage where the settlement proves it and as the     *)
(* bound where it does not.  Expiry keys take a receipt out of each window *)
(* and, once its fact is delivered, out of the store.  Open rebuilds every *)
(* counter from the receipts and settles what the dead process left active.*)
(*                                                                         *)
(* As in EventQueue an operation is one transaction, hence one action.     *)
(***************************************************************************)
EXTENDS EventQueue, FiniteSetsExt

CONSTANTS
  Rolling,        \* the rolling windows: "minute", "five_hours", "seven_days"
  Length,         \* their lengths
  MonthLength,    \* the length of a calendar month
  Zones,          \* time zones
  Offset,         \* where a zone's months start
  Currencies,     \* currency codes
  Bounds,         \* reservation bounds callers pass
  Settlements,    \* settlements callers pass
  QuotaCapacity,  \* q.quotaCapacity
  Nil             \* an amount that is not proven; no bound revision

VARIABLES
  version,        \* "version" of limit-meta-v1: 1 or 2
  zone,           \* quotaMetadata.TimeZone
  coverage,       \* quotaMetadata.CoverageStart
  receipts,       \* quota-entries-v2: Ids -> receipt
  counters,       \* quota-counters-v2: <<account, window>> -> line -> Nat
  expiry,         \* quota-expiry-v2, kind 'c': a receipt leaves a window
  retire,         \* quota-expiry-v2, kind 'r': a receipt leaves the store
  created,        \* quota-accounts-v2: account -> creation time
  invalidBounds,  \* quota-invalid-bounds-v2: revisions that were overrun
  receiptCount,   \* the sequence number of quota-entries-v2
  archive         \* history: the last receipt of every call, never pruned

metadata == <<version, zone, coverage>>
ledger == <<receipts, counters, expiry, retire, receiptCount>>
quotaVars == <<version, zone, coverage, receipts, counters, expiry, retire,
               created, invalidBounds, receiptCount, archive>>
vars == <<pending, ready, events, rpmCount, activeCount, leases, sequence, clock, log,
          version, zone, coverage, receipts, counters, expiry, retire,
          created, invalidBounds, receiptCount, archive>>

Unsettled == [tokens |-> Nil, money |-> Nil, currency |-> Nil]

-----------------------------------------------------------------------------
(* Windows and counters.                                                   *)

Windows == Rolling \cup {"month"}

\* quotaMonth: when the calendar month of an instant starts in a zone.
MonthStart(instant, z) == instant - ((instant + Offset[z]) % MonthLength)

\* The key of a window's counter: a calendar window is named after its month.
Key(w, month) == <<w, IF w = "month" THEN month ELSE 0>>
Active == <<"active", 0>>

WindowStart(w, month, instant) == IF w = "month" THEN month ELSE instant - Length[w]

WindowEnd(w, entry) ==
  IF w = "month" THEN entry.month + MonthLength ELSE entry.at + Length[w]

LatestEnd(entry) == Max({WindowEnd(w, entry) : w \in Windows})

Units == Currencies \cup {"tokens"}
Lines == (Units \X {"used", "held"}) \cup {<<"tokens", "unknown">>, <<"money", "unknown">>}
Zero == [line \in Lines |-> 0]

\* Where an amount goes: proven usage, a conservative hold, or an unknown.
Line(entry, unit, actual, bound) ==
  IF entry.state # "active" /\ actual # Nil THEN <<unit, "used">>
  ELSE IF bound # Nil THEN <<unit, "held">> ELSE <<unit, "unknown">>

Amount(entry, actual, bound) ==
  IF entry.state # "active" /\ actual # Nil THEN actual
  ELSE IF bound # Nil THEN bound ELSE 1

Currency(entry) ==
  IF entry.state # "active" /\ entry.actual.money # Nil THEN entry.actual.currency
  ELSE IF entry.bound.money # Nil THEN entry.bound.currency ELSE "money"

Contribution(entry, line) ==
  (IF line = Line(entry, "tokens", entry.actual.tokens, entry.bound.tokens)
   THEN Amount(entry, entry.actual.tokens, entry.bound.tokens) ELSE 0)
  + (IF line = Line(entry, Currency(entry), entry.actual.money, entry.bound.money)
     THEN Amount(entry, entry.actual.money, entry.bound.money) ELSE 0)

\* What a set of receipts adds to one line of a counter.
Total(entries, line) == MapThenSumSet(LAMBDA entry : Contribution(entry, line), entries)

\* The expiry keys of a settled receipt: the windows it is still in.
ExpiryKeys(entry, instant) ==
  {[at |-> WindowEnd(w, entry), account |-> a, window |-> Key(w, entry.month), id |-> entry.id] :
     a \in entry.accounts, w \in {v \in Windows : WindowEnd(v, entry) > instant}}

RetireKey(entry) == [at |-> LatestEnd(entry), id |-> entry.id]

Charged(keys, receiptOf, account, window) ==
  {receiptOf[k.id] : k \in {x \in keys : x.account = account /\ x.window = window}}

-----------------------------------------------------------------------------
(* pruneQuota: what is due at an instant, in the order of the expiry keys. *)

Due(instant) == {k \in expiry : k.at <= instant}

\* A defect: a receipt is retired while its fact waits for delivery.
Retirable_Undelivered(instant) == {k \in retire : k.at <= instant /\ pending[k.id] = Absent}

\* A receipt whose fact is still to be delivered stays.
Retirable(instant) ==
  {k \in retire : k.at <= instant /\ ready[k.id] = Absent /\ pending[k.id] = Absent}

\* A defect: expired usage stays in the counters.
PrunedCounters_Kept(instant) == counters

PrunedCounters(instant) ==
  [x \in DOMAIN counters |->
     LET gone == Charged(Due(instant), receipts, x[1], x[2])
     IN [line \in Lines |-> counters[x][line] - Total(gone, line)]]

PrunedReceipts(instant) ==
  LET gone == {k.id : k \in Retirable(instant)}
  IN [id \in Ids |-> IF id \in gone THEN Absent ELSE receipts[id]]

PrunedReceiptCount(instant) == receiptCount - Cardinality(Retirable(instant))

\* The receipt of every key that is due is found, and counted, when it is read.
KeysReadable(instant) ==
  /\ \A k \in Due(instant) :
       /\ receipts[k.id] # Absent
       /\ \A r \in Retirable(instant) : r.id = k.id => r.at >= k.at
  /\ \A k \in Retirable(instant) : receipts[k.id] # Absent
  /\ PrunedReceiptCount(instant) >= 0

CanPruneQuota(instant) ==
  /\ KeysReadable(instant)
  /\ \A x \in DOMAIN counters : \A line \in Lines : PrunedCounters(instant)[x][line] >= 0

pruneQuota(instant) ==
  /\ CanPruneQuota(instant)
  /\ receipts' = PrunedReceipts(instant)
  /\ counters' = PrunedCounters(instant)
  /\ expiry' = expiry \ Due(instant)
  /\ retire' = retire \ Retirable(instant)
  /\ receiptCount' = PrunedReceiptCount(instant)

-----------------------------------------------------------------------------
(* checkQuota: one account of an admission.                                *)

\* The settled and held amounts of one unit in a counter.
Sum(counter, unit) == counter[<<unit, "used">>] + counter[<<unit, "held">>]

\* The history of a window is known: since activation or the account's birth.
Covered(windowStart, limit, start) == windowStart < start => limit.created >= start

\* A defect: what the calls in flight hold is not counted.
TokensAllow_IgnoresActive(ceiling, soft, bound, counter, active) ==
  /\ ~soft => ceiling > 0
  /\ bound.tokens # Nil
  /\ counter[<<"tokens", "unknown">>] = 0
  /\ active[<<"tokens", "unknown">>] = 0
  /\ ~soft => Sum(counter, "tokens") + bound.tokens <= ceiling

TokensAllow(ceiling, soft, bound, counter, active) ==
  /\ ~soft => ceiling > 0
  /\ bound.tokens # Nil
  /\ counter[<<"tokens", "unknown">>] = 0
  /\ active[<<"tokens", "unknown">>] = 0
  /\ ~soft => Sum(counter, "tokens") + Sum(active, "tokens") + bound.tokens <= ceiling

\* A defect: amounts in another currency are ignored.
MoneyAllows_AnyCurrency(limit, bound, counter, active) ==
  /\ ~limit.moneySoft => limit.money > 0
  /\ bound.money # Nil
  /\ bound.currency = limit.currency
  /\ counter[<<"money", "unknown">>] = 0
  /\ active[<<"money", "unknown">>] = 0
  /\ ~limit.moneySoft =>
       Sum(counter, limit.currency) + Sum(active, limit.currency) + bound.money <= limit.money

MoneyAllows(limit, bound, counter, active) ==
  /\ ~limit.moneySoft => limit.money > 0
  /\ bound.money # Nil
  /\ bound.currency = limit.currency
  /\ counter[<<"money", "unknown">>] = 0
  /\ active[<<"money", "unknown">>] = 0
  /\ \A c \in Currencies \ {limit.currency} : Sum(counter, c) + Sum(active, c) = 0
  /\ ~limit.moneySoft =>
       Sum(counter, limit.currency) + Sum(active, limit.currency) + bound.money <= limit.money

Constrained(limit) ==
  {w \in Windows : limit.tokens[w] # Unlimited} # {} \/ limit.money # Unlimited

checkQuota(a, limit, bound, start, month, instant, counterOf) ==
  LET counter(w) == counterOf[<<a, Key(w, month)>>]
      active == counterOf[<<a, Active>>]
  IN /\ limit.created <= instant
     /\ created[a] \in {Absent, limit.created}
     /\ \A w \in Windows : limit.tokens[w] # Unlimited =>
          /\ Covered(WindowStart(w, month, instant), limit, start)
          /\ TokensAllow(limit.tokens[w], w = "month" /\ limit.tokensSoft, bound, counter(w), active)
     /\ limit.money # Unlimited =>
          /\ Covered(month, limit, start)
          /\ MoneyAllows(limit, bound, counter("month"), active)
     /\ Constrained(limit) => bound.revision \notin invalidBounds \cup {Nil}

\* An inactive ledger is previewed as if it were activated at this instant.
checkQuotaAdmission(id, policy, bound, z, instant) ==
  LET counterOf == PrunedCounters(instant)
      start == IF version = 1 THEN instant ELSE coverage
      month == MonthStart(instant, z)
  IN /\ version = 2 => zone = z
     /\ receipts[id] = Absent
     /\ checkLimitAdmission(id, policy, instant)
     /\ CanPruneQuota(instant)
     /\ PrunedReceiptCount(instant) < QuotaCapacity
     /\ month >= 0
     /\ \A a \in DOMAIN policy : checkQuota(a, policy[a], bound, start, month, instant, counterOf)

validQuotaRecovery(bound, recovery) ==
  /\ recovery.tokens # Nil /\ bound.tokens # Nil => recovery.tokens <= bound.tokens
  /\ recovery.money # Nil /\ bound.money # Nil =>
       recovery.currency = bound.currency /\ recovery.money <= bound.money

\* The digest of a settlement and the fact it was accepted with.
quotaSettlementDigest(actual, payload) == <<actual, payload>>

Overruns(bound, actual) ==
  \/ actual.tokens # Nil /\ bound.tokens # Nil /\ actual.tokens > bound.tokens
  \/ actual.money # Nil /\ bound.money # Nil /\ actual.money > bound.money

Archive == archive' = [id \in Ids |-> IF receipts'[id] # Absent THEN receipts'[id] ELSE archive[id]]

-----------------------------------------------------------------------------
(* The operations.                                                         *)

EnableQuota(z, now) ==
  /\ version = 1
  /\ version' = 2
  /\ zone' = z
  /\ coverage' = logicalLimitTime(now)
  /\ clock' = logicalLimitTime(now)
  /\ UNCHANGED <<pending, ready, events, rpmCount, activeCount, leases, sequence, log,
                 ledger, created, invalidBounds, archive>>

ReserveWithQuotaRecovery(id, payload, policy, bound, recovery, now) ==
  LET instant == logicalLimitTime(now)
      accounts == DOMAIN policy
      entry == [id |-> id, at |-> instant, month |-> MonthStart(instant, zone),
                accounts |-> accounts, bound |-> bound, state |-> "active",
                actual |-> Unsettled, recovery |-> recovery, digest |-> Nil, overrun |-> FALSE]
  IN /\ version = 2
     /\ accounts # {}
     /\ validQuotaRecovery(bound, recovery)
     /\ checkQuotaAdmission(id, policy, bound, zone, instant)
     /\ applyLimitAdmission(id, payload, policy, instant)
     /\ created' = [a \in Accounts |-> IF a \in accounts THEN policy[a].created ELSE created[a]]
     /\ receipts' = [PrunedReceipts(instant) EXCEPT ![id] = entry]
     /\ counters' = [x \in DOMAIN counters |-> [line \in Lines |->
                       PrunedCounters(instant)[x][line]
                         + IF x[1] \in accounts /\ x[2] = Active
                           THEN Contribution(entry, line) ELSE 0]]
     /\ expiry' = expiry \ Due(instant)
     /\ retire' = retire \ Retirable(instant)
     /\ receiptCount' = PrunedReceiptCount(instant) + 1
     /\ Record(id, policy, instant)
     /\ Archive
     /\ UNCHANGED <<ready, metadata, invalidBounds>>

\* Checks an admission; only the clock and the pruning are kept.
PreflightWithQuota(id, policy, bound, z, now) ==
  LET instant == logicalLimitTime(now)
  IN /\ DOMAIN policy # {}
     /\ checkQuotaAdmission(id, policy, bound, z, instant)
     /\ clock' = instant
     /\ pruneLimits(instant)
     /\ pruneQuota(instant)
     /\ UNCHANGED <<pending, ready, activeCount, leases, log, metadata, created,
                    invalidBounds, archive>>

UpdatePendingQuota(id, payload, interrupted) ==
  /\ ready[id] = Absent
  /\ pending[id] # Absent
  /\ receipts[id] # Absent
  /\ receipts[id].state = "active"
  /\ validQuotaRecovery(receipts[id].bound, interrupted)
  /\ receipts' = [receipts EXCEPT ![id].recovery = interrupted]
  /\ pending' = [pending EXCEPT ![id] = payload]
  /\ Archive
  /\ UNCHANGED <<ready, limits, log, metadata, counters, expiry, retire, receiptCount,
                 created, invalidBounds>>

\* The settlement of an active receipt; a repeated one changes nothing.
CompleteQuota(id, payload, actual, now) ==
  LET old == receipts[id]
      instant == logicalLimitTime(now)
      entry == [old EXCEPT !.state = "complete", !.actual = actual, !.recovery = Unsettled,
                           !.digest = quotaSettlementDigest(actual, payload),
                           !.overrun = Overruns(old.bound, actual)]
      keys == ExpiryKeys(entry, instant)
      settled(x, line) ==
        counters[x][line]
          - (IF x[1] \in old.accounts /\ x[2] = Active THEN Contribution(old, line) ELSE 0)
          + Total(Charged(keys, [receipts EXCEPT ![id] = entry], x[1], x[2]), line)
  IN /\ version = 2
     /\ old # Absent
     /\ old.state = "active"
     /\ actual.money # Nil /\ old.bound.money # Nil => actual.currency = old.bound.currency
     /\ \A a \in old.accounts, line \in Lines : settled(<<a, Active>>, line) >= 0
     /\ clock' = instant
     /\ receipts' = [receipts EXCEPT ![id] = entry]
     /\ counters' = [x \in DOMAIN counters |-> [line \in Lines |-> settled(x, line)]]
     /\ expiry' = expiry \cup keys
     /\ retire' = retire \cup {RetireKey(entry)}
     /\ invalidBounds' = invalidBounds \cup IF entry.overrun THEN {entry.bound.revision} \ {Nil} ELSE {}
     /\ complete(id, payload)
     /\ Archive
     /\ UNCHANGED <<events, rpmCount, sequence, log, metadata, receiptCount, created>>

AccountQuotaUsage(now) ==
  LET instant == logicalLimitTime(now)
  IN /\ version = 2
     /\ MonthStart(instant, zone) >= 0
     /\ clock' = instant
     /\ pruneQuota(instant)
     /\ UNCHANGED <<pending, ready, events, rpmCount, activeCount, leases, sequence, log,
                    metadata, created, invalidBounds, archive>>

\* recoverQuota: a call that the dead process left active is settled with the
\* recovery evidence it last stored, against the fallback that is its fact.
Interrupted(id) ==
  LET old == receipts[id]
  IN [old EXCEPT !.state = "interrupted", !.actual = old.recovery, !.recovery = Unsettled,
                 !.digest = quotaSettlementDigest(old.recovery, pending[id])]

\* A defect: every receipt of the former process is settled again.
Recovered_All == [id \in Ids |-> IF receipts[id] = Absent THEN Absent ELSE Interrupted(id)]

Recovered ==
  [id \in Ids |-> IF receipts[id] = Absent THEN Absent
                  ELSE IF receipts[id].state = "active" THEN Interrupted(id)
                  ELSE receipts[id]]

Stored(receiptOf) == {id \in Ids : receiptOf[id] # Absent}

\* What Open verifies of a stored receipt.
ReceiptValid(id) ==
  LET entry == receipts[id]
  IN /\ entry.at >= coverage /\ entry.at <= clock
     /\ entry.month = MonthStart(entry.at, zone)
     /\ \A a \in entry.accounts : created[a] # Absent
     /\ validQuotaRecovery(entry.bound, entry.recovery)
     /\ entry.state = "active" =>
          /\ pending[id] # Absent /\ ready[id] = Absent
          /\ entry.digest = Nil /\ entry.actual.tokens = Nil /\ entry.actual.money = Nil
     /\ entry.state # "active" =>
          /\ pending[id] = Absent
          /\ entry.recovery = Unsettled
          /\ ready[id] # Absent => entry.digest = quotaSettlementDigest(entry.actual, ready[id])

RecoveryAccepts ==
  /\ clock >= coverage
  /\ \A a \in Accounts : created[a] # Absent => created[a] <= clock
  /\ \A id \in Stored(receipts) : ReceiptValid(id)
  /\ Cardinality(Stored(receipts)) <= QuotaCapacity

\* Every counter and expiry key is rebuilt at the stored clock, then pruned.
recoverQuota ==
  LET keys == UNION {ExpiryKeys(Recovered[id], clock) : id \in Stored(receipts)}
      gone == {id \in Stored(receipts) : /\ LatestEnd(receipts[id]) <= clock
                                         /\ ready[id] = Absent /\ pending[id] = Absent}
  IN /\ version = 2 => RecoveryAccepts
     /\ expiry' = keys
     /\ retire' = {RetireKey(receipts[id]) : id \in Stored(receipts) \ gone}
     /\ counters' = [x \in DOMAIN counters |->
                       [line \in Lines |-> Total(Charged(keys, Recovered, x[1], x[2]), line)]]
     /\ receipts' = [id \in Ids |-> IF id \in gone THEN Absent ELSE Recovered[id]]
     /\ receiptCount' = Cardinality(Stored(receipts) \ gone)

OpenLedger ==
  /\ initLimits
  /\ recoverQuota
  /\ Migrate
  /\ Archive
  /\ UNCHANGED <<log, metadata, created, invalidBounds>>

-----------------------------------------------------------------------------
(* The format 1 operations in the presence of the ledger.                  *)

LegacyReserve(id, payload) ==
  receipts[id] = Absent /\ Reserve(id, payload) /\ UNCHANGED quotaVars
LegacyReserveWithLimits(id, payload, policy, now) ==
  version = 1 /\ ReserveWithLimits(id, payload, policy, now) /\ UNCHANGED quotaVars
LegacyUpdatePending(id, payload) == UpdatePending(id, payload) /\ UNCHANGED quotaVars
\* A defect: a quota call may be completed without its settlement.
LegacyComplete_AnyCall(id, payload) == Complete(id, payload) /\ UNCHANGED quotaVars
LegacyComplete(id, payload) ==
  receipts[id] = Absent /\ Complete(id, payload) /\ UNCHANGED quotaVars

-----------------------------------------------------------------------------
(* The specification.                                                      *)

Months == {MonthStart(t, z) : t \in Times, z \in Zones}
CounterKeys ==
  Accounts \X ({Active} \cup {<<w, 0>> : w \in Rolling} \cup {<<"month", m>> : m \in Months})

Init ==
  /\ QueueInit
  /\ version = 1
  /\ zone = Nil
  /\ coverage = 0
  /\ receipts = [id \in Ids |-> Absent]
  /\ counters = [x \in CounterKeys |-> Zero]
  /\ expiry = {}
  /\ retire = {}
  /\ created = [a \in Accounts |-> Absent]
  /\ invalidBounds = {}
  /\ receiptCount = 0
  /\ archive = [id \in Ids |-> Absent]

Next ==
  \/ \E id \in Ids, payload \in Payloads :
       \/ Fresh(id) /\ LegacyReserve(id, payload)
       \/ \E policy \in Policies, now \in Times :
            Fresh(id) /\ LegacyReserveWithLimits(id, payload, policy, now)
       \/ LegacyUpdatePending(id, payload)
       \/ LegacyComplete(id, payload)
       \/ \E policy \in Policies, bound \in Bounds, recovery \in Settlements, now \in Times :
            Fresh(id) /\ ReserveWithQuotaRecovery(id, payload, policy, bound, recovery, now)
       \/ \E interrupted \in Settlements : UpdatePendingQuota(id, payload, interrupted)
       \/ \E actual \in Settlements, now \in Times : CompleteQuota(id, payload, actual, now)
  \/ \E id \in Ids, policy \in Policies, bound \in Bounds, z \in Zones, now \in Times :
       Fresh(id) /\ PreflightWithQuota(id, policy, bound, z, now)
  \/ \E id \in Ids : Ack(id) /\ UNCHANGED quotaVars
  \/ \E now \in Times : AccountUsage(now) /\ UNCHANGED quotaVars
  \/ \E now \in Times : AccountQuotaUsage(now)
  \/ \E z \in Zones, now \in Times : EnableQuota(z, now)
  \/ OpenLedger

Spec == Init /\ [][Next]_vars

-----------------------------------------------------------------------------
(* Properties.                                                             *)

\* What quota-entries-v2 stores for a call.
Receipt ==
  [id : Ids, at : Nat, month : Int, accounts : SUBSET Accounts, bound : Bounds,
   state : {"active", "complete", "interrupted"}, actual : Settlements, recovery : Settlements,
   digest : {Nil} \cup (Settlements \X Payloads), overrun : BOOLEAN]

ASSUME LedgerAssumption ==
  /\ Absent \notin Nat /\ Nil \notin Nat /\ Absent \notin Receipt
  /\ Rolling \subseteq {"minute", "five_hours", "seven_days"}
  /\ QuotaCapacity \in Nat \ {0}
  /\ MonthLength \in Nat \ {0}
  /\ Length \in [Rolling -> Nat \ {0}]
  /\ Offset \in [Zones -> Nat]
  /\ Unsettled \in Settlements
  /\ \A s \in Settlements \cup Bounds :
       /\ s.tokens \in Nat \cup {Nil} /\ s.money \in Nat \cup {Nil}
       /\ s.money # Nil => s.currency \in Currencies
  /\ \A policy \in Policies : \A a \in DOMAIN policy :
       /\ policy[a].created \in Nat
       /\ policy[a].tokens \in [Windows -> Nat \cup {Unlimited}]
       /\ policy[a].money \in Nat \cup {Unlimited}

\* Open never refuses a ledger that the operations and earlier restarts wrote:
\* the cross-checks of recoverQuota (a fallback for every active receipt, none
\* for a settled one, the digest of the fact that waits for delivery, months,
\* registered accounts, the clock) hold in every reachable state.
RecoveryNeverRefused == version = 2 => RecoveryAccepts

Account(a) == {id \in Stored(archive) : a \in archive[id].accounts}
InWindow(entry, w, month, instant) ==
  IF w = "month" THEN entry.month = month ELSE entry.at > instant - Length[w]

\* No settled call has left a window before the window's end.
UsageKept ==
  \A id \in Stored(archive) : archive[id].state # "active" =>
    ExpiryKeys(archive[id], clock) \subseteq expiry

\* Each counter is the sum over the calls that belong in it, incrementally kept
\* or rebuilt: the calls in flight for "active", and for a window the settled
\* calls whose window has not been expired.  No settled call leaves a window
\* before the window's end, whatever restarts, prunings and acknowledgements
\* came between.  And no state makes every later admission fail: at any coming
\* instant both prunings succeed (each of their errors rolls back the admission
\* that pruned).
CountersAreProjections ==
  /\ \A a \in Accounts, line \in Lines :
       counters[<<a, Active>>][line] =
         Total({archive[id] : id \in {i \in Account(a) : archive[i].state = "active"}}, line)
  /\ \A x \in CounterKeys : x[2] # Active => \A line \in Lines :
       counters[x][line] = Total(Charged(expiry, archive, x[1], x[2]), line)
  /\ UsageKept
  /\ \A now \in Times :
       LET instant == logicalLimitTime(now) IN CanPrune(instant) /\ CanPruneQuota(instant)

\* The receipt that makes a repeated settlement idempotent is there as long as
\* the call's fact is in the journal, and the capacity check counts it.
ReceiptsOutliveFacts ==
  /\ \A id \in Stored(archive) :
       (pending[id] # Absent \/ ready[id] # Absent) => receipts[id] # Absent
  /\ receiptCount = Cardinality(Stored(receipts))
  /\ receiptCount <= QuotaCapacity

TokenCharge(entry) == Amount(entry, entry.actual.tokens, entry.bound.tokens)
MoneyCharge(entry) == Amount(entry, entry.actual.money, entry.bound.money)

\* What a newly admitted call is charged against: itself, every call of the
\* account in flight, and every settled one in the window, ever admitted.
Competing(a, w, entry) ==
  {archive'[id] : id \in {i \in Ids : /\ archive'[i] # Absent
                                      /\ a \in archive'[i].accounts
                                      /\ \/ archive'[i].state = "active"
                                         \/ InWindow(archive'[i], w, entry.month, entry.at)}}

Exceeded(entry) ==
  \/ entry.actual.tokens # Nil /\ entry.bound.tokens # Nil /\ entry.actual.tokens > entry.bound.tokens
  \/ entry.actual.money # Nil /\ entry.bound.money # Nil /\ entry.actual.money > entry.bound.money

\* A constrained call is not admitted on a bound that a settlement exceeded.
BoundsTrusted(entry, policy) ==
  (\E a \in DOMAIN policy : Constrained(policy[a])) =>
    \A id \in Stored(archive) :
      Exceeded(archive[id]) => archive[id].bound.revision # entry.bound.revision

\* No quota-aware admission takes an account over a hard ceiling: the proven
\* usage of what was settled plus the bounds of what is not stays within it,
\* with nothing unknown, counted over the whole history.  And once a settlement
\* exceeded the bound it was admitted with, no constrained call is admitted on
\* that bound revision again, after a restart or the pruning of the receipt too.
CeilingsRespected ==
  [][\A i \in DOMAIN log' \ DOMAIN log :
       LET entry == archive'[log'[i].id] policy == log'[i].policy
       IN entry # Absent =>
            /\ \A a \in DOMAIN policy :
                 /\ \A w \in Windows :
                      policy[a].tokens[w] # Unlimited /\ ~(w = "month" /\ policy[a].tokensSoft) =>
                        /\ \A e \in Competing(a, w, entry) :
                             Line(e, "tokens", e.actual.tokens, e.bound.tokens)[2] # "unknown"
                        /\ MapThenSumSet(TokenCharge, Competing(a, w, entry)) <= policy[a].tokens[w]
                 /\ policy[a].money # Unlimited /\ ~policy[a].moneySoft =>
                      /\ \A e \in Competing(a, "month", entry) :
                           Currency(e) = policy[a].currency \/ MoneyCharge(e) = 0
                      /\ MapThenSumSet(MoneyCharge, Competing(a, "month", entry)) <= policy[a].money
            /\ BoundsTrusted(entry, policy)]_vars

\* The ledger implements CallFacts over pairs: the settlement that is charged
\* for a call and the fact that is delivered for it are drafted, revised, made
\* final and interrupted together, and are final at the same moment.
Evidence(id) ==
  IF receipts[id] = Absent THEN Unsettled
  ELSE IF receipts[id].state = "active" THEN receipts[id].recovery ELSE receipts[id].actual

SettledFacts == INSTANCE CallFacts WITH
  Payloads <- Payloads \X Settlements,
  facts <- [id \in Ids |->
              IF ready[id] # Absent THEN [kind |-> "final", payload |-> <<ready[id], Evidence(id)>>]
              ELSE IF pending[id] # Absent
                   THEN [kind |-> "draft", payload |-> <<pending[id], Evidence(id)>>]
              ELSE [kind |-> "none"]]

ImplementsSettledFacts == SettledFacts!Spec
=============================================================================
