# RouteX: a TLA+ verification of the gateway and its control plane

RouteX is a gateway between the members of an organisation and providers of
language models. A request is authenticated, routed to one of several upstream
targets, metered against rate, concurrency, token and money limits, and recorded
once. Around it a control plane keeps users, keys, credentials and limits, and
several servers share one database.

This project models the parts in which a mistake costs money, data or access and
which tests hardly reach: the durable accounting of a request, the use and the
destruction of provider credentials, the publication of revocations, the
delivery of keys, sign-in, the rotation of the root key, and notices. Each part is
modelled with its crashes, lost answers, stalls and interleavings.

## 1. Inventory

| Component | State it keeps | Operations | Talks to | Modules |
|---|---|---|---|---|
| Call journal, `pkg/eventqueue/queue.go`, `limits.go` | bbolt buckets: pending and ready calls, rate events, leases, counts, a logical clock | `Reserve*`, `UpdatePending`, `Complete`, `Ack`, `AccountUsage`, `Open` | call recorder | `EventQueue`, `CallFacts` |
| Quota ledger, `quota*.go` | receipts, counters per account and window, expiry keys, retired bounds | `EnableQuota`, `ReserveWithQuota*`, `UpdatePendingQuota`, `CompleteQuota`, `recoverQuota` | in the journal's transactions | `QuotaLedger` |
| Journal binding, `service/resource_limits_runtime.go`, `quota_settings.go` | an identity and a time zone, each in the database and in the file | `StartCallRecorder`, `bindLimitJournal`, `validateQuotaJournal`, `ensureQuotaActive`, `WriteQuotaSettings` | journal, database | `JournalBinding` |
| Retry loop, `pkg/routeattempt` | the progress of one run | `Run`, `selectAttempt` | hooks of the service | `RouteAttempt` |
| Execution and recording, `service/gateway_attempt_*.go`, `call_recorder.go`, `call.go`, `handler/gateway.go` | attempts and their evidence, the fact, the delivery loop | `executeGatewayAttempt`, `AdmitGatewayCall`, `CheckpointGatewayCall`, `PersistGatewayCall`, `FlushCallRecorder`, `RecordCall` | all of the above, the provider | `GatewayCall` |
| Credential source holders, `service/credential_source_{holders,finite,process}.go` | reference counts, closed, poisoned and drained sources, process tickets | acquire, release, `closeOnly`, `closeAndWait`, deny, join | requests, cleanup | `CredentialHolders`, `SourceGate` |
| Credential cleanup, `credential_source_drain.go`, `provider_credential_*cleanup.go`, `system_instance.go` | process generations and their leases, denials, commands | expose, deny, join, close, claim, destroy, retire | every server, the Vault | `CredentialDrain` |
| Runtime snapshot, `service/runtime*.go` and the control-plane writes | published authorizations with a lease, tombstones, publication commands | `RefreshRuntime`, invalidations, every write that changes what is served | database, every request | `RuntimeSnapshot`, `RuntimeOperations` |
| Managed key delivery, `service/api_key_delivery_*.go` | command rows, pending keys, policies, targets, attestations | issue, claim, write, acknowledge, abandon, revoke, publish | Vault, runtime | `KeyDelivery` |
| Sign-in, `service/{auth,mfa,oidc,oauth,saml,ldap,named_identity,emergency,authentication_policy}*.go` | sessions, flows, bindings, factors, providers, the enforcement policy | every way to begin and end a session | identity providers | `SignIn` |
| Root key rotation, `service/root_key_*.go`, `pkg/secretstore` | keys, a job with a checkpoint and a lease, the key that wraps each secret | start, resume, rollback, retire, the worker's pages | every reader and writer of a secret | `RootRotation` |
| Alerts, notices, mail, `service/notification*.go`, `smtp*.go`, `provider_quality_evaluation.go` and others | alerts, notices, mail intents under leases | reconcile, edit, read, claim, send, settle | operators, relay | `AlertBoard`, `MailDelivery`, `Notices` |
| Quota warnings, `service/*quota_{warnings,notifications}*.go` | state rows, episodes, warnings | observe, re-arm, roll back | ledger, runtime | `QuotaWarnings` |
| Other parts | catalogue, teams, projects, requests and approvals, offboarding, archives, prices, website | administrative transactions, parsing, presentation | database | partly, by their effect on the runtime |

What makes each part correct, in a sentence:

* *Journal*: an accepted fact is neither lost nor changed, limits hold over the
  whole history, and `Open` accepts every file the operations can leave.
* *Ledger*: ceilings hold, a call is settled once, usage that counts is not
  forgotten.
* *Binding*: a server never serves without the journal that holds the calls it
  owes, and no failed start locks that journal out.
* *Request*: work is never repeated, no record says "no work" when there was
  some, and each admitted call becomes one row.
* *Credentials*: what is reported as drained has no user, nobody uses an object
  whose destruction is claimed, and it is destroyed once.
* *Runtime*: a revocation that was reported binds, and no server serves on facts
  older than its lease.
* *Key delivery*: a key is served only if its secret arrived; the row tells the
  truth and keeps telling it.
* *Sign-in*: every session row is still justified by what is in force now.
* *Rotation*: no secret ever needs a key that has been retired; readers reopen
  and a rotation comes to rest, once the routing data does.
* *Notices*: a mail is sent at most once and settled; each warning is given once.

What is hard here: requests, delivery loops, workers and providers run
concurrently on several servers; a process can die between any two transactions;
a commit can take place although its caller was told otherwise; leases run out
under a stalled owner; clocks differ and step back. The list is in
`PROJECT.json` under `hazards`, each at its line.

## 2. Modules

| Module | Models | Builds on |
|---|---|---|
| `CallFacts` | the promise of the journal: draft, revise, settle or interrupt once, acknowledge | |
| `EventQueue` | file format 1 | refines `CallFacts` |
| `QuotaLedger` | file format 2 and its activation in a used file | extends `EventQueue`; refines `CallFacts` over pairs of fact and settlement |
| `RouteAttempt` | `pkg/routeattempt` | |
| `JournalBinding` | start of the recorder, identity and time zone of the journal | |
| `GatewayCall` | one request from selection to its row | extends `RouteAttempt` and `JournalBinding`; uses the journal through `CallFacts` |
| `SourceGate` | the promise of the registry of one process | |
| `CredentialHolders` | the registry at the granularity of its locks | refines `SourceGate` |
| `CredentialDrain` | the fleet protocol up to the destruction | uses the gate's state per process |
| `RuntimeOperations` | the part each control-plane write plays in publication | |
| `RuntimeSnapshot` | refresh, tombstones, leases, publication command, admission | extends `RuntimeOperations` |
| `KeyDelivery` | the managed issue of a key | |
| `SignIn` | sign-ins and everything that ends a session | |
| `RootRotation` | rotation of the root key | |
| `AlertBoard`, `MailDelivery`, `QuotaWarnings` | the three parts of notices | |
| `Notices` | their composition | extends all three |
| `JournalProofs` | theorems | `EventQueue`, `QuotaLedger` |
| `CredentialHoldersProofs`, `CredentialDrainProofs`, `SignInProofs`, `RootRotationProofs`, `NoticesProofs` | theorems | the module they name |
| `PublicationProofs` | theorems | `RuntimeSnapshot`, `KeyDelivery` |
| `GatewayCallProofs` | theorems about the retry loop and the request around it | `GatewayCall`, which extends `RouteAttempt` |
| `MC*` | small instances for TLC | |

**Transactions.** A bbolt operation, or a database transaction that takes the
governance lock or the row's lock first, commits as a whole: it is one action.
Its guard is the conjunction of the conditions under which the code does not
return early. Whatever happens between two transactions of one handler may
interleave with everything else. A commit whose answer is lost is the same
action with the answer FALSE (`heard`, `ok`). A transaction that reads before it
waits for its locks is two actions, the reading and the writing, with everything
else in between: the reconciliations of `AlertBoard`.

**EventQueue.** The buckets are functions (an absent key is `Absent`, `{}` or 0),
`events` is the set of rate events, `sequence` the number the code uses as their
count, `clock` the stored logical time. `log` is a history variable of all
admissions; the rate property counts over it, since the events are pruned.

**QuotaLedger.** Receipts, counters per account and window with used, held and
unknown amounts of tokens and, per currency, money. `archive` is a history
variable. The rolling windows of the code differ only in length and are the
constant set `Rolling`; decimals are integers.

**RouteAttempt.** A step goes from the return of one hook to the call of the
next. Eligibility is an arbitrary set at each selection, the weighted draw an
arbitrary candidate of positive weight, the outcome of `Execute` any record.

**JournalBinding.** `recorder` is how far `StartCallRecorder` has come. The row
`limit_installation` is named, the file bound and the row marked initialized by
separate transactions; likewise the zone is frozen in `quota_settings` before the
file's ledger is activated. A start fails or dies anywhere in between. The
operator may start the server on a missing file, and put the old one back. One
server runs at a time: bbolt locks the file, and the code supports one journal
per installation. Left out: two servers on different files that race for the
first binding, and a file that was bound by an aborted first start, removed, and
put back after another file was initialized; it carries the same identity and
would be accepted.

**GatewayCall.** `fact` is what the journal holds for the request, `row` its row,
`flush` the entry the delivery loop has in hand. A fact is reduced to its
evidence and to what it settles: zero, measured or unknown. The provider is
external: it may act on an attempt it was sent (`open`) at any later time
(`worked`), also after the gateway has given up or died. Assumed of it is only
that an answer the code takes as a proof comes from a provider that did not work.
A crash loses the memory of the process and keeps the journal and the row.

**CredentialHolders, SourceGate.** A user is a request or a finite operation of
an SDK; releasing a holder is two critical sections, the holder's mutex and the
registry's, and everything may happen between them. The gate knows only who uses
what, what is closed and what is drained.

**CredentialDrain.** A process is one generation: it starts once and crashes or
stops for good. Users are counted up to `MaxUsers` per process. The object is one
published Vault object; a command is one attempt of an operator to destroy it.

**RuntimeSnapshot, RuntimeOperations.** The module is one server; of writes on
another it sees the commit. A write is described by what it pins, which effects
it can have, when it raises the tombstone, how it refreshes and what it confirms.
The writes that raise a tombstone or publish are in the table and mapped to their
functions. Two are not: `SetAuthenticationPolicy`, whose fence is the new policy
itself, kept beside the snapshot, with an epoch and no tombstone (what it does to
sessions is in `SignIn`), and the retirement of a root key, which takes the
publication gate to read and changes nothing that is published (`RootRotation`).

A tombstone is `deniedKeys.Store(id, epoch.Add(1))`: its epoch is drawn
(`DrawEpoch`) and then stored (`Fence`), and only the publication gate holds the
two together. Without the gate an older epoch may be stored over a younger one,
and a refresh that began between the two and read the database before the younger
write committed then clears the tombstone and publishes what that write has
revoked. `Lapses` states that case exactly. The revocation still takes effect by
the refresh its handler goes on to run, which is why a revocation reported as
published is honoured without exception, and a barrier under the gate never lapses.

**KeyDelivery.** The original request (`stack`) and its duplicates (`dup`) run on
two processes. A revision a row remembers is kept as the question whether it is
still the current one. `vault` counts the versions written.

**SignIn.** The rows are the state. Random revisions and ids are names that are
only compared; a new one is the least name nothing refers to, which keeps the
state finite without a counter. The flags `cut` and `late` of a flow, challenge
or session are history: the method was excluded, disabled or reconfigured while it
was open; the binding is younger than the sign-in. Every sign-in under way can be
cut, a password sign-in and an emergency sign-in too. `NoRevival` excepts the
password sign-in, as the code does: `beginLogin` looks at the policy of the moment
it makes the session, so one in flight outlives a policy that was forced and
lifted meanwhile. That a binding is younger is compared by creation time in the
code; in the model the order of the transactions stands for it, so clocks of
servers that disagree are not covered.

**RootRotation.** A secret is the version of the key that wraps it. A deployment
says how many secrets, servers, writers, readers, epochs and faults there are, and
which of the secrets routing is built from. Of a server's routing snapshot, whose
id is new with every changed publication, two facts are kept: whether it shows the
stored routing data (`published`, part of the proof every command and every
observation needs) and whether it is the one the job recorded last (`observed`).
Saving or rewrapping a routed secret, and `Configure`, every other write of
routing data, outdate the snapshots of all servers; a refresh publishes a new one,
which starts the observation again ("changed publication resets continuity",
`docs/SECRETS.md`), and a write between a refresh and its proof blocks the job. So
a rotation may be held up for ever by writes of routing data:
`RotationSettles` is stated for behaviours in which these come to rest, and
without that condition TLC finds the endless restart.

**Notices.** A behaviour follows one source: a group of the alert board, a quota
account, or a test mail. Their rows are disjoint, so nothing is lost by that.
`open` holds what the transactions of reconciliations have read; any number of
servers run them. The candidates, and whether an incident is known, are read
without a lock. The row of the alert is locked when an occurrence is recorded;
the newest occurrence and the alert a recovery resolves are read without one.
The transactions ask for no isolation level, so `isolation` is the default of the
database: with "committed" (PostgreSQL) such a read sees what is committed when it
is made, with "snapshot" (MySQL) what was committed at the transaction's first
read. `AlertsTrue` claims what holds at both levels, and the order of occurrences
only where the transaction finds them all (`FindsAll`). What it does not claim, because
the code does not give it: on MySQL a late older fact may be taken for the newest
one and open the alert again; and at either level a server that read a recovery
may resolve the alert after another one has opened it for a newer incident, which
the next reconciliation does not undo while the incident is known.

## 3. Runs

| Run | Instance | Distinct states |
|---|---|---|
| `event_queue` | 3 requests, 2 accounts, a minute of 2 ticks, clock readings in any order, capacity 2, history 3 | 252,350 |
| `quota_tokens` | 3 requests, 1 account, history of 2 receipts, a window of 1 tick, TPM, a month of 3 ticks | 82,917 |
| `quota_money` | 2 requests, a key under its user, two currencies, an alert-only limit | 25,927 |
| `gateway_call` | 3 targets with 4 pairs of target and credential on 2 connections, budget 3, 2 time zones, any number of starts and crashes | 47,669 |
| `credential_holders` | 2 objects, room for 1 entry, 3 users, 1 closer | 104,674 |
| `credential_drain` | 2 generations, 2 commands, 1 user each | 1,830,154 |
| `runtime_publication` | every write beside a handler that revokes without the gate or asks for a publication, 1 subject, a lease of 1 tick | 1,109,665 |
| `key_delivery` | 1 issue with duplicates, 2 processes | 482,485 |
| `key_delivery_duplicate` | 1 process; expected to be violated | |
| `sign_in` | 8 deployments: each method alone with one member, forced sign-on resting on another method, two members and the policy, two sign-ins at once through SAML and through LDAP | 335,645 |
| `root_rotation` | 2 keys, up to 2 secrets, one of them routed, up to 2 servers, 4 deployments, pages of 2, up to 4 epochs | 239,539 |
| `notices` | 2 workers, 1 recipient, every kind of source with its facts at 3 places, 2 transactions open at once, both isolation levels where they differ, 15 pairs of quota scope and family, 3 sampling times | 668,775 |

What each shows:

* `event_queue`: the counts, leases and history agree (`SlotsExact`), capacity
  holds and `Open` never refuses (`WithinBounds`), limits hold over the whole
  history (`LimitsRespected`), and the journal implements `CallFacts`.
* `quota_tokens`, `quota_money`: an admission never passes a ceiling
  (`CeilingsRespected`); counters are what the receipts add up to
  (`CountersAreProjections`); a receipt outlives the fact it settles; recovery
  accepts every file; fact and settlement become final together
  (`ImplementsSettledFacts`).
* `gateway_call`: replay only over idle attempts (`ReplayedOnlyIdle`), no refused
  path twice (`NeverRetried`), no free work, one execution, a record that is
  never lost to a crash, a failed write or a start on another file
  (`RecordFaithful`), delivery (`EveryCallRecorded`) and use of the journal by its
  promise (`UsesCallFacts`).
* `credential_holders`: a reported drain is real and no channel is closed twice
  (`DrainIsReal`), a denied source drains (`DenialDrains`), and the registry
  implements its gate.
* `credential_drain`: `NoUserOfDestroyed`, `OneDestruction`.
* `runtime_publication`: `RevocationHonoured`, `StalenessBounded`,
  `CommandOutcomeTrue` and, wherever it was committed, `RevocationTakesEffect`.
* `key_delivery`: `ServedWasDelivered`, `OutcomeTrue`, `OutcomeIsFinal`.
* `sign_in`: `EverySessionJustified`, `FactorRequired`, `NoRevival`.
* `root_rotation`: `NoRowNeedsRetiredKey`, `DrainedAtRetirement`,
  `ReadersReopen`, `RotationSettles`.
* `notices`: `MailTruth`, `DeliverySettles`, `AlertsTrue`, `WarnedOnce`.

`EveryCallRecorded` states the exceptions of the code: when the journal refuses
the final fact, the handler logs it and gives up, and the fallback waits for the
next start; and an operator who takes the file away stops its delivery.

**Finding.** `key_delivery_duplicate` shows a disagreement between code and
comment. A duplicate of a managed issue that read the command before it was
claimed passes the process check with its stale row and records the command as
given up while the original of the same process is writing the secret
(`api_key_delivery_recovery.go:273`; the comment at line 270 says such duplicates
"cannot stop an active original stack"). It fails safe: the key is revoked and the
late acknowledgement ignored, as `OutcomeIsFinal` shows.

**Why the bounds are enough.** The limit properties are about two admissions of an
account and what lies between them; the third request reaches the capacity. Two
ticks separate inside, edge and outside of a window. In the retry loop there are
more pairs than the budget, and one credential serves two targets. The registry
needs two users to hold an object while a third is refused by the capacity. The
drain is about one generation that never hears of the denial and one that acts on
it; two commands compete for the object. A write of the runtime can be overtaken
by one other write and by a refresh already under way, and those three are all a
lapse needs. Two open reconciliations and three places are an older fact, a newer
one and what lies between; one fact, or none, is never found too late. A sign-in can be cut by
any other operation while it is open, and `Overlapping` opens two. The rotation
needs a writer prepared under an old view, a replaced worker, a way back and a
publication that changes under the observation, and each deployment has some of
them; of two secrets one is routed, so that saving goes on when routing rests. The proofs of section 4 remove the bounds for the
safety properties of every passing run.

**Symmetry and views.** Symmetry is used in the ledger's runs, `credential_drain`
and `key_delivery`, none of which checks liveness. `MCSignIn` defines a VIEW that
replaces names by whether they are current: names are only compared, and the
properties ask no more of them.

**Deadlock** is not checked where the system really may come to rest: a request
that has been recorded, an object destroyed, a command settled, every bounded
source of events used up.

**Fairness.**

* `GatewayCall`: weak fairness of the request's own steps (every hook is bounded
  by a deadline) and of a restart; strong fairness of the delivery loop's
  reading, of a delivery and an acknowledgement that succeed, and of each step of
  a start that succeeds. Journal, database and process may fail any number of
  times, but not every time. A refusal is not a failure: a start that the code
  refuses is not assumed to succeed.
* `CredentialHolders`: operations that have begun end (requests and SDK calls
  have deadlines); strong fairness of taking the holder's mutex.
* `RuntimeSnapshot`: only the clock goes on. No refresh is assumed to succeed.
* `RootRotation`: a worker's turn on the mutex (strong: a waiter on a Go mutex is
  not starved), work that has been started, restarts, and leases that run out.
  Nothing is assumed of writers, of refreshes outside the worker's run or of
  administrators; that routing data comes to rest is the premise of the property.
* `Notices`: the workers' tickers, the steps of a send (bounded by a timeout), and
  leases that run out.
* The other specifications assume none.

## 4. Proofs

Each module proves an inductive invariant, checked by TLC on the run's instance
first, and derives the properties from it. The theorems hold for every value of
the constants that the named assumptions admit.

**JournalProofs**, first part: the journal alone, for every finite set of requests and accounts, all limits,
every capacity and all clock readings (`QueueAssumption`):

* `TypeCorrect`, `CountersCorrect` (`SlotsExact`), `BoundsCorrect`
  (`WithinBounds`). The invariant adds that the events are finite, that a call is
  in one bucket only (`OneBucket`; without it the restart, which moves pending into
  ready, would not keep the capacity) and that every event belongs to an admitted
  call (`EventsLogged`; so an admission adds exactly one new event per account).
* `LimitsHold` (`LimitsRespected`). The property counts over the log of all
  admissions, the code over its indexes. `History` relates them: entries of the
  log have distinct identifiers, each admission of the last minute of logical time
  still has its events, and a pending call holds a slot of each of its accounts.
  The counted entries then inject into the events or leases, which are counted
  exactly, and the check at the admission bounds those.
* `JournalImplementsFacts` (`ImplementsCallFacts`). Reserving is `Accept` (the
  buckets are disjoint, so the entries are the facts held), updating is `Revise`,
  completing is `Settle` or nothing, an acknowledgement is `Acknowledge` or
  nothing, and a restart is `Interrupt`.

**JournalProofs**, second part: the journal with its ledger, for all of this and every
set of zones, policies, bounds, settlements and rolling windows
(`LedgerAssumption`: the empty row is not a receipt, rolling windows are the three
the code has, amounts are natural numbers or unknown and ceilings natural numbers or
none, as the fields and the validation of a policy have them, and an amount of money
has a currency).

* `LedgerInvariance` is the queue's invariant with what the ledger's rows say of
  each other: a stored receipt has the form recovery demands (`ReceiptValid`), a
  retirement key is the one computed from its receipt (`KeysMatch`; otherwise a
  key could remove the receipt of a fact still in the journal), only admitted calls
  have had receipts (`ArchivedAdmitted`), a file of format 1 has none
  (`NothingBefore`), and the clock covers the stored instants (`ClockCovers`).
* From it: `OpenAccepts` (`RecoveryNeverRefused`), `ReceiptsStay`
  (`ReceiptsOutliveFacts`), `LedgerKeepsJournal` (the journal's counters and bounds
  in the composition) and `LedgerImplementsFacts` (`ImplementsSettledFacts`): fact
  and settlement evidence take the steps of `CallFacts` together.
* `CountersTrue` (`CountersAreProjections`). The code keeps a counter per account and
  window and adds to it, subtracts from it or rebuilds it; the property says that it
  is the sum over the receipts it stands for. `CounterInv` states that sum through the
  pending calls and expiry keys, and one lemma per transaction (`CounterReserved`,
  `CounterUpdated`, `CounterSettled`, `CounterRebuilt`) shows that what is added or
  subtracted is what entered or left it. The lemmas about sums (`SumSplit` and those
  built on it) are for any finite set: the order of the fold does not matter.
* `CeilingsHold` (`CeilingsRespected`). The property counts over the archive of all
  receipts ever stored, the check over the counters. `CompetingKept` shows that
  whatever still competes in a window at the moment of an admission is in flight or
  has a key that is not due, because the logical clock never goes back and keys are
  pruned only when due; so the sum over the archive is at most the counters that were
  compared with the ceiling.
* `UsageIsKept`, the part of `CountersAreProjections` without sums (`UsageKept`
  and `KeysReadable`). It needs that each expiry key stands for a window of a stored,
  settled receipt (`KeysStand`), and that what has left the store had left its last
  window (`ArchiveFollows`): restarts rebuild the keys from the store only, so a
  receipt retired too early would silently free its usage.
* `OverrunNeverTrusted`, the part of `CeilingsRespected` without sums
  (`BoundsTrusted`). The revisions of exceeded bounds outlive the receipts that
  showed them (`OverrunsRemembered`); evidence taken over at a restart cannot exceed
  its bound (`RecoveryWithin`), so recovery adds none.

**GatewayCallProofs**, first part: the retry loop, for every plan `New` accepts
(`PlanAssumption`), every answer of the hooks and every cancellation: `RunTypeCorrect`, `ReplaySafe`,
`NoRepetition`, `WithinBudget`, `AdmissionFirst`. `NeverRetried` compares recorded
attempts, so its inductive form needs that the progress sets hold all that was
ruled out (`Remembered`), that a choice differs from each of them
(`ChoicesFresh`), and that the attempt under way stays so (`CurrentFresh`).

**GatewayCallProofs**, second part: the request, for every plan, budget and set of time zones
(`PlanAssumption`, `BindingAssumption`, and `CallAssumption`: the empty row is not
a payload): `CallReplaySafe` and `CallNoRepetition` carry the two invariants of
the retry loop over to the composition, where a step is one of the loop's, leaves
it alone or kills it. `NoFreeWorkAlways` and `AtMostOneExecutionAlways` need that,
while the handler runs, at most the attempt under way is open at the provider
(`Execution`), and that the fallback in the journal says so before it is sent and
until there is proof (`Settlement`, `Measured`). `RecordFaithfulAlways` needs that
the record has one author at a time, the handler and then whoever delivers it
(`Recorded`), and what a start may find (`Bound`). `CallUsesJournal`
(`UsesCallFacts`) shows that the request, its delivery loop and restarts take only
steps of `CallFacts`: the specification the journal is proved to implement.

**CredentialHoldersProofs**, for every finite set of users and all objects,
closers and capacities (`CapacityAssumption`, `HolderAssumption`):
`DrainIsRealAlways` (`DrainIsReal`) and `RegistryImplementsGate`
(`ImplementsGate`). Releasing is two critical sections, so the counters lag behind
the users; the invariant has the counters match the unreleased and half-released
holders, an unknown entry blank (`Fresh`), a channel closed exactly when its entry
is denied and empty (`Exact`), a drain somebody was told of lasting (`Told`), a
ticket belong to a finite operation (`Tickets`) and a response left open poison
its entry and the process for good (`Remembered`).

**CredentialDrainProofs**, for any number of generations and commands:
`DrainInvariance`, `DrainSafe` (`NoUserOfDestroyed`), `DestroyedOnce`
(`OneDestruction`). Users exist only in a generation whose exposure is recorded;
a join or a closure is final; and the claim sees one of the two for every
registered generation (`ProcessInv`), while a generation that registers later
reads the denial first. `ClaimInv` and `CommandInv` tie the remote request to the
one command the denial names.

**PublicationProofs**, first part: the runtime, for any handlers, subjects and operations of the table
and every lease (`RuntimeAssumption`): `StalenessBoundedAlways` from `LeaseInv`
(what a snapshot permits was permitted no longer ago than its lease has run),
`RevocationHonouredAlways` from `FenceInv` (a fenced subject is denied by the
snapshot and by the read under way, or has a tombstone that this read may not
clear; a read that may clear a tombstone that is only drawn began after the commit;
none is under way beside a handler that holds the gate), `CommandOutcomeTrueAlways` from `CommandInv` (one handler at most owns the
claimed row).

**PublicationProofs**, second part: the issue of a key, for any requests and processes (`DeliveryAssumption`: no
process is called "none"): `ServedWasDeliveredAlways`, `OutcomeTrueAlways`,
`OutcomeIsFinalAlways`. Without a claim nothing was written (`ClaimedFirst`), the
handler that has the claim is the only one that may write and writes once
(`StackInv`), and what a closed row says matches the key and the Vault (`RowInv`).

**SignInProofs**, for any accounts, identities, sign-ins, session ids and
deployments (`SignInAssumption`: `None` is none of the values it stands beside, and
a deployment's people and sign-ins are among the declared ones): `SessionsJustified`
(`EverySessionJustified`), `FactorNeverSkipped` (`FactorRequired`),
`NothingRevived` (`NoRevival`). The invariant says of each session row that it
stands on the present account, policy, provider and link (`SessionsStand`); each
transaction that changes one of those is shown to take away exactly the rows that
stood on it, and each one that makes a row to have asked for all of it. A sign-in
under way need not stand on anything, except that one which was cut off must not
complete (`FlowsTimely`): a ceremony has left the open states; a directory call
and an emergency sign-in, which have no row, hold a revision that is no longer the
provider's or the policy's. A password sign-in holds none and is excepted. That
the revision never comes back is the one place that needs new revisions to be new
(`FreshName`, `CapturedRevisionUsed`). `Names` may be infinite, so drawing a name
bounds nothing but the run.

**RootRotationProofs**, for any number of servers, keys, secrets, faults and any
page size (`RootAssumption`): `NoSecretLost` (`NoRowNeedsRetiredKey`). A
retirement looks at the rows once, while writers go on. What makes that safe is
`SweptStaysSwept`: as long as the epoch of a job stands, every write that commits
uses its key (`WriteKeyUsable`, `JobFollowsPolicy`), so a row the worker has
passed never needs the old key again; the copies that workers and commands carry
between transactions are of some job that existed (`CopiesAreJobs`).
`RetirementDrained` (`DrainedAtRetirement`) rests on `Guarded`: a command and a run
of the worker exclude each other on a server, so nothing but the retirement itself
installs a view, and readers and view stay closed from the drain to the commit.

**NoticesProofs**, for any recipients, workers, sources, places, caps, amounts and
times and batches of any size (`MailAssumption`: the handler of a test mail is no
worker and its row no recipient's; `BoardAssumption`: places are a finite set of
positive numbers, `Batch` and `Threshold` positive; `WarningAssumption`): `MailTold`
(`MailTruth`), `WarnedOnceAlways` (`WarnedOnce`) and `AlertsTrueAlways` (`AlertsTrue`). `MailTruth` speaks of rows, and a row is written by a worker that
may have been overtaken by a crash or an expired lease. The invariant `MailInv`
therefore follows the mail itself: it was sent at most once (`OneSend`), one worker
at most holds its row (`OneWorker`), and what this worker is about to record
(`JobInv`), what the row says (`RowInv`) and what the test's handler says
(`TestInv`) agree with what went out. An expired lease leaves the row "unknown",
which claims nothing, and a worker that comes back late finds that it has lost it.
`WarningInv` reads the announcements off the history: the row belongs to the last
sample (`LastInv`), reviews come in the order of their revisions (`ReviewInv`), and
a mark stands exactly for an announcement of the episode that goes on
(`EpisodeInv`), which is what makes a second one impossible.

`BoardInv` has the row agree with its occurrences (`IsBoard`), an operator whose ETag
is the row's have seen every occurrence (`ViewTrue`), the running episode be the only
one since its last success (`EpisodesTrue`), and whatever an open transaction is about
to record stand for facts, however long ago it read them (`OpenTrue`). A
reconciliation folds a batch of facts into the board. `Grown` says what any number of
them, in any order, may have made of it: more occurrences, an alert that stays, is
resolved or was opened for one of them, a newer one where the transaction finds them
all, and notices unread only for such a one; `RecordStep` shows it for one fact and
`BatchGrown` for the batch. Why a server that opens the alert of a provider does so for
an incident parted by a recovery from every earlier one is `TransitionNew`: the
incident is computed again under the policy's lock, and the occurrence it opens the
alert for is newer than all that were recorded.

**Sums, folds and batches.** The induction theorems of the library take an operator as
a parameter and cannot be instantiated. The proofs about data of any size use minimal
elements of sets of numbers instead (`WFMin`, which takes a set): `NumberInduction` and
`SubsetInduction`, from which follow that the recursions behind `MapThenSumSet` and
`FoldLeft` have solutions (`FoldExists`, `TakenExists`) and what they compute.

**Only model-checked.** Liveness under fairness and everything with ENABLED are
out of this prover's reach: `EveryCallRecorded`, `DenialDrains`,
`RevocationTakesEffect`, `ReadersReopen`, `RotationSettles`, `DeliverySettles`. Every
other property of a passing run is stated by a theorem.

## 5. Not modelled

* *Reading.* Lists, reports, previews, statistics and audit views, about half of
  the service's code, change no state.
* *Validation and presentation.* HTTP handlers, parsing, field rules, wire
  formats of providers, streaming, prices and decimals, the website, mail texts.
* *Declarations.* Entities, database migrations, configuration, scripts for
  manual acceptance.
* *Administrative rows.* The catalogue, resources, teams, projects, their
  request and approval workflows, offboarding and archives are single
  transactions under the governance lock that compare a revision and write rows.
  What they do to the serving gateway is in `RuntimeOperations`; the rows
  themselves are not modelled.
* *External protocols.* Vault, object store, LDAP, SAML, OIDC and SMTP are what
  they may answer. The creation of a credential in the Vault and the cleanup of
  its orphans before publication are left out; `CredentialDrain` starts with a
  published object.
* *Single items.* The batch of 64 of the delivery loop: a fact that can never be
  stored holds back those behind it, which is what the code does and what no
  comment promises otherwise. Two servers that race for the first binding.

Because most of the repository is of these kinds, the map covers a part of its
lines: the code with state, concurrency and failure.

## 6. Plan

1. Done: the accounting core, its binding and composition; credentials; runtime;
   key delivery; sign-in; rotation; notices; proofs of every safety property of the
   passing runs.
2. Worth modelling next: creation of a credential in the Vault with its orphans;
   several requests in one delivery batch; the controller on the other host.
