---------------------------- MODULE RootRotation ----------------------------
(* Rotation of the root key that wraps every recoverable secret: the write *)
(* policy and the job kept in the database, the worker that rewraps page   *)
(* by page under a lease, the writers that seal before they commit, the    *)
(* readers that a retirement must drain, and the commands of an            *)
(* administrator, on servers that crash, stall and are replaced.           *)
(*                                                                         *)
(* The inventory of all domains is one ordered list of rows.  A ciphertext *)
(* is the key that wraps it; that a copy of it is still the stored one     *)
(* (every envelope is unique) is the set "fresh" of a page, and that a     *)
(* copy of the job still names the stored lease token is its flag "held".  *)
(* Of a server's routing snapshot, whose id is new with every publication, *)
(* it is kept whether it shows the stored routing data (published) and     *)
(* whether it is the one the job last recorded (observed).                 *)
EXTENDS Naturals, Sequences, FiniteSets

CONSTANTS Keys, FirstKey, Processes, FirstProcess, None,
          PageSize,    \* rows of one worker run (50 in the code)
          Deployments  \* what runs, and how far: see below

ASSUME RootAssumption ==
  /\ FirstKey \in Keys /\ None \notin Keys /\ FirstProcess \in Processes
  /\ PageSize \in Nat \ {0}
  /\ Deployments \subseteq
       [rows : Nat,                  \* the length of the inventory
        routed : SUBSET Nat,         \* the rows that routing is built from
        servers : SUBSET Processes,  \* the first one and those that may be started
        writers : SUBSET Processes,  \* the servers that save secrets
        readers : SUBSET Processes,  \* the servers that open secrets
        epochs : Nat,                \* bound on cutovers and retirements
        faults : Nat]                \* bound on crashes, stalls, failed calls, lost answers

VARIABLES
  deployment,  \* constant: a member of Deployments
  policy,      \* [epoch, write, active]: the singleton secret_write_policies row
  keyState,    \* the state of each secret_root_keys row
  row,         \* the key each stored ciphertext is wrapped with, or None
  job,         \* the latest secret_rotation_jobs row, or None
  proc,        \* each server: its instance lease, its view and rootMutation
  work,        \* RunSecretRotationOnce in progress
  cmd,         \* a rootAction in progress
  writer,      \* a secret sealed but not yet committed
  reader,      \* an openSecret (or a vaultReadLease) in progress
  faults

state == <<policy, keyState, row, job, proc, work, cmd, writer, reader, faults>>
vars == <<deployment, state>>

Inventory == 1..deployment.rows
End == deployment.rows + 1    \* past the last domain
Ended == {"completed", "rolled_back"}

(* newRootJob: the cutover epoch names the job, each job has its own. *)
newRootJob(source, target, epoch) ==
  [source |-> source, target |-> target, cutover |-> epoch,
   status |-> "migrating", phase |-> "migration", at |-> 0,
   lease |-> None, claimed |-> FALSE, verified |-> None]

(* installSecretPolicy: the view a server takes of the saved policy. *)
View == [epoch |-> policy.epoch, write |-> policy.write,
         allowed |-> {k \in Keys : keyState[k] # "retired"}]

Fresh == [state |-> "new", live |-> FALSE, view |-> None, closed |-> FALSE,
          shut |-> FALSE, busy |-> FALSE, published |-> FALSE, observed |-> FALSE]

Init ==
  /\ deployment \in Deployments
  /\ policy = [epoch |-> 1, write |-> FirstKey, active |-> FALSE]
  /\ keyState = [k \in Keys |-> IF k = FirstKey THEN "write" ELSE "decrypt_only"]
  /\ row \in [Inventory -> Keys]
  /\ job = None
  /\ proc = [p \in Processes |->
               IF p = FirstProcess
                 THEN [Fresh EXCEPT !.state = "up", !.live = TRUE, !.view = View,
                                     !.published = TRUE]
                 ELSE Fresh]
  /\ work = [p \in Processes |-> None]
  /\ cmd = [p \in Processes |-> None]
  /\ writer = [p \in Processes |-> None]
  /\ reader = [p \in Processes |-> "idle"]
  /\ faults = 0

Up(p) == proc[p].state = "up"
Fault == faults < deployment.faults /\ faults' = faults + 1
Live == {p \in Processes : proc[p].live}

(* loadSecretPolicy reads policy and keys; a pair that a cutover tears is  *)
(* refused or replaced in the next worker run, so the load is one step.    *)
Loaded(q) == [q EXCEPT !.view = View, !.closed = FALSE, !.shut = FALSE]

(* RefreshRuntime: a snapshot of other data than the present one's is new. *)
Refreshed(q) == [q EXCEPT !.published = TRUE, !.observed = @ /\ q.published]

(* The routing data is written: no server's snapshot shows it any more.    *)
Outdated == [p \in Processes |-> [proc[p] EXCEPT !.published = FALSE]]
OutdatedBy(r) == IF r \in deployment.routed THEN Outdated ELSE proc

(* rootCurrentProof: this server's view is the policy's, its snapshot      *)
(* shows the stored data, and it is the only one with an instance lease.   *)
Proof(p) ==
  /\ proc[p].published
  /\ proc[p].view.epoch = policy.epoch
  /\ proc[p].view.write = policy.write
  /\ Live = {p}

rootSameJobPolicy(j) ==
  /\ policy.epoch = j.cutover
  /\ policy.write = j.target
  /\ policy.active
-----------------------------------------------------------------------------
(* Servers.  Start is InitializeSecretStore: every stored row must open.   *)
Start(p) ==
  /\ p \in deployment.servers /\ proc[p].state = "new"
  /\ \A r \in Inventory : row[r] # None => keyState[row[r]] # "retired"
  /\ proc' = [proc EXCEPT ![p] =
                Refreshed(Loaded([Fresh EXCEPT !.state = "up", !.live = TRUE]))]
  /\ UNCHANGED <<policy, keyState, row, job, work, cmd, writer, reader, faults>>

Crash(p) ==
  /\ Up(p) /\ Fault
  /\ \E q \in deployment.servers : proc[q].state = "new"
  /\ proc' = [proc EXCEPT ![p] = [Fresh EXCEPT !.state = "dead", !.live = proc[p].live]]
  /\ work' = [work EXCEPT ![p] = None]
  /\ cmd' = [cmd EXCEPT ![p] = None]
  /\ writer' = [writer EXCEPT ![p] = None]
  /\ reader' = [reader EXCEPT ![p] = "idle"]
  /\ UNCHANGED <<policy, keyState, row, job>>

(* The instance lease runs out: at once or later once the server is dead,  *)
(* and under a server that stalls.                                         *)
InstanceExpires(p) ==
  /\ proc[p].live
  /\ IF Up(p) THEN Fault ELSE UNCHANGED faults
  /\ proc' = [proc EXCEPT ![p].live = FALSE]
  /\ UNCHANGED <<policy, keyState, row, job, work, cmd, writer, reader>>

(* The lease of the job outlives its run (30 s to 10 s) unless the holder  *)
(* stalls.                                                                 *)
LeaseExpires ==
  /\ job # None /\ job.lease # None
  /\ IF work[job.lease] # None /\ work[job.lease].pc # "read"
       THEN Fault ELSE UNCHANGED faults
  /\ job' = [job EXCEPT !.lease = None]
  /\ UNCHANGED <<policy, keyState, row, proc, work, cmd, writer, reader>>
-----------------------------------------------------------------------------
(* Writers: secretEpoch and sealSecret outside the transaction, then the   *)
(* transaction, which guardSecretWrite refuses as a whole.                 *)
TakeEpoch(p) ==
  /\ Up(p) /\ p \in deployment.writers /\ writer[p] = None
  /\ writer' = [writer EXCEPT ![p] = [epoch |-> proc[p].view.epoch, key |-> None]]
  /\ UNCHANGED <<policy, keyState, row, job, proc, work, cmd, reader, faults>>

sealSecret(p) ==
  /\ writer[p] # None /\ writer[p].key = None
  /\ writer' = [writer EXCEPT ![p] =
                  IF proc[p].closed THEN None ELSE [@ EXCEPT !.key = proc[p].view.write]]
  /\ UNCHANGED <<policy, keyState, row, job, proc, work, cmd, reader, faults>>

(* Mutant: the policy is checked, not what was prepared under it. *)
guardSecretWrite_StalePrepared(p) ==
  /\ ~proc[p].closed
  /\ proc[p].view.epoch = policy.epoch
  /\ proc[p].view.write = policy.write

guardSecretWrite(p) ==
  /\ ~proc[p].closed
  /\ proc[p].view.epoch = policy.epoch
  /\ writer[p].epoch = policy.epoch
  /\ proc[p].view.write = policy.write
  /\ writer[p].key = proc[p].view.write

(* Whoever holds a copy of the row holds an old one from here on. *)
Touch(r) ==
  [p \in Processes |-> IF work[p] = None THEN None ELSE [work[p] EXCEPT !.fresh = @ \ {r}]]

CommitWrite(p) ==
  /\ writer[p] # None /\ writer[p].key # None
  /\ writer' = [writer EXCEPT ![p] = None]
  /\ \/ /\ guardSecretWrite(p)
        /\ \E r \in Inventory : /\ row' = [row EXCEPT ![r] = writer[p].key]
                                /\ work' = Touch(r)
                                /\ proc' = OutdatedBy(r)
     \/ ~guardSecretWrite(p) /\ UNCHANGED <<row, work, proc>>
  /\ UNCHANGED <<policy, keyState, job, cmd, reader, faults>>

Delete(r) ==
  /\ row[r] # None /\ deployment.writers # {}
  /\ row' = [row EXCEPT ![r] = None]
  /\ work' = Touch(r)
  /\ proc' = OutdatedBy(r)
  /\ UNCHANGED <<policy, keyState, job, cmd, writer, reader, faults>>

(* A write of routing data that holds no secret: a model, limit, price.    *)
Configure ==
  /\ deployment.writers # {}
  /\ proc' = Outdated
  /\ UNCHANGED <<policy, keyState, row, job, work, cmd, writer, reader, faults>>

(* RefreshRuntime, of the ticker and after a write, which a retirement     *)
(* keeps out until its transaction ended.                                  *)
RefreshRuntime(p) ==
  /\ Up(p) /\ (cmd[p] # None => cmd[p].pc = "load")
  /\ proc' = [proc EXCEPT ![p] = Refreshed(@)]
  /\ UNCHANGED <<policy, keyState, row, job, work, cmd, writer, reader, faults>>
-----------------------------------------------------------------------------
(* Readers: the flag, the count, the flag again and the view's own flag.   *)
(* The count of the view only repeats that of all readers.                 *)
ReadLook(p) ==
  /\ Up(p) /\ p \in deployment.readers /\ reader[p] = "idle" /\ ~proc[p].shut
  /\ reader' = [reader EXCEPT ![p] = "looked"]
  /\ UNCHANGED <<policy, keyState, row, job, proc, work, cmd, writer, faults>>

ReadCount(p) ==
  /\ reader[p] = "looked"
  /\ reader' = [reader EXCEPT ![p] = "counted"]
  /\ UNCHANGED <<policy, keyState, row, job, proc, work, cmd, writer, faults>>

openSecret(p) ==
  /\ reader[p] = "counted"
  /\ reader' = [reader EXCEPT ![p] =
                  IF proc[p].shut \/ proc[p].closed THEN "idle" ELSE "opening"]
  /\ UNCHANGED <<policy, keyState, row, job, proc, work, cmd, writer, faults>>

ReadDone(p) ==
  /\ reader[p] = "opening"
  /\ reader' = [reader EXCEPT ![p] = "idle"]
  /\ UNCHANGED <<policy, keyState, row, job, proc, work, cmd, writer, faults>>
-----------------------------------------------------------------------------
(* The worker. *)
Idle(p) == /\ work' = [work EXCEPT ![p] = None]
           /\ proc' = [proc EXCEPT ![p].busy = FALSE]

Pending == policy.active /\ job.status \notin Ended \union {"blocked"}

(* The start of RunSecretRotationOnce: policy, view, job and publication.  *)
WorkerRead(p) ==
  /\ Up(p) /\ ~proc[p].busy
  /\ LET seen == IF proc[p].view.epoch # policy.epoch THEN Loaded(proc[p]) ELSE proc[p] IN
     \/ /\ Pending
        /\ proc' = [proc EXCEPT ![p] = Refreshed([seen EXCEPT !.busy = TRUE])]
        /\ work' = [work EXCEPT ![p] = [pc |-> "read", job |-> job, held |-> TRUE,
                                        page |-> <<>>, fresh |-> {}]]
     \/ /\ ~Pending
        /\ proc' = [proc EXCEPT ![p] = IF policy.active THEN seen ELSE Refreshed(seen)]
        /\ UNCHANGED work
  /\ UNCHANGED <<policy, keyState, row, job, cmd, writer, reader, faults>>

(* rootSaveLeasedJob behind rootSameJobPolicy: saves the whole copy while  *)
(* the stored token is still the copy's, and refuses it otherwise.         *)
Saves(p) == rootSameJobPolicy(work[p].job) /\ work[p].held
rootSaveCheckpoint(p, j) == job' = IF Saves(p) THEN j ELSE job

Blocked(j) == [j EXCEPT !.status = "blocked", !.verified = None]

(* rootBlock: publication failed, the process is unverified or the page    *)
(* cannot be read.                                                         *)
rootBlock(p) ==
  /\ work[p] # None /\ work[p].pc \in {"read", "claimed"}
  /\ IF work[p].pc = "read" /\ ~Proof(p) THEN UNCHANGED faults ELSE Fault
  /\ rootSaveCheckpoint(p, Blocked(work[p].job))
  /\ Idle(p)
  /\ UNCHANGED <<policy, keyState, row, cmd, writer, reader>>

(* A database error or the deadline ends the run where it stands. *)
WorkerFails(p) ==
  /\ work[p] # None /\ Fault
  /\ Idle(p)
  /\ UNCHANGED <<policy, keyState, row, job, cmd, writer, reader>>

(* What the job's ETag covers. *)
SameETag(j) == job.status = j.status /\ job.phase = j.phase /\ job.at = j.at
               /\ job.cutover = j.cutover

Claimable(p) == job.lease \in {None, p}

rootClaim(p) ==
  /\ work[p] # None /\ work[p].pc = "read" /\ Proof(p)
  /\ \/ /\ Claimable(p) /\ SameETag(work[p].job) /\ policy.epoch = job.cutover
        /\ job' = [job EXCEPT !.lease = p, !.claimed = TRUE]
        /\ work' = [q \in Processes |->
                      IF q = p THEN [work[p] EXCEPT !.pc = "claimed", !.job = job', !.held = TRUE]
                      ELSE IF work[q] = None THEN None ELSE [work[q] EXCEPT !.held = FALSE]]
        /\ UNCHANGED proc
     \/ /\ ~(Claimable(p) /\ SameETag(work[p].job) /\ policy.epoch = job.cutover)
        /\ Idle(p) /\ UNCHANGED job
  /\ UNCHANGED <<policy, keyState, row, cmd, writer, reader, faults>>

Scanning(j) == j.phase \in {"migration", "verification"}

(* rootInventoryPage, and the step past the last domain on an empty page. *)
rootInventoryPage(p) ==
  LET j == work[p].job
      left == {r \in Inventory : r > j.at /\ row[r] # None}
      first == {r \in left : Cardinality({q \in left : q < r}) < PageSize} IN
  /\ work[p] # None /\ work[p].pc = "claimed" /\ Scanning(j) /\ j.at < End
  /\ \/ /\ left # {}
        /\ work' = [work EXCEPT ![p].pc = "page", ![p].fresh = first,
                                ![p].page = [i \in 1..Cardinality(first) |->
                                   LET r == CHOOSE r \in first :
                                              Cardinality({q \in first : q < r}) = i - 1
                                   IN [row |-> r, key |-> row[r]]]]
        /\ UNCHANGED <<job, proc>>
     \/ /\ left = {}
        /\ rootSaveCheckpoint(p, [j EXCEPT !.at = End])
        /\ \/ /\ Saves(p)
              /\ work' = [work EXCEPT ![p].pc = "publish", ![p].job = job']
              /\ UNCHANGED proc
           \/ ~Saves(p) /\ Idle(p)
  /\ UNCHANGED <<policy, keyState, row, cmd, writer, reader, faults>>

(* rootCAS *)
Outcome(p, item) ==
  LET j == work[p].job IN
  CASE item.key = j.target -> "already_target"
    [] item.key # j.target /\ j.phase = "verification" -> "blocked"
    [] OTHER -> IF item.row \in work[p].fresh THEN "rewrapped"
                ELSE IF row[item.row] = None THEN "deleted" ELSE "changed"

(* Mutant: only a rewrapped row moves the cursor. *)
Checkpoint_RewrappedOnly(j, outcome, r) ==
  CASE outcome = "blocked" -> [j EXCEPT !.status = "blocked"]
    [] outcome = "rewrapped" -> [j EXCEPT !.at = r]
    [] OTHER -> j

(* What the transaction of a row leaves in the job. *)
Checkpoint(j, outcome, r) ==
  CASE outcome = "blocked" -> [j EXCEPT !.status = "blocked"]
    [] outcome = "changed" -> j
    [] OTHER -> [j EXCEPT !.at = r]

(* The transaction of one row of rootProcessPage. *)
rootProcessPage(p) ==
  LET item == Head(work[p].page)
      outcome == Outcome(p, item)
      next == Checkpoint(work[p].job, outcome, item.row) IN
  /\ work[p] # None /\ work[p].pc = "page"
  /\ \/ /\ rootSameJobPolicy(work[p].job) /\ work[p].held /\ job.lease = p
        /\ job' = next
        /\ row' = IF outcome = "rewrapped" THEN [row EXCEPT ![item.row] = work[p].job.target]
                  ELSE row
        /\ LET others == IF outcome = "rewrapped" THEN Touch(item.row) ELSE work IN
           \/ /\ outcome = "blocked"
              /\ work' = [others EXCEPT ![p] = None]
              /\ proc' = [proc EXCEPT ![p].busy = FALSE]
           \/ /\ outcome # "blocked"
              /\ work' = [others EXCEPT
                   ![p].job = next, ![p].page = Tail(@),
                   ![p].pc = IF outcome = "changed" \/ Len(work[p].page) = 1
                               THEN "publish" ELSE "page"]
              /\ proc' = IF outcome = "rewrapped" THEN OutdatedBy(item.row) ELSE proc
     \/ /\ ~(rootSameJobPolicy(work[p].job) /\ work[p].held /\ job.lease = p)
        /\ Idle(p) /\ UNCHANGED <<job, row>>
  /\ UNCHANGED <<policy, keyState, cmd, writer, reader, faults>>

(* RefreshRuntime after the page; when it fails the job is read again,     *)
(* token included, and blocked.                                            *)
WorkerPublish(p) ==
  /\ work[p] # None /\ work[p].pc = "publish"
  /\ \/ /\ proc' = [proc EXCEPT ![p] = Refreshed([@ EXCEPT !.busy = FALSE])]
        /\ UNCHANGED <<job, faults>>
     \/ /\ Fault
        /\ job' = IF rootSameJobPolicy(work[p].job) /\ job.cutover = work[p].job.cutover
                    THEN Blocked(job) ELSE job
        /\ proc' = [proc EXCEPT ![p].busy = FALSE]
  /\ work' = [work EXCEPT ![p] = None]
  /\ UNCHANGED <<policy, keyState, row, cmd, writer, reader>>

WorkerAdvance(p) ==
  /\ work[p] # None /\ work[p].pc = "claimed"
  /\ work[p].job.phase = "migration" /\ work[p].job.at = End
  /\ rootSaveCheckpoint(p, [work[p].job EXCEPT !.phase = "verification", !.at = 0])
  /\ Idle(p)
  /\ UNCHANGED <<policy, keyState, row, cmd, writer, reader, faults>>

Observing(j) == j.phase = "observation" \/ (j.phase = "verification" /\ j.at = End)

(* The publication that is observed: data written after it fails the proof *)
(* of the observation.                                                     *)
WorkerRefresh(p) ==
  /\ work[p] # None /\ work[p].pc = "claimed" /\ Observing(work[p].job)
  /\ work' = [work EXCEPT ![p].pc = "observe"]
  /\ proc' = [proc EXCEPT ![p] = Refreshed(@)]
  /\ UNCHANGED <<policy, keyState, row, job, cmd, writer, reader, faults>>

(* Ready once the same server and snapshot were confirmed without a gap    *)
(* for the whole duration; another snapshot or a gap starts it again, and  *)
(* so does one after it was ready.                                         *)
WorkerObserve(p) ==
  LET j == work[p].job
      same == j.verified = p /\ proc[p].observed
      observing == [j EXCEPT !.status = "observing", !.phase = "observation", !.verified = p] IN
  /\ work[p] # None /\ work[p].pc = "observe"
  /\ \/ /\ Proof(p) /\ same
        /\ rootSaveCheckpoint(p, [observing EXCEPT !.status = "ready"])
        /\ UNCHANGED faults
     \/ /\ Proof(p)
        /\ IF same THEN Fault ELSE UNCHANGED faults
        /\ rootSaveCheckpoint(p, observing)
     \/ /\ ~Proof(p)
        /\ rootSaveCheckpoint(p, Blocked(j))
        /\ UNCHANGED faults
  /\ work' = [work EXCEPT ![p] = None]
  /\ proc' = [proc EXCEPT ![p].busy = FALSE, ![p].observed = IF Saves(p) THEN Proof(p) ELSE @]
  /\ UNCHANGED <<policy, keyState, row, cmd, writer, reader>>
-----------------------------------------------------------------------------
(* Commands of an administrator (rootAction).  Each holds rootMutation of  *)
(* its server, and its transaction needs the current proof.                *)
Command(p) == Up(p) /\ ~proc[p].busy

Committed(p) ==
  /\ cmd' = [cmd EXCEPT ![p] = [pc |-> "load"]]
  /\ proc' = [proc EXCEPT ![p].busy = TRUE, ![p].observed = FALSE]

rootCutover(j) ==
  /\ job' = j
  /\ policy' = [epoch |-> j.cutover, write |-> j.target, active |-> TRUE]
  /\ keyState' = [k \in Keys |-> IF k = j.target THEN "write"
                                 ELSE IF keyState[k] = "write" THEN "decrypt_only"
                                 ELSE keyState[k]]

StartSecretRotation(p, target) ==
  /\ Command(p) /\ Proof(p) /\ policy.epoch < deployment.epochs
  /\ ~policy.active /\ target # policy.write /\ keyState[target] # "retired"
  /\ rootCutover(newRootJob(policy.write, target, policy.epoch + 1))
  /\ Committed(p)
  /\ UNCHANGED <<row, work, writer, reader, faults>>

Rollback(p) ==
  /\ Command(p) /\ Proof(p) /\ policy.epoch < deployment.epochs
  /\ policy.active /\ job.status \notin Ended /\ keyState[job.source] # "retired"
  /\ rootCutover(newRootJob(policy.write, job.source, policy.epoch + 1))
  /\ Committed(p)
  /\ UNCHANGED <<row, work, writer, reader, faults>>

(* Clears the lease token, which copies read before the first claim share. *)
Resume(p) ==
  /\ Command(p) /\ Proof(p)
  /\ policy.active /\ job.status = "blocked" /\ policy.epoch = job.cutover
  /\ job' = newRootJob(job.source, job.target, job.cutover)
  /\ work' = [q \in Processes |->
                IF work[q] = None THEN None ELSE [work[q] EXCEPT !.held = ~work[q].job.claimed]]
  /\ Committed(p)
  /\ UNCHANGED <<policy, keyState, row, writer, reader, faults>>

(* loadSecretPolicy after the commit, and a publication; when the load     *)
(* fails the old view and snapshot stay.                                   *)
CommandLoad(p) ==
  /\ cmd[p] # None /\ cmd[p].pc = "load"
  /\ \/ /\ proc' = [proc EXCEPT ![p] = Refreshed(Loaded([@ EXCEPT !.busy = FALSE]))]
        /\ UNCHANGED faults
     \/ proc' = [proc EXCEPT ![p].busy = FALSE] /\ Fault
  /\ cmd' = [cmd EXCEPT ![p] = None]
  /\ UNCHANGED <<policy, keyState, row, job, work, writer, reader>>

(* Retirement: rootTargetSweep reads the inventory without a lock. *)
Retire(p) ==
  /\ Command(p) /\ job # None
  /\ cmd' = [cmd EXCEPT ![p] = [pc |-> "sweep", id |-> job.cutover, target |-> job.target, at |-> 1]]
  /\ proc' = [proc EXCEPT ![p].busy = TRUE]
  /\ UNCHANGED <<policy, keyState, row, job, work, writer, reader, faults>>

rootTargetSweep(p) ==
  /\ cmd[p] # None /\ cmd[p].pc = "sweep"
  /\ \/ /\ cmd[p].at = End
        /\ cmd' = [cmd EXCEPT ![p].pc = "close"]
        /\ UNCHANGED proc
     \/ /\ cmd[p].at # End /\ row[cmd[p].at] \in {None, cmd[p].target}
        /\ cmd' = [cmd EXCEPT ![p].at = @ + 1]
        /\ UNCHANGED proc
     \/ /\ cmd[p].at # End /\ row[cmd[p].at] \notin {None, cmd[p].target}
        /\ cmd' = [cmd EXCEPT ![p] = None]
        /\ proc' = [proc EXCEPT ![p].busy = FALSE]
  /\ UNCHANGED <<policy, keyState, row, job, work, writer, reader, faults>>

(* drainSecretView closes readers and view, each by compare-and-swap; the  *)
(* loser of the second opens what it closed.                               *)
DrainClose(p) ==
  /\ cmd[p] # None /\ cmd[p].pc = "close"
  /\ \/ /\ ~proc[p].shut /\ ~proc[p].closed
        /\ proc' = [proc EXCEPT ![p].shut = TRUE, ![p].closed = TRUE]
        /\ cmd' = [cmd EXCEPT ![p].pc = "drain"]
     \/ /\ proc[p].shut \/ proc[p].closed
        /\ proc' = [proc EXCEPT ![p].busy = FALSE]
        /\ cmd' = [cmd EXCEPT ![p] = None]
  /\ UNCHANGED <<policy, keyState, row, job, work, writer, reader, faults>>

(* The way out of a retirement that did not commit: open again. *)
Reopen(p) ==
  /\ proc' = [proc EXCEPT ![p].shut = FALSE, ![p].closed = FALSE, ![p].busy = FALSE]
  /\ cmd' = [cmd EXCEPT ![p] = None]

(* Mutant: the deadline of the drain opens the view and not the readers. *)
DrainTimeout_ViewOnly(p) ==
  /\ cmd[p] # None /\ cmd[p].pc = "drain" /\ reader[p] # "idle"
  /\ proc' = [proc EXCEPT ![p].closed = FALSE, ![p].busy = FALSE]
  /\ cmd' = [cmd EXCEPT ![p] = None]
  /\ UNCHANGED <<policy, keyState, row, job, work, writer, reader, faults>>

DrainTimeout(p) ==
  /\ cmd[p] # None /\ cmd[p].pc = "drain" /\ reader[p] # "idle"
  /\ Reopen(p)
  /\ UNCHANGED <<policy, keyState, row, job, work, writer, reader, faults>>

(* Mutant: a reader gives its count back before it opens, not after. *)
NoReaders_EarlyRelease(p) == reader[p] # "counted"

NoReaders(p) == reader[p] \notin {"counted", "opening"}

Drained(p) ==
  /\ cmd[p] # None /\ cmd[p].pc = "drain" /\ NoReaders(p)
  /\ cmd' = [cmd EXCEPT ![p].pc = "commit"]
  /\ UNCHANGED <<policy, keyState, row, job, proc, work, writer, reader, faults>>

(* rootObservationEligible, and the drained view of the proof. *)
Eligible(p) ==
  /\ policy.active /\ job.cutover = cmd[p].id /\ job.status = "ready"
  /\ policy.epoch = job.cutover /\ policy.epoch < deployment.epochs
  /\ Proof(p) /\ NoReaders(p) /\ job.at = End /\ job.verified = p /\ proc[p].observed

Retired ==
  /\ keyState' = [keyState EXCEPT ![job.source] = "retired"]
  /\ policy' = [policy EXCEPT !.epoch = @ + 1, !.active = FALSE]
  /\ job' = [job EXCEPT !.status = "completed", !.phase = "completed"]

(* The transaction of a retirement: refused, committed, or committed with  *)
(* an answer that was lost, which the command takes for a failure.         *)
CommitRetire(p) ==
  /\ cmd[p] # None /\ cmd[p].pc = "commit"
  /\ \/ /\ Eligible(p) /\ Retired
        /\ Committed(p)
        /\ UNCHANGED faults
     \/ Eligible(p) /\ Retired /\ Fault /\ Reopen(p)
     \/ /\ IF Eligible(p) THEN Fault ELSE UNCHANGED faults
        /\ Reopen(p)
        /\ UNCHANGED <<keyState, policy, job>>
  /\ UNCHANGED <<row, work, writer, reader>>
-----------------------------------------------------------------------------
Worker(p) == \/ rootBlock(p) \/ rootClaim(p) \/ rootInventoryPage(p) \/ rootProcessPage(p)
             \/ WorkerPublish(p) \/ WorkerAdvance(p) \/ WorkerRefresh(p) \/ WorkerObserve(p)

Retirement(p) == \/ rootTargetSweep(p) \/ DrainClose(p) \/ DrainTimeout(p) \/ Drained(p)
                 \/ CommitRetire(p) \/ CommandLoad(p)

Reader(p) == ReadLook(p) \/ ReadCount(p) \/ openSecret(p) \/ ReadDone(p)

Step ==
  \/ \E p \in Processes :
       \/ Start(p) \/ Crash(p) \/ InstanceExpires(p)
       \/ TakeEpoch(p) \/ sealSecret(p) \/ CommitWrite(p) \/ RefreshRuntime(p)
       \/ Reader(p)
       \/ WorkerRead(p) \/ WorkerFails(p) \/ Worker(p)
       \/ \E k \in Keys : StartSecretRotation(p, k)
       \/ Rollback(p) \/ Resume(p) \/ Retire(p) \/ Retirement(p)
  \/ \E r \in Inventory : Delete(r)
  \/ Configure \/ LeaseExpires

Next == Step /\ UNCHANGED deployment

(* A server is started when none runs.  The worker's ticker and mutex give *)
(* it a turn again and again (a waiter of a Go mutex is not starved), and  *)
(* what is begun goes on; leases of the dead run out.                      *)
Fairness ==
  /\ WF_state(\E p \in Processes : (\A q \in Processes : ~Up(q)) /\ Start(p))
  /\ WF_state(LeaseExpires)
  /\ \A p \in Processes :
       /\ WF_state(~Up(p) /\ InstanceExpires(p))
       /\ SF_state(WorkerRead(p)) /\ WF_state(Worker(p))
       /\ WF_state(Retirement(p)) /\ WF_state(openSecret(p) \/ ReadDone(p) \/ ReadCount(p))

Spec == Init /\ [][Next]_vars /\ Fairness
-----------------------------------------------------------------------------
(* Every stored secret is wrapped by a key that is not retired (rootAction *)
(* "retire", guardSecretWrite): no write prepared before a cutover, no     *)
(* page of a replaced worker and no rollback leaves one behind.            *)
NoRowNeedsRetiredKey ==
  \A r \in Inventory : row[r] # None => keyState[row[r]] # "retired"

(* When a key is retired, the server that retires it has no reader inside  *)
(* its old view (drainSecretView, openSecret).                             *)
DrainedAtRetirement ==
  [][\A k \in Keys, p \in Processes :
       keyState[k] # "retired" /\ keyState'[k] = "retired" /\ cmd[p] # None
         /\ cmd[p].pc = "commit"
       => reader[p] # "opening"]_vars

(* Readers closed by a retirement are open again in the end, whether it    *)
(* committed, was refused, timed out or lost its answer or its load.       *)
ReadersReopen ==
  \A p \in Processes : (Up(p) /\ proc[p].shut) ~> (~Up(p) \/ ~proc[p].shut)

(* A rotation comes to rest: ready, blocked for an administrator, rolled   *)
(* back or completed, although servers crash under the lease of the job    *)
(* and secrets that routing does not use are saved for ever, provided that *)
(* the routing data comes to rest: as long as new snapshots are published, *)
(* the observation starts again (RunSecretRotationOnce, rootClaim;         *)
(* "changed publication resets continuity").                               *)
RoutingAtRest == \A p \in Processes : Up(p) => proc[p].published
RotationSettles ==
  LET running == job # None /\ job.status \in {"migrating", "observing"} IN
  <>[]RoutingAtRest => (running ~> ~running)
=============================================================================
