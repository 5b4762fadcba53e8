-------------------------- MODULE RootRotationProofs --------------------------
(* That no retired key is needed, for every number of keys, rows, servers, *)
(* epochs and faults.  The argument: while an epoch stands, every write to *)
(* the inventory is wrapped by the epoch's write key (guardSecretWrite and *)
(* rootSameJobPolicy), so what a retirement has swept stays swept until    *)
(* its transaction, which the epoch's end would refuse.                    *)
EXTENDS RootRotation, TLAPS

(* Every job moves to another key, and its epoch has been reached. *)
IsJob(j) ==
  /\ {"source", "target", "cutover"} \subseteq DOMAIN j
  /\ j.source \in Keys /\ j.target \in Keys /\ j.source # j.target
  /\ j.cutover \in Nat

Types ==
  /\ deployment \in Deployments
  /\ DOMAIN policy = {"epoch", "write", "active"}
  /\ policy.epoch \in Nat /\ policy.write \in Keys /\ policy.active \in BOOLEAN
  /\ DOMAIN keyState = Keys
  /\ row \in [Inventory -> Keys \union {None}]
  /\ DOMAIN work = Processes
  /\ cmd \in [Processes -> [pc : {"load"}] \union {None}
                \union [pc : {"sweep", "close", "drain", "commit"}, id : Nat, target : Keys, at : Nat]]

(* The write key of the policy is never retired. *)
WriteKeyUsable == keyState[policy.write] # "retired"

(* While a rotation is active its job names the policy's epoch and key. *)
JobFollowsPolicy ==
  /\ job = None \/ (IsJob(job) /\ job.cutover <= policy.epoch)
  /\ policy.active => /\ IsJob(job)
                      /\ job.cutover = policy.epoch /\ job.target = policy.write

(* The copies of workers, old ones too, are copies of a job. *)
CopiesAreJobs ==
  \A p \in Processes : work[p] = None \/
    /\ IsJob(job) /\ job.cutover <= policy.epoch
    /\ "job" \in DOMAIN work[p] /\ IsJob(work[p].job)

Sweeping(p) == cmd[p] # None /\ cmd[p].pc \in {"sweep", "close", "drain", "commit"}

(* What a retirement has swept needs the write key of its epoch alone, as  *)
(* long as that epoch stands, and past the sweep that is every row.        *)
SweptStaysSwept ==
  \A p \in Processes : Sweeping(p) =>
    /\ cmd[p].id <= policy.epoch
    /\ cmd[p].pc # "sweep" => cmd[p].at = End
    /\ policy.active /\ cmd[p].id = policy.epoch =>
         /\ cmd[p].target = policy.write
         /\ \A r \in Inventory : r < cmd[p].at => row[r] \in {None, policy.write}

RotationInv ==
  /\ Types
  /\ WriteKeyUsable
  /\ NoRowNeedsRetiredKey
  /\ JobFollowsPolicy
  /\ CopiesAreJobs
  /\ SweptStaysSwept

-----------------------------------------------------------------------------
LEMMA RowsFact == ASSUME Types PROVE deployment.rows \in Nat
  BY RootAssumption DEF Types

LEMMA RotationInit == Init => RotationInv
<1> SUFFICES ASSUME Init PROVE RotationInv
  OBVIOUS
<1>1. Types
  BY RootAssumption DEF Init, Types, Inventory
<1>2. WriteKeyUsable /\ NoRowNeedsRetiredKey
  BY RootAssumption DEF Init, WriteKeyUsable, NoRowNeedsRetiredKey, Inventory
<1>3. JobFollowsPolicy /\ CopiesAreJobs /\ SweptStaysSwept
  BY DEF Init, JobFollowsPolicy, CopiesAreJobs, SweptStaysSwept, Sweeping
<1> QED
  BY <1>1, <1>2, <1>3 DEF RotationInv

(* A step that leaves the policy, the rows and the commands alone and, of  *)
(* the job and the copies, changes only what IsJob does not speak of.      *)
LEMMA BookkeepingStep ==
  ASSUME RotationInv, UNCHANGED <<deployment, policy, keyState, row, cmd>>,
         JobFollowsPolicy', CopiesAreJobs', DOMAIN work' = Processes
  PROVE  RotationInv'
<1>1. Types'
  BY DEF RotationInv, Types, Inventory
<1>2. WriteKeyUsable' /\ NoRowNeedsRetiredKey'
  BY DEF RotationInv, WriteKeyUsable, NoRowNeedsRetiredKey, Inventory
<1>3. SweptStaysSwept'
  BY DEF RotationInv, SweptStaysSwept, Sweeping, Inventory, End
<1> QED
  BY <1>1, <1>2, <1>3 DEF RotationInv

LEMMA QuietStep ==
  ASSUME RotationInv, UNCHANGED <<deployment, policy, keyState, row, job, work, cmd>>
  PROVE  RotationInv'
<1>1. JobFollowsPolicy' /\ CopiesAreJobs' /\ DOMAIN work' = Processes
  BY DEF RotationInv, Types, JobFollowsPolicy, CopiesAreJobs, IsJob
<1> QED
  BY <1>1, BookkeepingStep

(* A row receives the write key of the policy, or is deleted. *)
LEMMA RowStep ==
  ASSUME RotationInv, UNCHANGED <<deployment, policy, keyState, cmd>>,
         NEW r, NEW k \in {None, policy.write}, row' = [row EXCEPT ![r] = k],
         JobFollowsPolicy', CopiesAreJobs', DOMAIN work' = Processes
  PROVE  RotationInv'
<1>1. Types'
  BY DEF RotationInv, Types, Inventory
<1>2. WriteKeyUsable'
  BY DEF RotationInv, WriteKeyUsable
<1>3. NoRowNeedsRetiredKey'
  BY DEF RotationInv, WriteKeyUsable, NoRowNeedsRetiredKey, Inventory, Types
<1>4. SweptStaysSwept'
  BY DEF RotationInv, SweptStaysSwept, Sweeping, Inventory, End, Types
<1> QED
  BY <1>1, <1>2, <1>3, <1>4 DEF RotationInv

(* A command moves on without touching policy, rows, job or copies. *)
LEMMA CommandStep ==
  ASSUME RotationInv, UNCHANGED <<deployment, policy, keyState, row, job, work>>,
         SweptStaysSwept',
         cmd' \in [Processes -> [pc : {"load"}] \union {None}
                    \union [pc : {"sweep", "close", "drain", "commit"}, id : Nat, target : Keys, at : Nat]]
  PROVE  RotationInv'
<1>1. Types'
  BY DEF RotationInv, Types, Inventory
<1>2. WriteKeyUsable' /\ NoRowNeedsRetiredKey'
  BY DEF RotationInv, WriteKeyUsable, NoRowNeedsRetiredKey, Inventory
<1>3. JobFollowsPolicy' /\ CopiesAreJobs'
  BY DEF RotationInv, JobFollowsPolicy, CopiesAreJobs, IsJob
<1> QED
  BY <1>1, <1>2, <1>3 DEF RotationInv

-----------------------------------------------------------------------------
(* Servers, writers and readers. *)

LEMMA ServerSteps ==
  ASSUME RotationInv, UNCHANGED deployment, NEW p \in Processes,
         Start(p) \/ Crash(p) \/ InstanceExpires(p) \/ LeaseExpires
  PROVE  RotationInv'
<1>1. CASE Start(p) \/ InstanceExpires(p)
  BY <1>1, QuietStep DEF Start, InstanceExpires
<1>2. CASE Crash(p)
  <2>1. UNCHANGED <<policy, keyState, row, job>> /\ cmd' = [cmd EXCEPT ![p] = None]
        /\ work' = [work EXCEPT ![p] = None]
    BY <1>2 DEF Crash
  <2>2. Types' /\ WriteKeyUsable' /\ NoRowNeedsRetiredKey'
    BY <2>1 DEF RotationInv, Types, WriteKeyUsable, NoRowNeedsRetiredKey, Inventory
  <2>3. JobFollowsPolicy' /\ CopiesAreJobs'
    BY <2>1 DEF RotationInv, Types, JobFollowsPolicy, CopiesAreJobs, IsJob
  <2>4. SweptStaysSwept'
    BY <2>1 DEF RotationInv, Types, SweptStaysSwept, Sweeping, Inventory, End
  <2> QED
    BY <2>2, <2>3, <2>4 DEF RotationInv
<1>3. CASE LeaseExpires
  <2>1. UNCHANGED <<policy, keyState, row, work, cmd>>
    BY <1>3 DEF LeaseExpires
  <2>2. IsJob(job) /\ job.cutover <= policy.epoch /\ job' = [job EXCEPT !.lease = None]
    BY <1>3 DEF RotationInv, JobFollowsPolicy, LeaseExpires
  <2>3. IsJob(job') /\ job'.cutover = job.cutover /\ job'.target = job.target
    BY <2>2 DEF IsJob
  <2>4. JobFollowsPolicy'
    BY <2>1, <2>2, <2>3 DEF RotationInv, JobFollowsPolicy
  <2>5. CopiesAreJobs' /\ DOMAIN work' = Processes
    <3>1. IsJob(job') /\ job'.cutover <= policy'.epoch
      BY <2>1, <2>2, <2>3
    <3> QED
      BY <2>1, <3>1 DEF RotationInv, Types, CopiesAreJobs, IsJob
  <2> QED
    BY <2>1, <2>4, <2>5, BookkeepingStep
<1> QED
  BY <1>1, <1>2, <1>3

(* Whatever forgets that a copy of a row is fresh keeps the copies of jobs. *)
LEMMA TouchKeepsCopies ==
  ASSUME RotationInv, UNCHANGED <<policy, job>>, NEW r, work' = Touch(r)
  PROVE  JobFollowsPolicy' /\ CopiesAreJobs' /\ DOMAIN work' = Processes
<1>1. DOMAIN work' = Processes
  BY DEF Touch
<1>2. JobFollowsPolicy'
  BY DEF RotationInv, JobFollowsPolicy, IsJob
<1>3. CopiesAreJobs'
  BY DEF RotationInv, CopiesAreJobs, Touch, IsJob
<1> QED
  BY <1>1, <1>2, <1>3

LEMMA WriterSteps ==
  ASSUME RotationInv, UNCHANGED deployment, NEW p \in Processes,
         TakeEpoch(p) \/ sealSecret(p) \/ CommitWrite(p) \/ \E r \in Inventory : Delete(r)
  PROVE  RotationInv'
<1>1. CASE TakeEpoch(p) \/ sealSecret(p)
  BY <1>1, QuietStep DEF TakeEpoch, sealSecret
<1>2. CASE CommitWrite(p)
  <2>1. UNCHANGED <<policy, keyState, job, cmd>>
    BY <1>2 DEF CommitWrite
  <2>2. CASE ~guardSecretWrite(p)
    BY <1>2, <2>1, <2>2, QuietStep DEF CommitWrite
  <2>3. CASE guardSecretWrite(p)
    <3>1. PICK r \in Inventory : row' = [row EXCEPT ![r] = writer[p].key] /\ work' = Touch(r)
      BY <1>2, <2>3 DEF CommitWrite
    <3>2. writer[p].key = policy.write
      BY <2>3 DEF guardSecretWrite
    <3> QED
      BY <2>1, <3>1, <3>2, TouchKeepsCopies, RowStep
  <2> QED
    BY <2>2, <2>3
<1>3. CASE \E r \in Inventory : Delete(r)
  <2>1. PICK r \in Inventory : Delete(r)
    BY <1>3
  <2>2. UNCHANGED <<policy, keyState, job, cmd>>
        /\ row' = [row EXCEPT ![r] = None] /\ work' = Touch(r)
    BY <2>1 DEF Delete
  <2> QED
    BY <2>2, TouchKeepsCopies, RowStep
<1> QED
  BY <1>1, <1>2, <1>3

LEMMA ReaderSteps ==
  ASSUME RotationInv, UNCHANGED deployment, NEW p \in Processes, Reader(p)
  PROVE  RotationInv'
  BY QuietStep DEF Reader, ReadLook, ReadCount, openSecret, ReadDone

-----------------------------------------------------------------------------
(* The worker. *)

(* A worker that stops drops its copy. *)
Drops(p) == work' = [work EXCEPT ![p] = None]

(* What is saved is the copy with other fields than these. *)
CopyOf(j, k) == IsJob(j) /\ j.cutover = k.cutover /\ j.target = k.target

LEMMA IdleKeepsCopies ==
  ASSUME RotationInv, NEW p \in Processes, Drops(p), UNCHANGED policy,
         work[p] # None => IsJob(job') /\ job'.cutover <= policy.epoch,
         job' = job \/ work[p] # None
  PROVE  CopiesAreJobs' /\ DOMAIN work' = Processes
<1> QED
  BY DEF RotationInv, Types, CopiesAreJobs, IsJob, Drops

(* A copy that is saved describes the policy of that moment. *)
LEMMA SavedJob ==
  ASSUME RotationInv, UNCHANGED policy, NEW j,
         rootSameJobPolicy(j) => IsJob(j),
         (job' = j /\ rootSameJobPolicy(j)) \/ job' = job
  PROVE  /\ JobFollowsPolicy'
         /\ IsJob(job) /\ job.cutover <= policy.epoch => IsJob(job') /\ job'.cutover <= policy.epoch
<1>1. CASE job' = job
  BY <1>1 DEF RotationInv, JobFollowsPolicy, IsJob
<1>2. CASE job' = j /\ rootSameJobPolicy(j)
  BY <1>2 DEF RotationInv, Types, JobFollowsPolicy, IsJob, rootSameJobPolicy
<1> QED
  BY <1>1, <1>2

(* A run that ends after it saved, or was refused, a copy. *)
LEMMA SaveAndIdle ==
  ASSUME RotationInv, UNCHANGED <<deployment, policy, keyState, row, cmd>>,
         NEW p \in Processes, NEW j, work[p] # None, Drops(p), CopyOf(j, work[p].job),
         rootSaveCheckpoint(p, j)
  PROVE  RotationInv'
<1>1. IsJob(j) /\ ((job' = j /\ rootSameJobPolicy(j)) \/ job' = job)
  BY DEF rootSaveCheckpoint, Saves, CopyOf, rootSameJobPolicy
<1>2. IsJob(job) /\ job.cutover <= policy.epoch
  BY DEF RotationInv, CopiesAreJobs
<1>3. JobFollowsPolicy' /\ IsJob(job') /\ job'.cutover <= policy.epoch
  BY <1>1, <1>2, SavedJob
<1>4. CopiesAreJobs' /\ DOMAIN work' = Processes
  BY <1>3, IdleKeepsCopies
<1> QED
  BY <1>3, <1>4, BookkeepingStep

LEMMA IdleOnly ==
  ASSUME RotationInv, UNCHANGED <<deployment, policy, keyState, row, job, cmd>>,
         NEW p \in Processes, Drops(p)
  PROVE  RotationInv'
<1>1. JobFollowsPolicy'
  BY DEF RotationInv, JobFollowsPolicy, IsJob
<1>2. CopiesAreJobs' /\ DOMAIN work' = Processes
  BY IdleKeepsCopies DEF RotationInv, CopiesAreJobs
<1> QED
  BY <1>1, <1>2, BookkeepingStep

(* The fields the worker sets leave source, target and epoch alone. *)
LEMMA JobFields ==
  ASSUME NEW j, IsJob(j), NEW x, NEW y, NEW z
  PROVE  /\ CopyOf([j EXCEPT !.at = x], j)
         /\ CopyOf([j EXCEPT !.status = x], j)
         /\ CopyOf([j EXCEPT !.status = x, !.verified = y], j)
         /\ CopyOf([j EXCEPT !.phase = x, !.at = y], j)
         /\ CopyOf([j EXCEPT !.status = x, !.phase = y, !.verified = z], j)
  BY DEF IsJob, CopyOf

LEMMA ReadStep ==
  ASSUME RotationInv, UNCHANGED deployment, NEW p \in Processes, WorkerRead(p)
  PROVE  RotationInv'
<1>1. UNCHANGED <<policy, keyState, row, job, cmd>>
  BY DEF WorkerRead
<1>2. JobFollowsPolicy'
  BY <1>1 DEF RotationInv, JobFollowsPolicy, IsJob
<1>3. CASE UNCHANGED work
  BY <1>1, <1>3, QuietStep
<1>4. CASE /\ Pending
           /\ work' = [work EXCEPT ![p] = [pc |-> "read", job |-> job, held |-> TRUE,
                                           page |-> <<>>, fresh |-> {}]]
  <2>1. IsJob(job) /\ job.cutover <= policy.epoch
    BY <1>4 DEF RotationInv, JobFollowsPolicy, Pending, IsJob, Types
  <2>2. CopiesAreJobs' /\ DOMAIN work' = Processes
    BY <1>1, <1>4, <2>1 DEF RotationInv, Types, CopiesAreJobs, IsJob
  <2> QED
    BY <1>1, <1>2, <2>2, BookkeepingStep
<1> QED
  BY <1>3, <1>4 DEF WorkerRead

LEMMA BlockStep ==
  ASSUME RotationInv, UNCHANGED deployment, NEW p \in Processes,
         rootBlock(p) \/ WorkerFails(p)
  PROVE  RotationInv'
<1>1. CASE WorkerFails(p)
  BY <1>1, IdleOnly DEF WorkerFails, Idle, Drops
<1>2. CASE rootBlock(p)
  <2>1. CopyOf(Blocked(work[p].job), work[p].job)
    BY <1>2, JobFields DEF RotationInv, CopiesAreJobs, rootBlock, Blocked
  <2> QED
    BY <1>2, <2>1, SaveAndIdle DEF rootBlock, Idle, Drops
<1> QED
  BY <1>1, <1>2

LEMMA ClaimStep ==
  ASSUME RotationInv, UNCHANGED deployment, NEW p \in Processes, rootClaim(p)
  PROVE  RotationInv'
<1>1. UNCHANGED <<policy, keyState, row, cmd>> /\ work[p] # None
  BY DEF rootClaim
<1>2. CASE Idle(p) /\ UNCHANGED job
  BY <1>1, <1>2, IdleOnly DEF Idle, Drops
<1>3. CASE /\ job' = [job EXCEPT !.lease = p, !.claimed = TRUE]
           /\ work' = [q \in Processes |->
                IF q = p THEN [work[p] EXCEPT !.pc = "claimed", !.job = job', !.held = TRUE]
                ELSE IF work[q] = None THEN None ELSE [work[q] EXCEPT !.held = FALSE]]
  <2>1. IsJob(job) /\ job.cutover <= policy.epoch
    BY <1>1 DEF RotationInv, CopiesAreJobs
  <2>2. IsJob(job') /\ job'.cutover = job.cutover /\ job'.target = job.target
    BY <1>3, <2>1 DEF IsJob
  <2>3. JobFollowsPolicy'
    BY <1>1, <2>1, <2>2 DEF RotationInv, JobFollowsPolicy
  <2>4. DOMAIN work' = Processes
    BY <1>3
  <2>5. ASSUME NEW q \in Processes, work[q] # None
        PROVE  "job" \in DOMAIN work'[q] /\ IsJob(work'[q].job)
    <3>1. "job" \in DOMAIN work[q] /\ IsJob(work[q].job)
      BY <2>5 DEF RotationInv, CopiesAreJobs
    <3>2. CASE q = p
      <4>1. work'[p] = [work[p] EXCEPT !.pc = "claimed", !.job = job', !.held = TRUE]
        BY <1>3
      <4> QED
        BY <3>1, <3>2, <4>1, <2>2
    <3>3. CASE q # p
      <4>1. work'[q] = [work[q] EXCEPT !.held = FALSE]
        BY <1>3, <2>5, <3>3
      <4>2. DOMAIN work'[q] = DOMAIN work[q] /\ work'[q].job = work[q].job
        BY <3>1, <4>1
      <4> QED
        BY <3>1, <4>2
    <3> QED
      BY <3>2, <3>3
  <2>6. ASSUME NEW q \in Processes, work[q] = None PROVE work'[q] = None
    BY <1>1, <1>3, <2>6
  <2>7. CopiesAreJobs'
    BY <1>1, <2>1, <2>2, <2>5, <2>6 DEF CopiesAreJobs
  <2> QED
    BY <1>1, <2>3, <2>4, <2>7, BookkeepingStep
<1> QED
  BY <1>2, <1>3 DEF rootClaim

LEMMA PageStep ==
  ASSUME RotationInv, UNCHANGED deployment, NEW p \in Processes, rootInventoryPage(p)
  PROVE  RotationInv'
<1>1. UNCHANGED <<policy, keyState, row, cmd>> /\ work[p] # None
  BY DEF rootInventoryPage
<1>2. IsJob(work[p].job) /\ "job" \in DOMAIN work[p]
  BY <1>1 DEF RotationInv, CopiesAreJobs
<1> DEFINE past == [work[p].job EXCEPT !.at = End]
<1>a. CopyOf(past, work[p].job)
  BY <1>2, JobFields
<1>3. CASE Idle(p) /\ rootSaveCheckpoint(p, past)
  <2> HIDE DEF past
  <2> QED
    BY <1>1, <1>3, <1>a, SaveAndIdle DEF Idle, Drops
<1>5. CASE /\ Saves(p) /\ rootSaveCheckpoint(p, past)
           /\ work' = [work EXCEPT ![p].pc = "publish", ![p].job = job']
  <2> HIDE DEF past
  <2>1. job' = past /\ rootSameJobPolicy(past) /\ IsJob(past)
    BY <1>5, <1>a DEF rootSaveCheckpoint, Saves, CopyOf, rootSameJobPolicy
  <2>2. IsJob(job) /\ job.cutover <= policy.epoch
    BY <1>1 DEF RotationInv, CopiesAreJobs
  <2>3. JobFollowsPolicy' /\ IsJob(job') /\ job'.cutover <= policy.epoch
    BY <1>1, <2>1, <2>2, SavedJob
  <2>4. DOMAIN work' = Processes /\ \A q \in Processes : q # p => work'[q] = work[q]
    BY <1>5 DEF RotationInv, Types
  <2>5. "job" \in DOMAIN work'[p] /\ work'[p].job = job'
    BY <1>2, <1>5 DEF RotationInv, Types
  <2>6. CopiesAreJobs'
    BY <1>1, <2>3, <2>4, <2>5 DEF RotationInv, CopiesAreJobs
  <2> QED
    BY <1>1, <2>3, <2>4, <2>6, BookkeepingStep
<1>4. CASE UNCHANGED job /\ \E page, fresh : work' = [work EXCEPT ![p].pc = "page",
                                      ![p].fresh = fresh, ![p].page = page]
  <2>1. PICK page, fresh : work' = [work EXCEPT ![p].pc = "page",
                                      ![p].fresh = fresh, ![p].page = page]
    BY <1>4
  <2>2. DOMAIN work' = Processes
    BY <2>1 DEF RotationInv, Types
  <2>3. \A q \in Processes : q # p => work'[q] = work[q]
    BY <2>1 DEF RotationInv, Types
  <2>4. "job" \in DOMAIN work'[p] /\ work'[p].job = work[p].job
    BY <2>1, <1>2 DEF RotationInv, Types
  <2>5. JobFollowsPolicy'
    BY <1>1, <1>4 DEF RotationInv, JobFollowsPolicy, IsJob
  <2>6. CopiesAreJobs'
    BY <1>1, <1>2, <1>4, <2>3, <2>4 DEF RotationInv, CopiesAreJobs, IsJob
  <2> QED
    BY <1>1, <2>2, <2>5, <2>6, BookkeepingStep
<1> QED
  BY <1>3, <1>4, <1>5 DEF rootInventoryPage

(* The transaction of a row holds the policy of the copy, so it rewraps    *)
(* with the write key of the epoch that stands.                            *)
LEMMA ProcessStep ==
  ASSUME RotationInv, UNCHANGED deployment, NEW p \in Processes, rootProcessPage(p)
  PROVE  RotationInv'
<1> DEFINE item == Head(work[p].page)
           outcome == Outcome(p, item)
           next == Checkpoint(work[p].job, outcome, item.row)
           others == IF outcome = "rewrapped" THEN Touch(item.row) ELSE work
<1>1. UNCHANGED <<policy, keyState, cmd>> /\ work[p] # None
  BY DEF rootProcessPage
<1>2. IsJob(work[p].job) /\ "job" \in DOMAIN work[p]
  BY <1>1 DEF RotationInv, CopiesAreJobs
<1>3. IsJob(next)
  BY <1>2, JobFields DEF Checkpoint, CopyOf
<1>4. CASE Idle(p) /\ UNCHANGED <<job, row>>
  BY <1>1, <1>4, IdleOnly DEF Idle, Drops
<1>5. CASE /\ rootSameJobPolicy(work[p].job) /\ job' = next
           /\ row' = IF outcome = "rewrapped" THEN [row EXCEPT ![item.row] = work[p].job.target]
                     ELSE row
           /\ \/ work' = [others EXCEPT ![p] = None]
              \/ \E page, pc : work' = [others EXCEPT ![p].job = next, ![p].page = page, ![p].pc = pc]
  <2>1. next.cutover = work[p].job.cutover /\ next.target = work[p].job.target
    BY <1>2 DEF Checkpoint, IsJob
  <2>a. IsJob(job') /\ job'.cutover = policy.epoch /\ job'.target = policy.write
    <3> HIDE DEF next
    <3> QED
      BY <1>3, <1>5, <2>1 DEF rootSameJobPolicy
  <2>2. /\ JobFollowsPolicy'
        /\ IsJob(job') /\ job'.cutover <= policy'.epoch
    BY <1>1, <2>a DEF RotationInv, Types, JobFollowsPolicy, IsJob
  <2>3. /\ DOMAIN others = Processes
        /\ \A q \in Processes : work[q] # None =>
             "job" \in DOMAIN others[q] /\ IsJob(others[q].job)
        /\ \A q \in Processes : work[q] = None => others[q] = None
    <3>1. CASE others = work
      BY <3>1 DEF RotationInv, Types, CopiesAreJobs
    <3>2. CASE others = Touch(item.row)
      <4>1. DOMAIN others = Processes
        BY <3>2 DEF Touch
      <4>2. ASSUME NEW q \in Processes, work[q] # None
            PROVE  "job" \in DOMAIN others[q] /\ IsJob(others[q].job)
        <5>1. "job" \in DOMAIN work[q] /\ IsJob(work[q].job)
          BY <4>2 DEF RotationInv, CopiesAreJobs
        <5>2. others[q] = [work[q] EXCEPT !.fresh = @ \ {item.row}]
          BY <3>2, <4>2 DEF Touch
        <5>3. DOMAIN others[q] = DOMAIN work[q] /\ others[q].job = work[q].job
          BY <5>1, <5>2
        <5> QED
          BY <5>1, <5>3
      <4>3. ASSUME NEW q \in Processes, work[q] = None PROVE others[q] = None
        BY <3>2, <4>3 DEF Touch
      <4> QED
        BY <4>1, <4>2, <4>3
    <3> QED
      BY <3>1, <3>2
  <2> HIDE DEF others, next
  <2>4. DOMAIN work' = Processes
    BY <1>5, <2>3
  <2>5. \A q \in Processes : q # p => work'[q] = others[q]
    BY <1>5, <2>3
  <2>6. work'[p] = None \/ ("job" \in DOMAIN work'[p] /\ IsJob(work'[p].job))
    <3>1. CASE work' = [others EXCEPT ![p] = None]
      BY <3>1, <2>3
    <3>2. CASE \E page, pc : work' = [others EXCEPT ![p].job = next, ![p].page = page, ![p].pc = pc]
      <4>1. PICK page, pc : work' = [others EXCEPT ![p].job = next, ![p].page = page, ![p].pc = pc]
        BY <3>2
      <4>2. "job" \in DOMAIN others[p]
        BY <1>1, <2>3
      <4>3. "job" \in DOMAIN work'[p] /\ work'[p].job = next
        BY <4>1, <4>2, <2>3
      <4> QED
        BY <4>3, <1>3
    <3> QED
      BY <3>1, <3>2, <1>5
  <2>7. CopiesAreJobs'
    BY <2>2, <2>3, <2>5, <2>6 DEF CopiesAreJobs
  <2>8. CASE row' = row
    BY <1>1, <2>2, <2>4, <2>7, <2>8, BookkeepingStep
  <2>9. CASE row' = [row EXCEPT ![item.row] = work[p].job.target]
    <3>1. work[p].job.target = policy.write
      BY <1>5 DEF rootSameJobPolicy
    <3> QED
      BY <1>1, <2>2, <2>4, <2>7, <2>9, <3>1, RowStep
  <2> QED
    BY <1>5, <2>8, <2>9
<1>6. \/ Idle(p) /\ UNCHANGED <<job, row>>
      \/ /\ rootSameJobPolicy(work[p].job) /\ job' = next
         /\ row' = IF outcome = "rewrapped" THEN [row EXCEPT ![item.row] = work[p].job.target]
                   ELSE row
         /\ \/ work' = [others EXCEPT ![p] = None]
            \/ work' = [others EXCEPT ![p].job = next, ![p].page = Tail(@),
                          ![p].pc = IF outcome = "changed" \/ Len(work[p].page) = 1
                                    THEN "publish" ELSE "page"]
  BY Zenon DEF rootProcessPage
<1> HIDE DEF item, outcome, next, others
<1>7. ASSUME work' = [others EXCEPT ![p].job = next, ![p].page = Tail(@),
                        ![p].pc = IF outcome = "changed" \/ Len(work[p].page) = 1
                                  THEN "publish" ELSE "page"]
      PROVE \E page, pc : work' = [others EXCEPT ![p].job = next, ![p].page = page, ![p].pc = pc]
  BY <1>7, Zenon
<1> QED
  BY <1>4, <1>5, <1>6, <1>7, Zenon

LEMMA LateWorkerSteps ==
  ASSUME RotationInv, UNCHANGED deployment, NEW p \in Processes,
         WorkerPublish(p) \/ WorkerAdvance(p) \/ WorkerRefresh(p) \/ WorkerObserve(p)
  PROVE  RotationInv'
<1>1. UNCHANGED <<policy, keyState, row, cmd>> /\ work[p] # None
  BY DEF WorkerPublish, WorkerAdvance, WorkerRefresh, WorkerObserve
<1>2. IsJob(work[p].job) /\ IsJob(job) /\ job.cutover <= policy.epoch
  BY <1>1 DEF RotationInv, CopiesAreJobs
<1>3. CASE WorkerPublish(p)
  <2>a. Drops(p)
    BY <1>3 DEF WorkerPublish, Drops
  <2>1. CASE UNCHANGED job
    BY <1>1, <2>a, <2>1, IdleOnly
  <2>2. CASE job' = Blocked(job)
    <3>1. IsJob(job')
      BY <1>2, <2>2, JobFields DEF Blocked, CopyOf
    <3>2. job'.cutover = job.cutover /\ job'.target = job.target
      BY <1>2, <2>2 DEF IsJob, Blocked
    <3>3. JobFollowsPolicy'
      BY <1>1, <1>2, <3>1, <3>2 DEF RotationInv, JobFollowsPolicy
    <3>4. IsJob(job') /\ job'.cutover <= policy.epoch
      BY <1>2, <3>1, <3>2
    <3>5. CopiesAreJobs' /\ DOMAIN work' = Processes
      BY <1>1, <2>a, <3>4, IdleKeepsCopies
    <3> QED
      BY <1>1, <3>3, <3>5, BookkeepingStep
  <2> QED
    BY <1>3, <2>1, <2>2 DEF WorkerPublish
<1>4. CASE WorkerAdvance(p)
  <2>1. CopyOf([work[p].job EXCEPT !.phase = "verification", !.at = 0], work[p].job)
    BY <1>2, JobFields
  <2> QED
    BY <1>1, <1>4, <2>1, SaveAndIdle DEF WorkerAdvance, Idle, Drops
<1>5. CASE WorkerObserve(p)
  <2> DEFINE observing == [work[p].job EXCEPT !.status = "observing", !.phase = "observation",
                                              !.verified = p]
  <2>1. CopyOf(observing, work[p].job) /\ CopyOf(Blocked(work[p].job), work[p].job)
    BY <1>2, JobFields DEF Blocked
  <2>b. CopyOf([observing EXCEPT !.status = "ready"], work[p].job)
    <3> HIDE DEF observing
    <3> QED
      BY <2>1, JobFields DEF CopyOf
  <2>a. Drops(p)
    BY <1>5 DEF WorkerObserve, Drops
  <2> HIDE DEF observing
  <2>2. \/ rootSaveCheckpoint(p, [observing EXCEPT !.status = "ready"])
        \/ rootSaveCheckpoint(p, observing)
        \/ rootSaveCheckpoint(p, Blocked(work[p].job))
    BY <1>5 DEF WorkerObserve, observing
  <2> QED
    BY <1>1, <2>1, <2>a, <2>b, <2>2, SaveAndIdle
<1>6. CASE WorkerRefresh(p)
  <2>1. UNCHANGED job /\ work' = [work EXCEPT ![p].pc = "observe"]
    BY <1>6 DEF WorkerRefresh
  <2>2. DOMAIN work' = Processes /\ \A q \in Processes : q # p => work'[q] = work[q]
    BY <2>1 DEF RotationInv, Types
  <2>3. "job" \in DOMAIN work[p]
    BY <1>1 DEF RotationInv, CopiesAreJobs
  <2>4. "job" \in DOMAIN work'[p] /\ work'[p].job = work[p].job
    BY <2>1, <2>3 DEF RotationInv, Types
  <2>5. JobFollowsPolicy'
    BY <1>1, <2>1 DEF RotationInv, JobFollowsPolicy, IsJob
  <2>6. CopiesAreJobs'
    BY <1>1, <1>2, <2>1, <2>2, <2>4 DEF RotationInv, CopiesAreJobs, IsJob
  <2> QED
    BY <1>1, <2>2, <2>5, <2>6, BookkeepingStep
<1> QED
  BY <1>3, <1>4, <1>5, <1>6

-----------------------------------------------------------------------------
(* Commands. *)

(* A cutover to a usable key ends the epoch of every sweep and every copy. *)
LEMMA CutoverStep ==
  ASSUME RotationInv, UNCHANGED <<deployment, row, work>>, NEW p \in Processes,
         Committed(p), NEW j, IsJob(j), j.cutover = policy.epoch + 1,
         keyState[j.target] # "retired", rootCutover(j)
  PROVE  RotationInv'
<1>1. /\ job' = j
      /\ policy' = [epoch |-> j.cutover, write |-> j.target, active |-> TRUE]
      /\ keyState' = [k \in Keys |-> IF k = j.target THEN "write"
                                     ELSE IF keyState[k] = "write" THEN "decrypt_only"
                                     ELSE keyState[k]]
  BY DEF rootCutover
<1>2. cmd' = [cmd EXCEPT ![p] = [pc |-> "load"]]
  BY DEF Committed
<1>3. Types'
  BY <1>1, <1>2 DEF RotationInv, Types, Inventory, IsJob
<1>4. \A k \in Keys : keyState'[k] = "retired" => keyState[k] = "retired"
  BY <1>1
<1>5. WriteKeyUsable'
  BY <1>1 DEF WriteKeyUsable, IsJob
<1>6. NoRowNeedsRetiredKey'
  BY <1>4 DEF RotationInv, NoRowNeedsRetiredKey, Types, Inventory
<1>7. JobFollowsPolicy'
  BY <1>1 DEF JobFollowsPolicy, IsJob
<1>8. CopiesAreJobs'
  BY <1>1 DEF RotationInv, CopiesAreJobs, IsJob
<1>9. SweptStaysSwept'
  <2>1. policy'.epoch = policy.epoch + 1 /\ policy.epoch \in Nat
    BY <1>1 DEF RotationInv, Types
  <2>2. ASSUME NEW q \in Processes, Sweeping(q)'
        PROVE  Sweeping(q) /\ cmd'[q] = cmd[q]
    BY <1>2, <2>2 DEF RotationInv, Types, Sweeping
  <2>3. ASSUME NEW q \in Processes, Sweeping(q) PROVE cmd[q].id \in Nat
    BY <2>3 DEF RotationInv, Types, Sweeping
  <2> QED
    BY <2>1, <2>2, <2>3 DEF RotationInv, SweptStaysSwept, End, Inventory
<1> QED
  BY <1>3, <1>5, <1>6, <1>7, <1>8, <1>9 DEF RotationInv

LEMMA NewJob ==
  ASSUME NEW s \in Keys, NEW t \in Keys, s # t, NEW e \in Nat
  PROVE  IsJob(newRootJob(s, t, e)) /\ newRootJob(s, t, e).cutover = e
         /\ newRootJob(s, t, e).target = t
  BY DEF IsJob, newRootJob

LEMMA RotationCommands ==
  ASSUME RotationInv, UNCHANGED deployment, NEW p \in Processes,
         (\E k \in Keys : StartSecretRotation(p, k)) \/ Rollback(p)
  PROVE  RotationInv'
<1>0. policy.epoch + 1 \in Nat /\ policy.write \in Keys
  BY DEF RotationInv, Types
<1>1. CASE \E k \in Keys : StartSecretRotation(p, k)
  <2>1. PICK k \in Keys : StartSecretRotation(p, k)
    BY <1>1
  <2>2. IsJob(newRootJob(policy.write, k, policy.epoch + 1))
        /\ newRootJob(policy.write, k, policy.epoch + 1).cutover = policy.epoch + 1
        /\ newRootJob(policy.write, k, policy.epoch + 1).target = k
    BY <1>0, <2>1, NewJob DEF StartSecretRotation
  <2> QED
    BY <2>1, <2>2, CutoverStep DEF StartSecretRotation
<1>2. CASE Rollback(p)
  <2>1. IsJob(job) /\ job.target = policy.write
    BY <1>2 DEF RotationInv, JobFollowsPolicy, Rollback
  <2>2. IsJob(newRootJob(policy.write, job.source, policy.epoch + 1))
        /\ newRootJob(policy.write, job.source, policy.epoch + 1).cutover = policy.epoch + 1
        /\ newRootJob(policy.write, job.source, policy.epoch + 1).target = job.source
    BY <1>0, <2>1, NewJob DEF IsJob
  <2> QED
    BY <1>2, <2>2, CutoverStep DEF Rollback
<1> QED
  BY <1>1, <1>2

LEMMA ResumeStep ==
  ASSUME RotationInv, UNCHANGED deployment, NEW p \in Processes, Resume(p)
  PROVE  RotationInv'
<1>1. UNCHANGED <<policy, keyState, row>> /\ policy.active
      /\ cmd' = [cmd EXCEPT ![p] = [pc |-> "load"]]
  BY DEF Resume, Committed
<1>2. IsJob(job) /\ job.cutover = policy.epoch /\ job.target = policy.write
  BY <1>1 DEF RotationInv, JobFollowsPolicy
<1>3. IsJob(job') /\ job'.cutover = policy.epoch /\ job'.target = policy.write
  BY <1>2, NewJob DEF Resume, IsJob
<1>4. Types' /\ WriteKeyUsable' /\ NoRowNeedsRetiredKey'
  BY <1>1 DEF RotationInv, Types, WriteKeyUsable, NoRowNeedsRetiredKey, Inventory, Resume
<1>5. JobFollowsPolicy'
  BY <1>1, <1>3 DEF RotationInv, Types, JobFollowsPolicy
<1>6. CopiesAreJobs'
  <2>1. ASSUME NEW q \in Processes, work'[q] # None
        PROVE  "job" \in DOMAIN work'[q] /\ IsJob(work'[q].job)
    <3>1. work[q] # None /\ work'[q] = [work[q] EXCEPT !.held = ~work[q].job.claimed]
      BY <2>1 DEF Resume
    <3>2. "job" \in DOMAIN work[q] /\ IsJob(work[q].job)
      BY <3>1 DEF RotationInv, CopiesAreJobs
    <3>3. DOMAIN work'[q] = DOMAIN work[q] /\ work'[q].job = work[q].job
      BY <3>1, <3>2
    <3> QED
      BY <3>2, <3>3
  <2> QED
    BY <1>1, <1>3, <2>1 DEF RotationInv, Types, CopiesAreJobs
<1>7. SweptStaysSwept'
  BY <1>1 DEF RotationInv, Types, SweptStaysSwept, Sweeping, End, Inventory
<1> QED
  BY <1>4, <1>5, <1>6, <1>7 DEF RotationInv

(* The command without its policy changes: it sweeps, closes, drains, ends. *)
LEMMA RetirementSteps ==
  ASSUME RotationInv, UNCHANGED deployment, NEW p \in Processes,
         \/ Retire(p) \/ rootTargetSweep(p) \/ DrainClose(p) \/ DrainTimeout(p) \/ Drained(p)
         \/ CommandLoad(p)
  PROVE  RotationInv'
<1>1. UNCHANGED <<policy, keyState, row, job, work>>
  BY DEF Retire, rootTargetSweep, DrainClose, DrainTimeout, Drained, CommandLoad
<1>2. CASE cmd' = [cmd EXCEPT ![p] = None]
  <2>1. SweptStaysSwept'
    BY <1>1, <1>2 DEF RotationInv, Types, SweptStaysSwept, Sweeping, End, Inventory
  <2> QED
    BY <1>1, <1>2, <2>1, CommandStep DEF RotationInv, Types
<1>3. CASE Retire(p)
  <2>1. IsJob(job) /\ job.cutover <= policy.epoch
        /\ (policy.active => job.cutover = policy.epoch /\ job.target = policy.write)
    BY <1>3 DEF RotationInv, JobFollowsPolicy, Retire
  <2>2. cmd' = [cmd EXCEPT ![p] =
                 [pc |-> "sweep", id |-> job.cutover, target |-> job.target, at |-> 1]]
    BY <1>3 DEF Retire
  <2>3. SweptStaysSwept'
    BY <1>1, <2>1, <2>2 DEF RotationInv, Types, SweptStaysSwept, Sweeping, End, Inventory
  <2> QED
    BY <1>1, <2>1, <2>2, <2>3, CommandStep DEF RotationInv, Types, IsJob
<1>4. CASE rootTargetSweep(p) /\ cmd' # [cmd EXCEPT ![p] = None]
  <2>1. Sweeping(p) /\ cmd[p].pc = "sweep"
    BY <1>4 DEF rootTargetSweep, Sweeping
  <2>2. cmd[p] \in [pc : {"sweep", "close", "drain", "commit"}, id : Nat, target : Keys, at : Nat]
    BY <2>1 DEF RotationInv, Types, Sweeping
  <2>3. CASE cmd[p].at = End /\ cmd' = [cmd EXCEPT ![p].pc = "close"]
    <3>1. cmd'[p] = [cmd[p] EXCEPT !.pc = "close"] /\ \A q \in Processes : q # p => cmd'[q] = cmd[q]
      BY <2>3 DEF RotationInv, Types
    <3>2. SweptStaysSwept'
      BY <1>1, <2>1, <2>2, <2>3, <3>1 DEF RotationInv, SweptStaysSwept, Sweeping, End, Inventory
    <3> QED
      BY <1>1, <2>2, <2>3, <3>2, CommandStep DEF RotationInv, Types
  <2>4. CASE /\ cmd[p].at # End /\ row[cmd[p].at] \in {None, cmd[p].target}
             /\ cmd' = [cmd EXCEPT ![p].at = @ + 1]
    <3>1. cmd'[p] = [cmd[p] EXCEPT !.at = @ + 1] /\ \A q \in Processes : q # p => cmd'[q] = cmd[q]
      BY <2>4 DEF RotationInv, Types
    <3>2. ASSUME NEW r \in Inventory, r < cmd[p].at + 1, r # cmd[p].at PROVE r < cmd[p].at
      BY <3>2, <2>2, RowsFact DEF RotationInv, Inventory
    <3>3. SweptStaysSwept'
      BY <1>1, <2>1, <2>2, <2>4, <3>1, <3>2
        DEF RotationInv, SweptStaysSwept, Sweeping, End, Inventory
    <3> QED
      BY <1>1, <2>2, <2>4, <3>3, CommandStep DEF RotationInv, Types
  <2> QED
    BY <1>4, <2>3, <2>4 DEF rootTargetSweep
<1>5. CASE cmd[p] # None /\ \/ cmd[p].pc = "close" /\ cmd' = [cmd EXCEPT ![p].pc = "drain"]
                            \/ cmd[p].pc = "drain" /\ cmd' = [cmd EXCEPT ![p].pc = "commit"]
  <2>1. Sweeping(p) /\ cmd[p].pc \in {"close", "drain"}
    BY <1>5 DEF Sweeping
  <2>2. cmd[p] \in [pc : {"sweep", "close", "drain", "commit"}, id : Nat, target : Keys, at : Nat]
    BY <2>1 DEF RotationInv, Types, Sweeping
  <2>3. PICK next \in {"drain", "commit"} : cmd' = [cmd EXCEPT ![p].pc = next]
    BY <1>5
  <2>4. cmd'[p] = [cmd[p] EXCEPT !.pc = next] /\ \A q \in Processes : q # p => cmd'[q] = cmd[q]
    BY <2>3 DEF RotationInv, Types
  <2>5. SweptStaysSwept'
    BY <1>1, <2>1, <2>2, <2>4 DEF RotationInv, SweptStaysSwept, Sweeping, End, Inventory
  <2> QED
    BY <1>1, <2>2, <2>3, <2>5, CommandStep DEF RotationInv, Types
<1> QED
  BY <1>2, <1>3, <1>4, <1>5 DEF rootTargetSweep, DrainClose, DrainTimeout, Drained, Reopen, CommandLoad

(* The transaction of a retirement: the sweep of this very epoch is whole, *)
(* so no row needs the key that is retired.                                *)
LEMMA CommitStep ==
  ASSUME RotationInv, UNCHANGED deployment, NEW p \in Processes, CommitRetire(p)
  PROVE  RotationInv'
<1>1. UNCHANGED <<row, work>> /\ cmd[p] # None /\ cmd[p].pc = "commit"
  BY DEF CommitRetire
<1>2. cmd' = [cmd EXCEPT ![p] = [pc |-> "load"]] \/ cmd' = [cmd EXCEPT ![p] = None]
  BY DEF CommitRetire, Committed, Reopen
<1>3. \A q \in Processes : Sweeping(q)' => Sweeping(q) /\ cmd'[q] = cmd[q]
  BY <1>2 DEF RotationInv, Types, Sweeping
<1>4. CASE UNCHANGED <<keyState, policy, job>>
  <2>1. SweptStaysSwept'
    BY <1>1, <1>3, <1>4 DEF RotationInv, SweptStaysSwept, End, Inventory
  <2> QED
    BY <1>1, <1>2, <1>4, <2>1, CommandStep DEF RotationInv, Types
<1>5. CASE Eligible(p) /\ Retired
  <2>1. IsJob(job) /\ job.target = policy.write /\ policy.active /\ cmd[p].id = policy.epoch
    BY <1>5 DEF RotationInv, JobFollowsPolicy, Eligible
  <2>2. \A r \in Inventory : row[r] \in {None, policy.write}
    <3>1. Sweeping(p)
      BY <1>1 DEF Sweeping
    <3>2. cmd[p].at = End
      BY <1>1, <3>1 DEF RotationInv, SweptStaysSwept
    <3>3. \A r \in Inventory : r < End
      BY RowsFact DEF RotationInv, Inventory, End
    <3> QED
      BY <1>1, <2>1, <3>1, <3>2, <3>3 DEF RotationInv, SweptStaysSwept
  <2>3. keyState' = [keyState EXCEPT ![job.source] = "retired"]
        /\ policy' = [policy EXCEPT !.epoch = @ + 1, !.active = FALSE]
        /\ job' = [job EXCEPT !.status = "completed", !.phase = "completed"]
    BY <1>5 DEF Retired
  <2>4. policy'.epoch = policy.epoch + 1 /\ policy'.write = policy.write /\ ~policy'.active
        /\ DOMAIN policy' = DOMAIN policy /\ policy'.active = FALSE
    BY <2>3 DEF RotationInv, Types
  <2>5. IsJob(job') /\ job'.cutover = job.cutover
    BY <2>1, <2>3 DEF IsJob
  <2>6. Types'
    <3>1. DOMAIN keyState' = Keys
      BY <2>3 DEF RotationInv, Types
    <3>2. cmd' \in [Processes -> [pc : {"load"}] \union {None}
             \union [pc : {"sweep", "close", "drain", "commit"}, id : Nat, target : Keys, at : Nat]]
      BY <1>2 DEF RotationInv, Types
    <3>3. row' \in [Inventory' -> Keys \union {None}] /\ DOMAIN work' = Processes
          /\ deployment' \in Deployments
      BY <1>1 DEF RotationInv, Types, Inventory
    <3>4. DOMAIN policy' = {"epoch", "write", "active"} /\ policy'.write \in Keys
      BY <2>4, Zenon DEF RotationInv, Types
    <3>5. policy'.epoch \in Nat
      <4>1. policy.epoch \in Nat
        BY DEF RotationInv, Types
      <4> QED
        BY <2>4, <4>1
    <3>6. policy'.active \in BOOLEAN
      BY <2>4, Zenon
    <3> QED
      BY <3>1, <3>2, <3>3, <3>4, <3>5, <3>6 DEF Types
  <2>7. keyState'[policy.write] # "retired"
    BY <2>1, <2>3 DEF RotationInv, Types, WriteKeyUsable, IsJob
  <2>8. WriteKeyUsable' /\ NoRowNeedsRetiredKey'
    BY <1>1, <2>2, <2>4, <2>7 DEF WriteKeyUsable, NoRowNeedsRetiredKey, Inventory
  <2>9. job.cutover <= policy.epoch /\ policy.epoch \in Nat /\ job.cutover \in Nat
    BY <2>1 DEF RotationInv, JobFollowsPolicy, Types, IsJob
  <2>10. JobFollowsPolicy'
    BY <2>4, <2>5, <2>9 DEF JobFollowsPolicy
  <2>11. CopiesAreJobs'
    BY <1>1, <2>4, <2>5, <2>9 DEF RotationInv, CopiesAreJobs
  <2>12. SweptStaysSwept'
    <3>1. ASSUME NEW q \in Processes, Sweeping(q) PROVE cmd[q].id \in Nat
      BY <3>1 DEF RotationInv, Types, Sweeping
    <3> QED
      BY <1>3, <2>4, <2>9, <3>1 DEF RotationInv, SweptStaysSwept, End, Inventory
  <2> QED
    BY <2>6, <2>8, <2>10, <2>11, <2>12 DEF RotationInv
<1> QED
  BY <1>4, <1>5 DEF CommitRetire

-----------------------------------------------------------------------------
(* The invariant of the rotation holds for every deployment. *)
THEOREM RotationInvariance == Spec => []RotationInv
<1>1. ASSUME RotationInv, [Next]_vars PROVE RotationInv'
  <2>1. CASE UNCHANGED vars
    BY <1>1, <2>1, QuietStep DEF vars, state
  <2>2. CASE Next
    <3>1. UNCHANGED deployment /\ Step
      BY <2>2 DEF Next
    <3>2. CASE LeaseExpires
      BY <1>1, <3>1, <3>2, ServerSteps, RootAssumption
    <3>3. CASE \E r \in Inventory : Delete(r)
      BY <1>1, <3>1, <3>3, WriterSteps, RootAssumption
    <3>5. CASE Configure
      BY <1>1, <3>1, <3>5, QuietStep DEF Configure
    <3>4. ASSUME NEW p \in Processes,
                 \/ Start(p) \/ Crash(p) \/ InstanceExpires(p)
                 \/ TakeEpoch(p) \/ sealSecret(p) \/ CommitWrite(p) \/ RefreshRuntime(p)
                 \/ Reader(p)
                 \/ WorkerRead(p) \/ WorkerFails(p) \/ Worker(p)
                 \/ \E k \in Keys : StartSecretRotation(p, k)
                 \/ Rollback(p) \/ Resume(p) \/ Retire(p) \/ Retirement(p)
          PROVE  RotationInv'
      <4>1. CASE \/ Start(p) \/ Crash(p) \/ InstanceExpires(p)
                 \/ TakeEpoch(p) \/ sealSecret(p) \/ CommitWrite(p) \/ Reader(p)
        BY <1>1, <3>1, <4>1, ServerSteps, WriterSteps, ReaderSteps
      <4>2. CASE WorkerRead(p) \/ WorkerFails(p) \/ Worker(p)
        BY <1>1, <3>1, <4>2, ReadStep, BlockStep, ClaimStep, PageStep, ProcessStep,
           LateWorkerSteps DEF Worker
      <4>3. CASE (\E k \in Keys : StartSecretRotation(p, k)) \/ Rollback(p) \/ Resume(p)
        BY <1>1, <3>1, <4>3, RotationCommands, ResumeStep
      <4>4. CASE Retire(p) \/ Retirement(p)
        BY <1>1, <3>1, <4>4, RetirementSteps, CommitStep DEF Retirement
      <4>5. CASE RefreshRuntime(p)
        BY <1>1, <3>1, <4>5, QuietStep DEF RefreshRuntime
      <4> QED
        BY <3>4, <4>1, <4>2, <4>3, <4>4, <4>5
    <3> QED
      BY <3>1, <3>2, <3>3, <3>4, <3>5 DEF Step
  <2> QED
    BY <1>1, <2>1, <2>2
<1> QED
  BY <1>1, RotationInit, PTL DEF Spec

(* No stored secret ever needs a retired key, whatever writers prepared    *)
(* before a cutover, replaced workers and lost answers do afterwards       *)
(* (rootAction "retire", guardSecretWrite, rootProcessPage).               *)
THEOREM NoSecretLost == Spec => []NoRowNeedsRetiredKey
<1>1. RotationInv => NoRowNeedsRetiredKey
  BY DEF RotationInv
<1> QED
  BY <1>1, RotationInvariance, PTL

-----------------------------------------------------------------------------
(* Who may open the readers of a server while a retirement drains it.  A   *)
(* command and a run of the worker exclude each other (rootMutation, the   *)
(* flag busy), so nothing but the retirement itself installs a view, and   *)
(* its readers and its view stay closed from the drain to the commit.      *)

Fields == {"state", "live", "view", "closed", "shut", "busy", "published",
           "observed"}

Guard(p) ==
  /\ DOMAIN proc[p] = Fields
  /\ work[p] # None \/ cmd[p] # None => proc[p].busy /\ proc[p].state = "up"
  /\ work[p] = None \/ cmd[p] = None
  /\ cmd[p] # None /\ cmd[p].pc \in {"drain", "commit"} => proc[p].shut /\ proc[p].closed
  /\ cmd[p] # None /\ cmd[p].pc = "commit" => reader[p] # "opening"

Guarded ==
  /\ DOMAIN proc = Processes /\ DOMAIN reader = Processes
  /\ \A p \in Processes : Guard(p)

(* What a publication and a write of routing data leave of a server. *)
SameGuards(b, c) ==
  /\ DOMAIN c = DOMAIN b /\ c.state = b.state /\ c.busy = b.busy
  /\ c.shut = b.shut /\ c.closed = b.closed

LEMMA RefreshedGuards ==
  ASSUME NEW q, DOMAIN q = Fields PROVE SameGuards(q, Refreshed(q))
  BY DEF SameGuards, Refreshed, Fields

LEMMA LoadedFields ==
  ASSUME NEW q, DOMAIN q = Fields
  PROVE  /\ DOMAIN Loaded(q) = Fields /\ Loaded(q).state = q.state
         /\ Loaded(q).busy = q.busy
  BY DEF Loaded, Fields

LEMMA OutdatedGuards ==
  ASSUME Guarded, NEW r, proc' = Outdated \/ proc' = OutdatedBy(r) \/ UNCHANGED proc
  PROVE  DOMAIN proc' = Processes /\ \A q \in Processes : SameGuards(proc[q], proc'[q])
<1>1. CASE UNCHANGED proc
  BY <1>1 DEF Guarded, SameGuards
<1>2. CASE proc' = Outdated
  <2>1. ASSUME NEW q \in Processes PROVE SameGuards(proc[q], proc'[q])
    <3>1. DOMAIN proc[q] = Fields
      BY DEF Guarded, Guard
    <3>2. proc'[q] = [proc[q] EXCEPT !.published = FALSE]
      BY <1>2 DEF Outdated
    <3> QED
      BY <3>1, <3>2 DEF SameGuards, Fields
  <2> QED
    BY <1>2, <2>1 DEF Outdated
<1> QED
  BY <1>1, <1>2 DEF OutdatedBy

(* What a step leaves of a server it does not run on. *)
Apart(q) ==
  /\ SameGuards(proc[q], proc'[q]) /\ cmd'[q] = cmd[q] /\ reader'[q] = reader[q]
  /\ work'[q] # None => work[q] # None

LEMMA GuardStep ==
  ASSUME Guarded, NEW p \in Processes, DOMAIN proc' = Processes, DOMAIN reader' = Processes,
         \A q \in Processes : q # p => Apart(q), Guard(p)'
  PROVE  Guarded'
<1>1. ASSUME NEW q \in Processes, q # p PROVE Guard(q)'
  BY <1>1 DEF Guarded, Guard, Apart, SameGuards
<1> QED
  BY <1>1 DEF Guarded

LEMMA GuardInit == Init => Guarded
<1> SUFFICES ASSUME Init PROVE Guarded
  OBVIOUS
<1>1. DOMAIN proc = Processes /\ DOMAIN reader = Processes
  BY DEF Init
<1>2. ASSUME NEW p \in Processes PROVE Guard(p)
  <2>1. work[p] = None /\ cmd[p] = None
    BY DEF Init
  <2>2. DOMAIN proc[p] = Fields
    BY DEF Init, Fresh, Fields
  <2> QED
    BY <2>1, <2>2 DEF Guard
<1> QED
  BY <1>1, <1>2 DEF Guarded

(* Steps that touch neither the servers nor their work. *)
LEMMA GuardQuiet ==
  ASSUME Guarded, UNCHANGED cmd, DOMAIN reader' = Processes, DOMAIN proc' = Processes,
         \A q \in Processes : SameGuards(proc[q], proc'[q]),
         \A q \in Processes : reader'[q] = "opening" => reader[q] = "opening",
         \A q \in Processes : work'[q] # None => work[q] # None
  PROVE  Guarded'
  BY DEF Guarded, Guard, SameGuards

LEMMA GuardServers ==
  ASSUME RotationInv, Guarded, NEW p \in Processes,
         Start(p) \/ Crash(p) \/ InstanceExpires(p)
  PROVE  Guarded'
<1>0. DOMAIN proc = Processes /\ DOMAIN reader = Processes /\ DOMAIN cmd = Processes
      /\ DOMAIN work = Processes /\ Guard(p)
  BY DEF Guarded, RotationInv, Types
<1>1. CASE Start(p)
  <2>1. /\ UNCHANGED <<work, cmd, reader>>
        /\ proc[p].state = "new"
        /\ proc' = [proc EXCEPT ![p] =
                      Refreshed(Loaded([Fresh EXCEPT !.state = "up", !.live = TRUE]))]
    BY <1>1 DEF Start
  <2>2. DOMAIN proc'[p] = Fields
    <3>1. DOMAIN [Fresh EXCEPT !.state = "up", !.live = TRUE] = Fields
      BY DEF Fresh, Fields
    <3>2. DOMAIN Loaded([Fresh EXCEPT !.state = "up", !.live = TRUE]) = Fields
      BY <3>1, LoadedFields
    <3> QED
      BY <1>0, <2>1, <3>2, RefreshedGuards DEF SameGuards
  <2>3. work[p] = None /\ cmd[p] = None
    BY <1>0, <2>1 DEF Guard
  <2>4. Guard(p)'
    BY <2>1, <2>2, <2>3 DEF Guard
  <2> QED
    BY <1>0, <2>1, <2>4, GuardStep DEF Apart, SameGuards
<1>2. CASE Crash(p)
  <2>1. /\ proc' = [proc EXCEPT ![p] = [Fresh EXCEPT !.state = "dead", !.live = proc[p].live]]
        /\ work' = [work EXCEPT ![p] = None]
        /\ cmd' = [cmd EXCEPT ![p] = None]
        /\ reader' = [reader EXCEPT ![p] = "idle"]
    BY <1>2 DEF Crash
  <2>2. DOMAIN proc'[p] = Fields /\ work'[p] = None /\ cmd'[p] = None
    BY <1>0, <2>1 DEF Fresh, Fields
  <2>3. Guard(p)'
    BY <2>2 DEF Guard
  <2> QED
    BY <1>0, <2>1, <2>3, GuardStep DEF Apart, SameGuards
<1>3. CASE InstanceExpires(p)
  <2>1. UNCHANGED <<work, cmd, reader>> /\ proc' = [proc EXCEPT ![p].live = FALSE]
    BY <1>3 DEF InstanceExpires
  <2>2. /\ DOMAIN proc'[p] = Fields /\ proc'[p].state = proc[p].state
        /\ proc'[p].busy = proc[p].busy /\ proc'[p].shut = proc[p].shut
        /\ proc'[p].closed = proc[p].closed
    BY <1>0, <2>1 DEF Guard, Fields
  <2>3. Guard(p)'
    BY <1>0, <2>1, <2>2 DEF Guard
  <2> QED
    BY <1>0, <2>1, <2>3, GuardStep DEF Apart, SameGuards
<1> QED
  BY <1>1, <1>2, <1>3

LEMMA GuardWriters ==
  ASSUME RotationInv, Guarded, NEW p,
         TakeEpoch(p) \/ sealSecret(p) \/ CommitWrite(p) \/ LeaseExpires \/ Configure
           \/ (\E r \in Inventory : Delete(r))
  PROVE  Guarded'
<1>1. UNCHANGED <<cmd, reader>>
  BY DEF TakeEpoch, sealSecret, CommitWrite, LeaseExpires, Delete, Configure
<1>2. \A q \in Processes : work'[q] # None => work[q] # None
  BY DEF TakeEpoch, sealSecret, CommitWrite, LeaseExpires, Delete, Touch, Configure
<1>3. PICK r : proc' = Outdated \/ proc' = OutdatedBy(r) \/ UNCHANGED proc
  BY DEF TakeEpoch, sealSecret, CommitWrite, LeaseExpires, Delete, Configure
<1>4. DOMAIN proc' = Processes /\ \A q \in Processes : SameGuards(proc[q], proc'[q])
  BY <1>3, OutdatedGuards
<1> QED
  BY <1>1, <1>2, <1>4, GuardQuiet DEF Guarded

LEMMA GuardRefresh ==
  ASSUME RotationInv, Guarded, NEW p \in Processes, UNCHANGED <<cmd, reader>>,
         proc' = [proc EXCEPT ![p] = Refreshed(@)],
         \A q \in Processes : work'[q] # None => work[q] # None
  PROVE  Guarded'
<1>1. DOMAIN proc = Processes /\ DOMAIN proc[p] = Fields
  BY DEF Guarded, Guard
<1>2. DOMAIN proc' = Processes /\ proc'[p] = Refreshed(proc[p])
  BY <1>1
<1>3. ASSUME NEW q \in Processes PROVE SameGuards(proc[q], proc'[q])
  <2>1. CASE q = p
    BY <1>1, <1>2, <2>1, RefreshedGuards
  <2>2. CASE q # p
    BY <1>1, <2>2 DEF SameGuards
  <2> QED
    BY <2>1, <2>2
<1> QED
  BY <1>2, <1>3, GuardQuiet DEF Guarded

(* A reader that looks again finds the readers or the view closed. *)
LEMMA GuardReaders ==
  ASSUME RotationInv, Guarded, NEW p \in Processes, Reader(p)
  PROVE  Guarded'
<1>0. DOMAIN reader = Processes /\ Guard(p) /\ UNCHANGED <<proc, cmd, work>>
  BY DEF Guarded, Reader, ReadLook, ReadCount, openSecret, ReadDone
<1>1. CASE ReadLook(p) \/ ReadCount(p) \/ ReadDone(p)
  BY <1>0, <1>1, GuardQuiet DEF ReadLook, ReadCount, ReadDone, Guarded, SameGuards
<1>2. CASE openSecret(p)
  <2>1. reader' = [reader EXCEPT ![p] =
                     IF proc[p].shut \/ proc[p].closed THEN "idle" ELSE "opening"]
    BY <1>2 DEF openSecret
  <2>2. cmd[p] # None /\ cmd[p].pc = "commit" => reader'[p] # "opening"
    BY <1>0, <2>1 DEF Guard
  <2>3. Guard(p)'
    BY <1>0, <2>2 DEF Guard
  <2> QED
    BY <1>0, <2>1, <2>3, GuardStep DEF Guarded, Apart, SameGuards
<1> QED
  BY <1>1, <1>2 DEF Reader

(* The end of a run, of a command: the server is free again. *)
LEMMA GuardFreed ==
  ASSUME RotationInv, RotationInv', Guarded, NEW p \in Processes,
         NEW b, DOMAIN b = Fields, proc' = [proc EXCEPT ![p] = b], UNCHANGED reader,
         work'[p] = None, cmd'[p] = None,
         \A q \in Processes : q # p => cmd'[q] = cmd[q] /\ (work'[q] # None => work[q] # None)
  PROVE  Guarded'
<1>0. DOMAIN proc = Processes /\ DOMAIN reader = Processes /\ Guard(p)
  BY DEF Guarded
<1>1. DOMAIN proc'[p] = Fields
  BY <1>0
<1>2. Guard(p)'
  BY <1>1 DEF Guard
<1> QED
  BY <1>0, <1>2, GuardStep DEF Apart, SameGuards

LEMMA GuardWorker ==
  ASSUME RotationInv, RotationInv', Guarded, NEW p \in Processes,
         WorkerRead(p) \/ WorkerFails(p) \/ Worker(p)
  PROVE  Guarded'
<1>0. DOMAIN proc = Processes /\ DOMAIN reader = Processes /\ DOMAIN work = Processes /\ Guard(p)
  BY DEF Guarded, RotationInv, Types
<1>a. UNCHANGED <<cmd, reader>>
  BY DEF WorkerRead, WorkerFails, Worker, rootBlock, rootClaim, rootInventoryPage,
     rootProcessPage, WorkerPublish, WorkerAdvance, WorkerRefresh, WorkerObserve
<1>1. CASE WorkerRead(p)
  <2>1. proc[p].state = "up" /\ ~proc[p].busy
    BY <1>1 DEF WorkerRead, Up
  <2>2. work[p] = None /\ cmd[p] = None
    BY <1>0, <2>1 DEF Guard
  <2> DEFINE seen == IF proc[p].view.epoch # policy.epoch THEN Loaded(proc[p]) ELSE proc[p]
  <2>3. DOMAIN seen = Fields /\ seen.state = "up"
    BY <1>0, <2>1, LoadedFields DEF Guard
  <2>4. \/ /\ proc' = [proc EXCEPT ![p] = Refreshed([seen EXCEPT !.busy = TRUE])]
           /\ work' = [work EXCEPT ![p] = [pc |-> "read", job |-> job, held |-> TRUE,
                                           page |-> <<>>, fresh |-> {}]]
        \/ /\ proc' = [proc EXCEPT ![p] = IF policy.active THEN seen ELSE Refreshed(seen)]
           /\ UNCHANGED work
    BY <1>1 DEF WorkerRead
  <2> HIDE DEF seen
  <2>5. CASE /\ proc' = [proc EXCEPT ![p] = Refreshed([seen EXCEPT !.busy = TRUE])]
             /\ work' = [work EXCEPT ![p] = [pc |-> "read", job |-> job, held |-> TRUE,
                                             page |-> <<>>, fresh |-> {}]]
    <3>1. PICK b : b = [seen EXCEPT !.busy = TRUE]
      OBVIOUS
    <3>2. DOMAIN b = Fields /\ b.state = "up" /\ b.busy
      BY <2>3, <3>1 DEF Fields
    <3>3. proc'[p] = Refreshed(b)
      BY <1>0, <2>5, <3>1
    <3>4. DOMAIN proc'[p] = Fields /\ proc'[p].state = "up" /\ proc'[p].busy
      BY <3>2, <3>3, RefreshedGuards DEF SameGuards
    <3>5. Guard(p)'
      BY <1>a, <2>2, <3>4 DEF Guard
    <3> QED
      BY <1>0, <1>a, <2>5, <3>5, GuardStep DEF Apart, SameGuards
  <2>6. CASE /\ proc' = [proc EXCEPT ![p] = IF policy.active THEN seen ELSE Refreshed(seen)]
             /\ UNCHANGED work
    <3>1. DOMAIN proc'[p] = Fields
      BY <1>0, <2>3, <2>6, RefreshedGuards DEF SameGuards
    <3>2. Guard(p)'
      BY <1>0, <1>a, <2>2, <2>6, <3>1 DEF Guard
    <3> QED
      BY <1>0, <1>a, <2>6, <3>2, GuardStep DEF Apart, SameGuards
  <2> QED
    BY <2>4, <2>5, <2>6
<1>2. ASSUME ~WorkerRead(p) PROVE work[p] # None /\ cmd[p] = None
  BY <1>0, <1>2 DEF Guard, WorkerFails, Worker, rootBlock, rootClaim, rootInventoryPage,
     rootProcessPage, WorkerPublish, WorkerAdvance, WorkerRefresh, WorkerObserve
<1>b. ASSUME ~WorkerRead(p), Drops(p), NEW b, DOMAIN b = Fields,
             proc' = [proc EXCEPT ![p] = b]
      PROVE  Guarded'
  <2>1. /\ work'[p] = None /\ cmd'[p] = None
        /\ \A q \in Processes : q # p => cmd'[q] = cmd[q] /\ (work'[q] # None => work[q] # None)
    BY <1>0, <1>a, <1>2, <1>b DEF Drops
  <2> QED
    BY <1>a, <1>b, <2>1, GuardFreed
<1>c. DOMAIN [proc[p] EXCEPT !.busy = FALSE] = Fields
  BY <1>0 DEF Guard
<1>3. CASE ~WorkerRead(p) /\ Idle(p)
  BY <1>b, <1>c, <1>3, <1>0 DEF Idle, Drops
<1>4. CASE ~WorkerRead(p) /\ UNCHANGED proc
           /\ \A q \in Processes : q # p => (work'[q] # None => work[q] # None)
  <2>1. \A q \in Processes : work'[q] # None => work[q] # None
    BY <1>2, <1>4
  <2> QED
    BY <1>0, <1>a, <1>4, <2>1, GuardQuiet DEF SameGuards
<1>5. CASE rootClaim(p) /\ ~WorkerRead(p)
  <2>1. CASE Idle(p)
    BY <1>3, <1>5, <2>1
  <2>2. CASE ~Idle(p)
    <3>1. /\ UNCHANGED proc
          /\ work' = [q \in Processes |->
                 IF q = p THEN [work[p] EXCEPT !.pc = "claimed", !.job = job', !.held = TRUE]
                 ELSE IF work[q] = None THEN None ELSE [work[q] EXCEPT !.held = FALSE]]
      BY <1>5, <2>2 DEF rootClaim
    <3> QED
      BY <1>4, <1>5, <3>1
  <2> QED
    BY <2>1, <2>2
<1>6. CASE rootInventoryPage(p) /\ ~WorkerRead(p)
  <2>1. CASE Idle(p)
    BY <1>3, <1>6, <2>1
  <2>2. CASE ~Idle(p)
    <3>1. UNCHANGED proc
      BY <1>6, <2>2 DEF rootInventoryPage
    <3>2. \A q \in Processes : q # p => work'[q] = work[q]
      BY <1>0, <1>6, <2>2 DEF rootInventoryPage
    <3> QED
      BY <1>4, <1>6, <3>1, <3>2
  <2> QED
    BY <2>1, <2>2
<1>7. CASE rootProcessPage(p) /\ ~WorkerRead(p)
  <2>1. CASE Idle(p)
    BY <1>3, <1>7, <2>1
  <2>2. CASE ~Idle(p)
    <3> DEFINE item == Head(work[p].page)
               others == IF Outcome(p, item) = "rewrapped" THEN Touch(item.row) ELSE work
    <3>1. \/ work' = [others EXCEPT ![p] = None] /\ proc' = [proc EXCEPT ![p].busy = FALSE]
          \/ /\ proc' = OutdatedBy(item.row) \/ UNCHANGED proc
             /\ \A q \in Processes : q # p => work'[q] = others[q]
      BY <1>0, <1>7, <2>2 DEF rootProcessPage, Touch
    <3>2. DOMAIN others = Processes
          /\ \A q \in Processes : others[q] # None => work[q] # None
      BY <1>0 DEF Touch
    <3> HIDE DEF others
    <3>3. CASE work' = [others EXCEPT ![p] = None] /\ proc' = [proc EXCEPT ![p].busy = FALSE]
      <4>1. /\ work'[p] = None /\ cmd'[p] = None
            /\ \A q \in Processes : q # p => cmd'[q] = cmd[q] /\ (work'[q] # None => work[q] # None)
        BY <1>a, <1>2, <1>7, <3>2, <3>3
      <4> QED
        BY <1>0, <1>a, <1>c, <3>3, <4>1, GuardFreed
    <3>4. CASE /\ proc' = OutdatedBy(item.row) \/ UNCHANGED proc
               /\ \A q \in Processes : q # p => work'[q] = others[q]
      <4>1. DOMAIN proc' = Processes /\ \A q \in Processes : SameGuards(proc[q], proc'[q])
        BY <3>4, OutdatedGuards
      <4>2. \A q \in Processes : work'[q] # None => work[q] # None
        BY <1>2, <1>7, <3>2, <3>4
      <4> QED
        BY <1>0, <1>a, <4>1, <4>2, GuardQuiet
    <3> QED
      BY <3>1, <3>3, <3>4
  <2> QED
    BY <2>1, <2>2
<1>8. CASE ~WorkerRead(p) /\ (WorkerFails(p) \/ rootBlock(p) \/ WorkerAdvance(p))
  BY <1>3, <1>8 DEF WorkerFails, rootBlock, WorkerAdvance
<1>9. CASE ~WorkerRead(p) /\ WorkerPublish(p)
  <2>1. PICK f : f = [proc[p] EXCEPT !.busy = FALSE]
    OBVIOUS
  <2>2. DOMAIN f = Fields /\ DOMAIN Refreshed(f) = Fields
    BY <1>c, <2>1, RefreshedGuards DEF SameGuards
  <2>3. Drops(p)
    BY <1>9 DEF WorkerPublish, Drops
  <2>4. proc' = [proc EXCEPT ![p] = f] \/ proc' = [proc EXCEPT ![p] = Refreshed(f)]
    BY <1>0, <1>9, <2>1 DEF WorkerPublish
  <2> QED
    BY <1>b, <1>9, <2>2, <2>3, <2>4
<1>10. CASE ~WorkerRead(p) /\ WorkerObserve(p)
  <2>1. PICK o : o = IF Saves(p) THEN Proof(p) ELSE proc[p].observed
    OBVIOUS
  <2>2. PICK f : f = [proc[p] EXCEPT !.busy = FALSE, !.observed = o]
    OBVIOUS
  <2>3. DOMAIN f = Fields
    BY <1>0, <2>2 DEF Guard
  <2>4. proc' = [proc EXCEPT ![p].busy = FALSE, ![p].observed = IF Saves(p) THEN Proof(p) ELSE @]
    BY <1>10 DEF WorkerObserve
  <2>5. proc' = [proc EXCEPT ![p] = f]
    BY <1>0, <2>1, <2>2, <2>4 DEF Guard, Fields
  <2>6. Drops(p)
    BY <1>10 DEF WorkerObserve, Drops
  <2> QED
    BY <1>b, <1>10, <2>3, <2>5, <2>6
<1>11. CASE ~WorkerRead(p) /\ WorkerRefresh(p)
  <2>1. proc' = [proc EXCEPT ![p] = Refreshed(@)] /\ work' = [work EXCEPT ![p].pc = "observe"]
    BY <1>11 DEF WorkerRefresh
  <2>2. \A q \in Processes : work'[q] # None => work[q] # None
    BY <1>0, <1>2, <1>11, <2>1
  <2> QED
    BY <1>a, <2>1, <2>2, GuardRefresh
<1> QED
  BY <1>1, <1>5, <1>6, <1>7, <1>8, <1>9, <1>10, <1>11 DEF Worker

LEMMA GuardCommands ==
  ASSUME RotationInv, RotationInv', Guarded, NEW p \in Processes,
         \/ \E k \in Keys : StartSecretRotation(p, k)
         \/ Rollback(p) \/ Resume(p) \/ Retire(p)
  PROVE  Guarded'
<1>0. DOMAIN proc = Processes /\ DOMAIN reader = Processes /\ DOMAIN cmd = Processes /\ Guard(p)
  BY DEF Guarded, RotationInv, Types
<1>1. proc[p].state = "up" /\ ~proc[p].busy /\ UNCHANGED reader
  BY DEF StartSecretRotation, Rollback, Resume, Retire, Command, Up
<1>2. \A q \in Processes : work'[q] # None => work[q] # None
  BY DEF StartSecretRotation, Rollback, Resume, Retire
<1>3. PICK c : /\ cmd' = [cmd EXCEPT ![p] = c]
               /\ \/ proc' = [proc EXCEPT ![p].busy = TRUE]
                  \/ proc' = [proc EXCEPT ![p].busy = TRUE, ![p].observed = FALSE]
               /\ c.pc \in {"load", "sweep"}
  <2>1. CASE Retire(p)
    <3> DEFINE c == [pc |-> "sweep", id |-> job.cutover, target |-> job.target, at |-> 1]
    <3>1. c.pc = "sweep" /\ cmd' = [cmd EXCEPT ![p] = c] /\ proc' = [proc EXCEPT ![p].busy = TRUE]
      BY <2>1 DEF Retire
    <3> QED
      BY <3>1
  <2>2. CASE Committed(p)
    <3> DEFINE c == [pc |-> "load"]
    <3>1. c.pc = "load" /\ cmd' = [cmd EXCEPT ![p] = c]
          /\ proc' = [proc EXCEPT ![p].busy = TRUE, ![p].observed = FALSE]
      BY <2>2 DEF Committed
    <3> QED
      BY <3>1
  <2> QED
    BY <2>1, <2>2 DEF StartSecretRotation, Rollback, Resume
<1>4. DOMAIN proc'[p] = Fields /\ proc'[p].state = "up" /\ proc'[p].busy
  BY <1>0, <1>1, <1>3 DEF Guard, Fields
<1>5. work'[p] = None
  BY <1>0, <1>1, <1>2 DEF Guard
<1>6. cmd'[p].pc \in {"load", "sweep"}
  BY <1>0, <1>3
<1>7. Guard(p)'
  BY <1>4, <1>5, <1>6 DEF Guard
<1> QED
  BY <1>0, <1>1, <1>2, <1>3, <1>7, GuardStep DEF Apart, SameGuards

(* A command that ends opens the server and whatever it had closed. *)
LEMMA GuardEnds ==
  ASSUME RotationInv, Guarded, NEW p \in Processes, UNCHANGED <<work, reader>>,
         cmd[p] # None, cmd' = [cmd EXCEPT ![p] = None], NEW q,
         proc' = [proc EXCEPT ![p] = q], DOMAIN q = Fields
  PROVE  Guarded'
<1>0. DOMAIN proc = Processes /\ DOMAIN reader = Processes /\ DOMAIN cmd = Processes /\ Guard(p)
  BY DEF Guarded, RotationInv, Types
<1>1. work'[p] = None /\ cmd'[p] = None /\ DOMAIN proc'[p] = Fields
  BY <1>0 DEF Guard
<1>2. Guard(p)'
  BY <1>1 DEF Guard
<1> QED
  BY <1>0, <1>2, GuardStep DEF Apart, SameGuards

LEMMA GuardRetirement ==
  ASSUME RotationInv, RotationInv', Guarded, NEW p \in Processes, Retirement(p)
  PROVE  Guarded'
<1>0. DOMAIN proc = Processes /\ DOMAIN reader = Processes /\ DOMAIN cmd = Processes /\ Guard(p)
  BY DEF Guarded, RotationInv, Types
<1>a. cmd[p] # None /\ UNCHANGED <<work, reader>>
  BY DEF Retirement, rootTargetSweep, DrainClose, DrainTimeout, Drained, CommitRetire, CommandLoad
<1>b. work[p] = None /\ DOMAIN proc[p] = Fields /\ proc[p].busy /\ proc[p].state = "up"
  BY <1>0, <1>a DEF Guard
<1>c. CASE cmd' = [cmd EXCEPT ![p] = None] /\ proc' = [proc EXCEPT ![p].busy = FALSE]
  <2>1. DOMAIN [proc[p] EXCEPT !.busy = FALSE] = Fields
    BY <1>b
  <2> QED
    BY <1>0, <1>a, <1>c, <2>1, GuardEnds
<1>d. CASE cmd' = [cmd EXCEPT ![p] = None]
           /\ proc' = [proc EXCEPT ![p].shut = FALSE, ![p].closed = FALSE, ![p].busy = FALSE]
  <2>1. PICK q : q = [proc[p] EXCEPT !.shut = FALSE, !.closed = FALSE, !.busy = FALSE]
    OBVIOUS
  <2>2. DOMAIN q = Fields /\ proc' = [proc EXCEPT ![p] = q]
    BY <1>0, <1>b, <1>d, <2>1
  <2> QED
    BY <1>a, <1>d, <2>2, GuardEnds
<1>e. ASSUME UNCHANGED proc, NEW c, cmd' = [cmd EXCEPT ![p] = c],
             c.pc \in {"sweep", "close"}
      PROVE  Guarded'
  <2>1. cmd'[p].pc \in {"sweep", "close"}
    BY <1>0, <1>e
  <2>2. Guard(p)'
    BY <1>a, <1>b, <1>e, <2>1 DEF Guard
  <2> QED
    BY <1>0, <1>a, <1>e, <2>2, GuardStep DEF Apart, SameGuards
<1>f. ASSUME cmd[p].pc # "load"
      PROVE  cmd[p] \in [pc : {"sweep", "close", "drain", "commit"}, id : Nat, target : Keys, at : Nat]
  BY <1>a, <1>f DEF RotationInv, Types
<1>1. CASE rootTargetSweep(p)
  <2>1. CASE cmd' = [cmd EXCEPT ![p] = None] /\ proc' = [proc EXCEPT ![p].busy = FALSE]
    BY <1>c, <2>1
  <2>2. CASE cmd' = [cmd EXCEPT ![p].pc = "close"] /\ UNCHANGED proc
    <3>1. PICK c : c = [cmd[p] EXCEPT !.pc = "close"]
      OBVIOUS
    <3>2. c.pc = "close" /\ cmd' = [cmd EXCEPT ![p] = c]
      BY <1>0, <1>1, <1>f, <2>2, <3>1 DEF rootTargetSweep
    <3> QED
      BY <1>e, <2>2, <3>2
  <2>3. CASE cmd' = [cmd EXCEPT ![p].at = @ + 1] /\ UNCHANGED proc
    <3>1. PICK c : c = [cmd[p] EXCEPT !.at = @ + 1]
      OBVIOUS
    <3>2. c.pc = "sweep" /\ cmd' = [cmd EXCEPT ![p] = c]
      BY <1>0, <1>1, <1>f, <2>3, <3>1 DEF rootTargetSweep
    <3> QED
      BY <1>e, <2>3, <3>2
  <2> QED
    BY <1>1, <2>1, <2>2, <2>3 DEF rootTargetSweep
<1>2. CASE DrainClose(p)
  <2>1. CASE cmd' = [cmd EXCEPT ![p] = None] /\ proc' = [proc EXCEPT ![p].busy = FALSE]
    BY <1>c, <2>1
  <2>2. CASE /\ proc' = [proc EXCEPT ![p].shut = TRUE, ![p].closed = TRUE]
             /\ cmd' = [cmd EXCEPT ![p].pc = "drain"]
    <3>1. /\ DOMAIN proc'[p] = Fields /\ proc'[p].shut /\ proc'[p].closed
          /\ proc'[p].busy = proc[p].busy /\ proc'[p].state = "up"
      BY <1>0, <1>b, <2>2 DEF Fields
    <3>2. cmd'[p].pc = "drain"
      BY <1>0, <1>2, <1>f, <2>2 DEF DrainClose
    <3>3. Guard(p)'
      BY <1>a, <1>b, <3>1, <3>2 DEF Guard
    <3> QED
      BY <1>0, <1>a, <2>2, <3>3, GuardStep DEF Apart, SameGuards
  <2> QED
    BY <1>2, <2>1, <2>2 DEF DrainClose
<1>3. CASE DrainTimeout(p)
  BY <1>3, <1>d DEF DrainTimeout, Reopen
<1>4. CASE Drained(p)
  <2>1. UNCHANGED proc /\ cmd' = [cmd EXCEPT ![p].pc = "commit"] /\ cmd[p].pc = "drain"
        /\ reader[p] # "opening"
    BY <1>4 DEF Drained, NoReaders
  <2>2. proc[p].shut /\ proc[p].closed
    BY <1>0, <1>a, <2>1 DEF Guard
  <2>3. Guard(p)'
    BY <1>a, <1>b, <2>1, <2>2 DEF Guard
  <2> QED
    BY <1>0, <1>a, <2>1, <2>3, GuardStep DEF Apart, SameGuards
<1>5. CASE CommitRetire(p)
  <2>1. CASE Reopen(p)
    BY <1>d, <2>1 DEF Reopen
  <2>2. CASE Committed(p)
    <3>1. /\ cmd' = [cmd EXCEPT ![p] = [pc |-> "load"]]
          /\ proc' = [proc EXCEPT ![p].busy = TRUE, ![p].observed = FALSE]
      BY <2>2 DEF Committed
    <3>2. /\ DOMAIN proc'[p] = Fields /\ proc'[p].busy /\ proc'[p].state = "up"
          /\ cmd'[p].pc = "load"
      BY <1>0, <1>b, <3>1 DEF Fields
    <3>3. Guard(p)'
      BY <1>a, <1>b, <3>2 DEF Guard
    <3> QED
      BY <1>0, <1>a, <3>1, <3>3, GuardStep DEF Apart, SameGuards
  <2> QED
    BY <1>5, <2>1, <2>2 DEF CommitRetire
<1>6. CASE CommandLoad(p)
  <2>1. CASE proc' = [proc EXCEPT ![p].busy = FALSE]
    BY <1>6, <1>c, <2>1 DEF CommandLoad
  <2>2. CASE proc' = [proc EXCEPT ![p] = Refreshed(Loaded([@ EXCEPT !.busy = FALSE]))]
    <3>a. PICK f : f = [proc[p] EXCEPT !.busy = FALSE]
      OBVIOUS
    <3>b. DOMAIN f = Fields
      BY <1>b, <3>a
    <3>1. PICK q : q = Refreshed(Loaded(f))
      OBVIOUS
    <3>2. DOMAIN q = Fields /\ proc' = [proc EXCEPT ![p] = q]
      BY <1>0, <2>2, <3>a, <3>b, <3>1, LoadedFields, RefreshedGuards DEF SameGuards
    <3>3. cmd' = [cmd EXCEPT ![p] = None]
      BY <1>6 DEF CommandLoad
    <3> QED
      BY <1>a, <3>2, <3>3, GuardEnds
  <2> QED
    BY <1>6, <2>1, <2>2 DEF CommandLoad
<1> QED
  BY <1>1, <1>2, <1>3, <1>4, <1>5, <1>6 DEF Retirement

(* While a retirement drains a server nothing else opens its readers, for  *)
(* any number of servers.                                                  *)
THEOREM GuardInvariance == Spec => []Guarded
<1>1. ASSUME RotationInv, RotationInv', Guarded, [Next]_vars PROVE Guarded'
  <2>1. CASE UNCHANGED vars
    BY <1>1, <2>1, GuardQuiet DEF vars, state, Guarded, SameGuards
  <2>2. ASSUME NEW p \in Processes,
               \/ Start(p) \/ Crash(p) \/ InstanceExpires(p)
               \/ TakeEpoch(p) \/ sealSecret(p) \/ CommitWrite(p) \/ RefreshRuntime(p)
               \/ Reader(p)
               \/ WorkerRead(p) \/ WorkerFails(p) \/ Worker(p)
               \/ \E k \in Keys : StartSecretRotation(p, k)
               \/ Rollback(p) \/ Resume(p) \/ Retire(p) \/ Retirement(p)
        PROVE  Guarded'
    <3>1. CASE RefreshRuntime(p)
      BY <1>1, <3>1, GuardRefresh DEF RefreshRuntime
    <3> QED
      BY <1>1, <2>2, <3>1, GuardServers, GuardWriters, GuardReaders, GuardWorker,
         GuardCommands, GuardRetirement
  <2>3. CASE LeaseExpires \/ Configure \/ \E r \in Inventory : Delete(r)
    BY <1>1, <2>3, GuardWriters
  <2> QED
    BY <1>1, <2>1, <2>2, <2>3 DEF Next, Step
<1>2. RotationInv /\ RotationInv' /\ Guarded /\ [Next]_vars => Guarded'
  BY <1>1
<1> QED
  BY <1>2, GuardInit, RotationInvariance, PTL DEF Spec

(* A key is retired only when no server that is about to retire has a      *)
(* reader inside its old view (drainSecretView, openSecret).               *)
THEOREM RetirementDrained == Spec => DrainedAtRetirement
<1>1. Guarded => \A k \in Keys, p \in Processes :
                   keyState[k] # "retired" /\ keyState'[k] = "retired" /\ cmd[p] # None
                     /\ cmd[p].pc = "commit"
                   => reader[p] # "opening"
  BY DEF Guarded, Guard
<1> QED
  BY <1>1, GuardInvariance, PTL DEF DrainedAtRetirement
=============================================================================
