------------------------ MODULE CredentialDrainProofs ------------------------
(* The destruction of a published object for any number of processes,      *)
(* commands and users.  A user exists only in a process whose exposure is  *)
(* recorded; a recorded join or closure is final for its process; and the  *)
(* remote claim is made in the transaction that sees one of the two for    *)
(* every registered generation, after the denial has ended exposures.      *)
EXTENDS CredentialDrain, TLAPS, FiniteSetTheorems

ProcessInv(p) ==
  /\ local[p].op = "holding" => local[p].users > 0
  /\ ~use[p].exposed => /\ local[p].users = 0
                        /\ local[p].op \in {"idle", "ticket"}
                        /\ ~local[p].prepared
  /\ local[p].ack \/ use[p].joined => local[p].closed /\ local[p].users = 0
  /\ process[p] = "closed" => local[p].processClosed /\ Idle(p)
  /\ local[p].up = "new" => process[p] = "none"
  /\ process[p] = "none" => local[p].up = "new" /\ ~use[p].exposed
  /\ denial.remote # None /\ use[p].exposed => use[p].joined \/ process[p] = "closed"

CommandInv(c) ==
  /\ runner[c].at = "remote" => denial.remote = c
  /\ c \in remote => denial.remote = c
  /\ command[c] = "no_effect" => denial.remote # c

ClaimInv == denial.remote # None => denial.by # None /\ credential = "retired"

DrainInv ==
  /\ TypeOK
  /\ ClaimInv
  /\ \A p \in Processes : ProcessInv(p)
  /\ \A c \in Commands : CommandInv(c)

LEMMA DrainInit == Init => DrainInv
<1> SUFFICES ASSUME Init PROVE DrainInv
  OBVIOUS
<1>1. TypeOK
  BY DrainAssumption DEF Init, TypeOK, Fresh
<1>2. ClaimInv /\ \A p \in Processes : ProcessInv(p)
  BY DEF Init, ClaimInv, ProcessInv, Fresh, Idle
<1>3. \A c \in Commands : CommandInv(c)
  BY DrainAssumption DEF Init, CommandInv
<1> QED
  BY <1>1, <1>2, <1>3 DEF DrainInv

LocalRecord == [up : {"new", "up", "dead", "stopped"}, closed : BOOLEAN,
                users : 0..MaxUsers, spoiled : BOOLEAN, processClosed : BOOLEAN,
                processPoisoned : BOOLEAN, op : {"idle", "ticket", "exposed", "holding"},
                ack : BOOLEAN, prepared : BOOLEAN]

(* A step of one process that only changes its own memory. *)
LEMMA LocalStep ==
  ASSUME DrainInv, NEW p \in Processes, NEW r \in LocalRecord,
         local' = [local EXCEPT ![p] = r], UNCHANGED <<database, runner, remote>>,
         ProcessInv(p)'
  PROVE  DrainInv'
<1>1. TypeOK'
  BY DEF DrainInv, TypeOK, LocalRecord, database
<1>2. ClaimInv' /\ \A c \in Commands : CommandInv(c)'
  BY DEF DrainInv, ClaimInv, CommandInv, database
<1>3. \A q \in Processes : ProcessInv(q)'
  BY DEF DrainInv, TypeOK, ProcessInv, Idle, database
<1> QED
  BY <1>1, <1>2, <1>3 DEF DrainInv

(* The steps of the holders: admission, use, release, poison and closing.  *)
LEMMA MemorySteps ==
  ASSUME DrainInv, NEW p \in Processes,
         \/ ProcessAcquire(p) \/ FiniteAcquire(p) \/ FiniteClose(p) \/ NativeAcquire(p)
         \/ NativeRelease(p) \/ Poison(p) \/ BeginShutdown(p) \/ CloseOnly(p)
         \/ BeginAcknowledge(p)
  PROVE  DrainInv'
<1> DEFINE r == local'[p]
<1>1. UNCHANGED <<database, runner, remote>> /\ local' = [local EXCEPT ![p] = r]
  BY DEF ProcessAcquire, FiniteAcquire, FiniteClose, NativeAcquire, NativeRelease, Poison,
         BeginShutdown, CloseOnly, BeginAcknowledge, Set, DrainInv, TypeOK
<1>2. local[p] \in LocalRecord /\ ProcessInv(p)
  BY DEF DrainInv, TypeOK, LocalRecord
<1>3. CASE ProcessAcquire(p)
  <2>1. r = [local[p] EXCEPT !.op = "ticket"]
    BY <1>3 DEF ProcessAcquire, Set, DrainInv, TypeOK
  <2>2. r \in LocalRecord
    BY <1>2, <1>3, <2>1, DrainAssumption DEF LocalRecord, ProcessInv, ProcessAcquire, Current, Up
  <2>3. ProcessInv(p)'
    BY <1>1, <1>2, <1>3, <2>1, DrainAssumption DEF LocalRecord, ProcessInv, ProcessAcquire, Current, Up, Idle, database
  <2> QED
    BY <1>1, <2>2, <2>3, LocalStep
<1>4. CASE FiniteAcquire(p)
  <2>0. Up(p) /\ local[p].op = "exposed"
    BY <1>4 DEF FiniteAcquire
  <2>1. CASE r = [local[p] EXCEPT !.op = "idle"]
    <3>1. r \in LocalRecord
      BY <1>2, <2>1 DEF LocalRecord
    <3>2. ProcessInv(p)'
      BY <1>1, <1>2, <2>0, <2>1 DEF LocalRecord, ProcessInv, Up, Idle, database
    <3> QED
      BY <1>1, <3>1, <3>2, LocalStep
  <2>2. CASE /\ r = [local[p] EXCEPT !.op = "holding", !.users = @ + 1]
             /\ local[p].users < MaxUsers /\ ~local[p].processClosed /\ ~local[p].closed
    <3>1. r.users = local[p].users + 1 /\ r.users \in 0..MaxUsers
      BY <1>2, <2>2, DrainAssumption DEF LocalRecord
    <3>2. r = [[local[p] EXCEPT !.op = "holding"] EXCEPT !.users = r.users]
      BY <2>2, <3>1
    <3>3. r \in LocalRecord
      BY <1>2, <3>1, <3>2 DEF LocalRecord
    <3>4. /\ r.op = "holding" /\ r.closed = local[p].closed /\ r.ack = local[p].ack
          /\ r.prepared = local[p].prepared /\ r.up = local[p].up
          /\ r.processClosed = local[p].processClosed
      BY <1>2, <2>2 DEF LocalRecord
    <3>5. ProcessInv(p)'
      BY <1>1, <1>2, <2>0, <2>2, <3>1, <3>4 DEF LocalRecord, ProcessInv, Up, Idle, database
    <3> QED
      BY <1>1, <3>3, <3>5, LocalStep
  <2> QED
    BY <1>4, <2>1, <2>2 DEF FiniteAcquire, Set, DrainInv, TypeOK
<1>5. CASE FiniteClose(p)
  <2>1. PICK cached \in BOOLEAN :
          r = [local[p] EXCEPT !.op = "idle", !.users = @ - 1, !.prepared = @ \/ cached]
    BY <1>5 DEF FiniteClose, Set, DrainInv, TypeOK
  <2>2. local[p].users > 0 /\ local[p].op = "holding" /\ Up(p)
    BY <1>2, <1>5 DEF FiniteClose, ProcessInv
  <2>3. r.users = local[p].users - 1 /\ r.users \in 0..MaxUsers
    BY <1>2, <2>1, <2>2, DrainAssumption DEF LocalRecord
  <2>4. r.prepared \in BOOLEAN
    BY <1>2, <2>1, Zenon DEF LocalRecord
  <2>5. r = [[[local[p] EXCEPT !.op = "idle"] EXCEPT !.users = r.users] EXCEPT !.prepared = r.prepared]
    BY <1>2, <2>1 DEF LocalRecord
  <2>6. r \in LocalRecord
    BY <1>2, <2>3, <2>4, <2>5 DEF LocalRecord
  <2>7. /\ r.op = "idle" /\ r.closed = local[p].closed /\ r.ack = local[p].ack
        /\ r.up = local[p].up /\ r.processClosed = local[p].processClosed
    BY <1>2, <2>1 DEF LocalRecord
  <2>8. use[p].exposed
    BY <1>2, <2>2 DEF ProcessInv
  <2>9. ProcessInv(p)'
    BY <1>1, <1>2, <2>2, <2>3, <2>7, <2>8 DEF LocalRecord, ProcessInv, Up, Idle, database
  <2> QED
    BY <1>1, <2>6, <2>9, LocalStep
<1>6. CASE NativeAcquire(p)
  <2>1. r = [local[p] EXCEPT !.users = @ + 1]
    BY <1>6 DEF NativeAcquire, Set, DrainInv, TypeOK
  <2>2. r \in LocalRecord
    BY <1>2, <1>6, <2>1, DrainAssumption DEF LocalRecord, ProcessInv, NativeAcquire, Up
  <2>3. ProcessInv(p)'
    BY <1>1, <1>2, <1>6, <2>1, DrainAssumption DEF LocalRecord, ProcessInv, NativeAcquire, Up, Idle, database
  <2> QED
    BY <1>1, <2>2, <2>3, LocalStep
<1>7. CASE NativeRelease(p)
  <2>1. r = [local[p] EXCEPT !.users = @ - 1]
    BY <1>7 DEF NativeRelease, Set, DrainInv, TypeOK
  <2>2. r \in LocalRecord
    BY <1>2, <1>7, <2>1, DrainAssumption DEF LocalRecord, ProcessInv, NativeRelease, Up, Held
  <2>3. ProcessInv(p)'
    BY <1>1, <1>2, <1>7, <2>1, DrainAssumption DEF LocalRecord, ProcessInv, NativeRelease, Up, Held, Idle, database
  <2> QED
    BY <1>1, <2>2, <2>3, LocalStep
<1>8. CASE Poison(p)
  <2>1. r = [local[p] EXCEPT !.spoiled = TRUE, !.processPoisoned = TRUE]
    BY <1>8 DEF Poison, Set, DrainInv, TypeOK
  <2>2. r \in LocalRecord
    BY <1>2, <1>8, <2>1, DrainAssumption DEF LocalRecord, ProcessInv, Poison, Up
  <2>3. ProcessInv(p)'
    BY <1>1, <1>2, <1>8, <2>1, DrainAssumption DEF LocalRecord, ProcessInv, Poison, Up, Idle, database
  <2> QED
    BY <1>1, <2>2, <2>3, LocalStep
<1>9. CASE BeginShutdown(p)
  <2>1. r = [local[p] EXCEPT !.processClosed = TRUE]
    BY <1>9 DEF BeginShutdown, Set, DrainInv, TypeOK
  <2>2. r \in LocalRecord
    BY <1>2, <1>9, <2>1, DrainAssumption DEF LocalRecord, ProcessInv, BeginShutdown, Current, Up
  <2>3. ProcessInv(p)'
    BY <1>1, <1>2, <1>9, <2>1, DrainAssumption DEF LocalRecord, ProcessInv, BeginShutdown, Current, Up, Idle, database
  <2> QED
    BY <1>1, <2>2, <2>3, LocalStep
<1>10. CASE CloseOnly(p)
  <2>1. r = [local[p] EXCEPT !.closed = TRUE]
    BY <1>10 DEF CloseOnly, Set, DrainInv, TypeOK
  <2>2. r \in LocalRecord
    BY <1>2, <1>10, <2>1, DrainAssumption DEF LocalRecord, ProcessInv, CloseOnly, Current, Up
  <2>3. ProcessInv(p)'
    BY <1>1, <1>2, <1>10, <2>1, DrainAssumption DEF LocalRecord, ProcessInv, CloseOnly, Current, Up, Idle, database
  <2> QED
    BY <1>1, <2>2, <2>3, LocalStep
<1>11. CASE BeginAcknowledge(p)
  <2>1. r = [local[p] EXCEPT !.ack = TRUE]
    BY <1>11 DEF BeginAcknowledge, Set, DrainInv, TypeOK
  <2>2. r \in LocalRecord
    BY <1>2, <1>11, <2>1, DrainAssumption DEF LocalRecord, ProcessInv, BeginAcknowledge, Current, Up, Joined
  <2>3. ProcessInv(p)'
    BY <1>1, <1>2, <1>11, <2>1, DrainAssumption DEF LocalRecord, ProcessInv, BeginAcknowledge, Current, Up, Joined, Idle, database
  <2> QED
    BY <1>1, <2>2, <2>3, LocalStep
<1> QED
  BY <1>3, <1>4, <1>5, <1>6, <1>7, <1>8, <1>9, <1>10, <1>11

(* Every other process keeps what it and its rows say. *)
LEMMA OtherProcesses ==
  ASSUME DrainInv, NEW p \in Processes, NEW q \in Processes, q # p,
         local'[q] = local[q], use'[q] = use[q], process'[q] = process[q],
         UNCHANGED denial
  PROVE  ProcessInv(q)'
<1>1. ProcessInv(q)
  BY DEF DrainInv
<1> QED
  BY <1>1 DEF ProcessInv, Idle

LEMMA InstanceSteps ==
  ASSUME DrainInv, NEW p \in Processes,
         \/ HeartbeatSystemInstance(p) \/ LeaseExpires(p) \/ CleanupOfflineSystemInstances(p)
         \/ Publish(p) \/ Retire
  PROVE  DrainInv'
<1>1. UNCHANGED <<local, process, use, denial, command, runner, remote>>
      /\ (denial.remote # None => UNCHANGED credential)
  BY DEF DrainInv, ClaimInv, HeartbeatSystemInstance, LeaseExpires,
         CleanupOfflineSystemInstances, Publish, Retire
<1>2. TypeOK'
  BY <1>1 DEF DrainInv, TypeOK, HeartbeatSystemInstance, LeaseExpires,
              CleanupOfflineSystemInstances, Publish, Retire
<1>3. ClaimInv' /\ (\A q \in Processes : ProcessInv(q)') /\ \A c \in Commands : CommandInv(c)'
  BY <1>1 DEF DrainInv, ClaimInv, ProcessInv, CommandInv, Idle
<1> QED
  BY <1>2, <1>3 DEF DrainInv

LEMMA StartStep ==
  ASSUME DrainInv, NEW p \in Processes, StartSystemInstance(p)
  PROVE  DrainInv'
<1> DEFINE r == [local[p] EXCEPT !.up = "up"]
<1>1. /\ local' = [local EXCEPT ![p] = r] /\ process' = [process EXCEPT ![p] = "open"]
      /\ instance' = [instance EXCEPT ![p] = "live"]
      /\ UNCHANGED <<use, denial, command, runner, credential, remote>>
      /\ local[p].up = "new"
  BY DEF StartSystemInstance, Set
<1>2. ProcessInv(p) /\ local[p] \in LocalRecord /\ DOMAIN local = Processes /\ DOMAIN process = Processes
  BY DEF DrainInv, TypeOK, LocalRecord
<1>3. r \in LocalRecord
  BY <1>2 DEF LocalRecord
<1>4. TypeOK'
  <2> HIDE DEF r
  <2> QED
    BY <1>1, <1>3 DEF DrainInv, TypeOK, LocalRecord
<1>5. ProcessInv(p)'
  <2>1. /\ local'[p].users = local[p].users /\ local'[p].op = local[p].op
        /\ local'[p].closed = local[p].closed /\ local'[p].prepared = local[p].prepared
        /\ local'[p].ack = local[p].ack /\ local'[p].up = "up"
    BY <1>1, <1>2 DEF LocalRecord
  <2>2. process'[p] = "open"
    BY <1>1, <1>2
  <2> QED
    BY <1>1, <1>2, <2>1, <2>2 DEF ProcessInv
<1>6. \A q \in Processes : q # p => ProcessInv(q)'
  BY <1>1, <1>2, OtherProcesses
<1>7. ClaimInv' /\ \A c \in Commands : CommandInv(c)'
  BY <1>1 DEF DrainInv, ClaimInv, CommandInv
<1> QED
  BY <1>4, <1>5, <1>6, <1>7 DEF DrainInv

LEMMA CrashStep ==
  ASSUME DrainInv, NEW p \in Processes, Crash(p)
  PROVE  DrainInv'
<1> DEFINE r == [local[p] EXCEPT !.up = "dead", !.ack = FALSE]
<1>1. /\ local' = [local EXCEPT ![p] = r]
      /\ runner' = [c \in Commands |-> IF runner[c].on = p THEN [at |-> "none", on |-> None]
                                       ELSE runner[c]]
      /\ UNCHANGED <<instance, process, use, denial, command, credential, remote>>
      /\ Running(p)
  BY DEF Crash, Set
<1>2. ProcessInv(p) /\ local[p] \in LocalRecord /\ DOMAIN local = Processes
  BY DEF DrainInv, TypeOK, LocalRecord
<1>3. r \in LocalRecord
  BY <1>2 DEF LocalRecord
<1>4. TypeOK'
  <2>1. runner' \in [Commands -> [at : {"none", "join", "recheck", "boundary", "remote",
                                    "acknowledged", "unknown", "failed", "no_effect"},
                              on : Processes \union {None}]]
    BY <1>1 DEF DrainInv, TypeOK
  <2> HIDE DEF r
  <2>2. local' \in [Processes -> LocalRecord]
    BY <1>1, <1>3 DEF DrainInv, TypeOK, LocalRecord
  <2> QED
    BY <1>1, <2>1, <2>2 DEF DrainInv, TypeOK, LocalRecord
<1>5. ProcessInv(p)'
  <2>1. /\ local'[p].users = local[p].users /\ local'[p].op = local[p].op
        /\ local'[p].closed = local[p].closed /\ local'[p].prepared = local[p].prepared
        /\ local'[p].processClosed = local[p].processClosed
        /\ local'[p].ack = FALSE /\ local'[p].up = "dead"
    BY <1>1, <1>2 DEF LocalRecord
  <2> QED
    BY <1>1, <1>2, <2>1 DEF ProcessInv, Idle, Running
<1>6. \A q \in Processes : q # p => ProcessInv(q)'
  BY <1>1, <1>2, OtherProcesses
<1>7. ClaimInv'
  BY <1>1 DEF DrainInv, ClaimInv
<1>8. \A c \in Commands : CommandInv(c)'
  BY <1>1 DEF DrainInv, CommandInv
<1> QED
  BY <1>4, <1>5, <1>6, <1>7, <1>8 DEF DrainInv

(* Exposure is recorded before the first holder, and not after a denial. *)
LEMMA ExposeStep ==
  ASSUME DrainInv, NEW p \in Processes, ExposeCredentialSource(p)
  PROVE  DrainInv'
<1>1. UNCHANGED <<instance, process, denial, command, credential, runner, remote>>
      /\ Up(p) /\ local[p].op = "ticket"
  BY DEF ExposeCredentialSource
<1>2. ProcessInv(p) /\ local[p] \in LocalRecord /\ DOMAIN local = Processes
  BY DEF DrainInv, TypeOK, LocalRecord
<1>3. CASE local' = [local EXCEPT ![p] = [local[p] EXCEPT !.op = "idle"]] /\ UNCHANGED use
  <2>1. [local[p] EXCEPT !.op = "idle"] \in LocalRecord
    BY <1>2 DEF LocalRecord
  <2>2. ProcessInv(p)'
    BY <1>1, <1>2, <1>3 DEF LocalRecord, ProcessInv, Idle, Up
  <2> QED
    BY <1>1, <1>3, <2>1, <2>2, LocalStep DEF database
<1>4. CASE /\ local' = [local EXCEPT ![p] = [local[p] EXCEPT !.op = "exposed"]]
           /\ use' = [use EXCEPT ![p].exposed = TRUE]
           /\ denial.by = None /\ ~local[p].processClosed
  <2>1. [local[p] EXCEPT !.op = "exposed"] \in LocalRecord
    BY <1>2 DEF LocalRecord
  <2>2. denial.remote = None
    BY <1>4 DEF DrainInv, ClaimInv
  <2>3. TypeOK'
    <3>1. local' \in [Processes -> LocalRecord]
      BY <1>4, <2>1 DEF DrainInv, TypeOK, LocalRecord
    <3>2. use' \in [Processes -> [exposed : BOOLEAN, joined : BOOLEAN]]
      BY <1>4 DEF DrainInv, TypeOK
    <3> QED
      BY <1>1, <3>1, <3>2 DEF DrainInv, TypeOK, LocalRecord
  <2>4. /\ local'[p].users = local[p].users /\ local'[p].op = "exposed"
        /\ local'[p].closed = local[p].closed /\ local'[p].up = local[p].up
        /\ local'[p].processClosed = local[p].processClosed
        /\ local'[p].ack = local[p].ack
    BY <1>2, <1>4 DEF LocalRecord
  <2>5. use'[p].exposed = TRUE /\ use'[p].joined = use[p].joined
    BY <1>4 DEF DrainInv, TypeOK
  <2>6. ProcessInv(p)'
    BY <1>1, <1>2, <1>4, <2>2, <2>4, <2>5 DEF ProcessInv, Idle, Up
  <2>7. \A q \in Processes : q # p => ProcessInv(q)'
    BY <1>1, <1>4, OtherProcesses DEF DrainInv, TypeOK
  <2>8. ClaimInv' /\ \A c \in Commands : CommandInv(c)'
    BY <1>1 DEF DrainInv, ClaimInv, CommandInv
  <2> QED
    BY <2>3, <2>6, <2>7, <2>8 DEF DrainInv
<1> QED
  BY <1>3, <1>4 DEF ExposeCredentialSource, Set, Current

(* The join that is recorded was true when it was begun, and stays true. *)
LEMMA AcknowledgeStep ==
  ASSUME DrainInv, NEW p \in Processes, AcknowledgeDenial(p)
  PROVE  DrainInv'
<1> DEFINE r == [local[p] EXCEPT !.ack = FALSE]
<1>1. /\ UNCHANGED <<instance, process, denial, command, credential, runner, remote>>
      /\ local' = [local EXCEPT ![p] = r] /\ local[p].ack
      /\ use' = use \/ use' = [use EXCEPT ![p].joined = TRUE]
  BY DEF AcknowledgeDenial, Set
<1>2. ProcessInv(p) /\ local[p] \in LocalRecord /\ DOMAIN local = Processes
  BY DEF DrainInv, TypeOK, LocalRecord
<1>3. r \in LocalRecord
  BY <1>2 DEF LocalRecord
<1>4. use'[p].exposed = use[p].exposed /\ (use[p].joined => use'[p].joined)
      /\ \A q \in Processes : q # p => use'[q] = use[q]
  BY <1>1 DEF DrainInv, TypeOK
<1>5. TypeOK'
  <2>1. use' \in [Processes -> [exposed : BOOLEAN, joined : BOOLEAN]]
    <3>1. CASE use' = use
      BY <3>1 DEF DrainInv, TypeOK
    <3>2. CASE use' = [use EXCEPT ![p].joined = TRUE]
      BY <3>2 DEF DrainInv, TypeOK
    <3> QED
      BY <1>1, <3>1, <3>2
  <2> HIDE DEF r
  <2>2. local' \in [Processes -> LocalRecord]
    BY <1>1, <1>3 DEF DrainInv, TypeOK, LocalRecord
  <2> QED
    BY <1>1, <2>1, <2>2 DEF DrainInv, TypeOK, LocalRecord
<1>6. ProcessInv(p)'
  <2>1. /\ local'[p].users = local[p].users /\ local'[p].op = local[p].op
        /\ local'[p].closed = local[p].closed /\ local'[p].prepared = local[p].prepared
        /\ local'[p].processClosed = local[p].processClosed
        /\ local'[p].up = local[p].up
    BY <1>1, <1>2 DEF LocalRecord
  <2>2. local[p].closed /\ local[p].users = 0
    BY <1>1, <1>2 DEF ProcessInv
  <2> QED
    BY <1>1, <1>2, <1>4, <2>1, <2>2 DEF ProcessInv, Idle
<1>7. \A q \in Processes : q # p => ProcessInv(q)'
  BY <1>1, <1>2, <1>4, OtherProcesses
<1>8. ClaimInv' /\ \A c \in Commands : CommandInv(c)'
  BY <1>1 DEF DrainInv, ClaimInv, CommandInv
<1> QED
  BY <1>5, <1>6, <1>7, <1>8 DEF DrainInv

(* The closure that is recorded: nothing of the process is left. *)
LEMMA StopStep ==
  ASSUME DrainInv, NEW p \in Processes, StopSystemInstance(p)
  PROVE  DrainInv'
<1>1. PICK answer \in {"stopped", "up"} :
        local' = [local EXCEPT ![p] = [local[p] EXCEPT !.up = answer, !.ack = FALSE]]
  BY DEF StopSystemInstance, Set
<1> DEFINE r == [local[p] EXCEPT !.up = answer, !.ack = FALSE]
<1>2. /\ UNCHANGED <<use, denial, command, runner, credential, remote>>
      /\ process' = [process EXCEPT ![p] = "closed"]
      /\ instance' = [instance EXCEPT ![p] = "stopped"]
      /\ local[p].processClosed /\ Idle(p) /\ Up(p)
  BY DEF StopSystemInstance, ProcessJoined
<1>3. ProcessInv(p) /\ local[p] \in LocalRecord /\ DOMAIN local = Processes /\ DOMAIN process = Processes
  BY DEF DrainInv, TypeOK, LocalRecord
<1>4. r \in LocalRecord
  BY <1>3 DEF LocalRecord
<1>5. TypeOK'
  <2>1. local' \in [Processes -> LocalRecord]
    <3>1. local' = [local EXCEPT ![p] = r]
      BY <1>1
    <3> HIDE DEF r
    <3> QED
      BY <3>1, <1>4 DEF DrainInv, TypeOK, LocalRecord
  <2>2. process' \in [Processes -> {"none", "open", "closed"}]
        /\ instance' \in [Processes -> {"none", "live", "expired", "retired", "stopped"}]
    BY <1>2 DEF DrainInv, TypeOK
  <2> QED
    BY <1>2, <2>1, <2>2 DEF DrainInv, TypeOK, LocalRecord
<1>6. ProcessInv(p)'
  <2>1. /\ local'[p].users = local[p].users /\ local'[p].op = local[p].op
        /\ local'[p].closed = local[p].closed /\ local'[p].prepared = local[p].prepared
        /\ local'[p].processClosed = local[p].processClosed
        /\ local'[p].up # "new" /\ local'[p].ack = FALSE
    BY <1>1, <1>3 DEF LocalRecord
  <2>2. process'[p] = "closed"
    BY <1>2, <1>3
  <2> QED
    BY <1>2, <1>3, <2>1, <2>2 DEF ProcessInv, Idle, Up
<1>7. \A q \in Processes : q # p => ProcessInv(q)'
  BY <1>1, <1>2, <1>3, OtherProcesses
<1>8. ClaimInv' /\ \A c \in Commands : CommandInv(c)'
  BY <1>2 DEF DrainInv, ClaimInv, CommandInv
<1> QED
  BY <1>5, <1>6, <1>7, <1>8 DEF DrainInv

-----------------------------------------------------------------------------
(* The cleanup commands. *)

(* A command moves on; the remote claim stays as it is. *)
LEMMA CommandMove ==
  ASSUME DrainInv, UNCHANGED <<local, instance, process, use, credential>>,
         denial'.remote = denial.remote, denial.by # None => denial'.by # None,
         TypeOK', \A c \in Commands : CommandInv(c)'
  PROVE  DrainInv'
<1>1. ClaimInv'
  BY DEF DrainInv, ClaimInv
<1>2. \A p \in Processes : ProcessInv(p)'
  BY DEF DrainInv, ProcessInv, Idle
<1> QED
  BY <1>1, <1>2 DEF DrainInv

LEMMA ClaimCommandStep ==
  ASSUME DrainInv, NEW p \in Processes, NEW c \in Commands, ClaimCommand(p, c)
  PROVE  DrainInv'
<1>1. /\ UNCHANGED <<local, instance, process, use, credential, remote>>
      /\ command' = [command EXCEPT ![c] = "pending"]
      /\ runner' = [runner EXCEPT ![c] = [at |-> "join", on |-> p]]
  BY DEF ClaimCommand
<1>2. denial' = denial \/ denial' = [denial EXCEPT !.by = c]
  BY DEF ClaimCommand
<1>3. denial'.remote = denial.remote /\ (denial.by # None => denial'.by # None)
      /\ denial' \in [by : Commands \union {None}, remote : Commands \union {None}]
  BY <1>2, DrainAssumption DEF DrainInv, TypeOK
<1>4. TypeOK'
  BY <1>1, <1>3 DEF DrainInv, TypeOK
<1>5. \A d \in Commands : CommandInv(d)'
  BY <1>1, <1>3 DEF DrainInv, TypeOK, CommandInv
<1> QED
  BY <1>1, <1>3, <1>4, <1>5, CommandMove

LEMMA CommandProgress ==
  ASSUME DrainInv, NEW p \in Processes, NEW c \in Commands,
         JoinCommand(p, c) \/ RecheckCommand(p, c) \/ CommandFails(p, c)
  PROVE  DrainInv'
<1>1. UNCHANGED <<local, database, remote>>
  BY DEF JoinCommand, RecheckCommand, CommandFails
<1>2. PICK x \in {"recheck", "boundary", "failed", "no_effect"} : runner' = [runner EXCEPT ![c].at = x]
  BY DEF JoinCommand, RecheckCommand, CommandFails
<1>3. TypeOK'
  BY <1>1, <1>2 DEF DrainInv, TypeOK, database
<1>4. \A d \in Commands : CommandInv(d)'
  BY <1>1, <1>2 DEF DrainInv, TypeOK, CommandInv, database
<1> QED
  BY <1>1, <1>3, <1>4, CommandMove DEF database

LEMMA FinishStep ==
  ASSUME DrainInv, NEW p \in Processes, NEW c \in Commands, FinishCommand(p, c)
  PROVE  DrainInv'
<1>1. /\ UNCHANGED <<local, instance, process, use, denial, credential, remote>>
      /\ runner' = [runner EXCEPT ![c] = [at |-> "none", on |-> None]]
      /\ runner[c].at \in {"acknowledged", "unknown", "failed", "no_effect"}
  BY DEF FinishCommand
<1>2. \/ UNCHANGED command
      \/ /\ command' = [command EXCEPT ![c] = runner[c].at]
         /\ runner[c].at = "no_effect" => denial.remote = None
  BY DEF FinishCommand
<1>3. TypeOK'
  BY <1>1, <1>2 DEF DrainInv, TypeOK
<1>4. \A d \in Commands : CommandInv(d)'
  BY <1>1, <1>2, DrainAssumption DEF DrainInv, TypeOK, CommandInv
<1> QED
  BY <1>1, <1>3, <1>4, CommandMove

(* The remote claim sees a join or a closure of every registered process. *)
LEMMA RemoteClaimStep ==
  ASSUME DrainInv, NEW p \in Processes, NEW c \in Commands, ClaimPublishedRemote(p, c)
  PROVE  DrainInv'
<1>1. /\ UNCHANGED <<local, instance, process, use, command, credential, remote>>
      /\ denial.remote = None /\ command[c] = "pending"
      /\ denial' = [denial EXCEPT !.remote = c]
      /\ runner' = [runner EXCEPT ![c].at = "remote"]
  BY DEF ClaimPublishedRemote
<1>2. credential = "retired" /\ denial.by # None
  BY DEF ClaimPublishedRemote, Preview
<1>3. \A q \in Processes : process[q] # "none" => use[q].joined \/ process[q] = "closed"
  BY DEF ClaimPublishedRemote, SnapshotValid, Registered
<1>4. denial'.remote = c /\ denial'.by = denial.by
      /\ denial' \in [by : Commands \union {None}, remote : Commands \union {None}]
  BY <1>1 DEF DrainInv, TypeOK
<1>5. TypeOK'
  BY <1>1, <1>4 DEF DrainInv, TypeOK
<1>6. ClaimInv'
  BY <1>1, <1>2, <1>4 DEF ClaimInv
<1>7. ASSUME NEW q \in Processes PROVE ProcessInv(q)'
  <2>1. ProcessInv(q)
    BY DEF DrainInv
  <2> QED
    BY <1>1, <1>3, <2>1 DEF ProcessInv, Idle
<1>8. ASSUME NEW d \in Commands PROVE CommandInv(d)'
  <2>1. CommandInv(d) /\ d # None
    BY DrainAssumption DEF DrainInv
  <2>2. d # c => runner'[d] = runner[d]
    BY <1>1 DEF DrainInv, TypeOK
  <2> QED
    BY <1>1, <1>4, <2>1, <2>2 DEF CommandInv
<1> QED
  BY <1>5, <1>6, <1>7, <1>8 DEF DrainInv

LEMMA RemoteStep ==
  ASSUME DrainInv, NEW p \in Processes, NEW c \in Commands, CleanupRemote(p, c)
  PROVE  DrainInv'
<1>1. /\ UNCHANGED database /\ runner[c].at = "remote"
      /\ remote' \in {remote, remote \union {c}}
  BY DEF CleanupRemote
<1>2. PICK bad \in BOOLEAN, x \in {"acknowledged", "unknown", "failed"} :
        /\ local' = [local EXCEPT ![p] = [local[p] EXCEPT !.processPoisoned = @ \/ bad]]
        /\ runner' = [runner EXCEPT ![c].at = x]
  BY DEF CleanupRemote, Set
<1> DEFINE r == [local[p] EXCEPT !.processPoisoned = @ \/ bad]
<1>3. ProcessInv(p) /\ local[p] \in LocalRecord /\ DOMAIN local = Processes
  BY DEF DrainInv, TypeOK, LocalRecord
<1>4. r \in LocalRecord
  <2>1. local[p].processPoisoned \in BOOLEAN
    BY <1>3 DEF LocalRecord
  <2>2. (local[p].processPoisoned \/ bad) \in BOOLEAN
    BY <2>1, Zenon
  <2>3. PICK b \in BOOLEAN : b = (local[p].processPoisoned \/ bad)
    BY <2>2, Zenon
  <2>4. r = [local[p] EXCEPT !.processPoisoned = b]
    BY <2>3
  <2> HIDE DEF r
  <2> QED
    BY <1>3, <2>4 DEF LocalRecord
<1>5. /\ local'[p].users = local[p].users /\ local'[p].op = local[p].op
      /\ local'[p].closed = local[p].closed /\ local'[p].prepared = local[p].prepared
      /\ local'[p].processClosed = local[p].processClosed
      /\ local'[p].up = local[p].up /\ local'[p].ack = local[p].ack
  BY <1>2, <1>3 DEF LocalRecord
<1>6. TypeOK'
  <2>1. local' \in [Processes -> LocalRecord]
    <3>1. local' = [local EXCEPT ![p] = r]
      BY <1>2
    <3> HIDE DEF r
    <3> QED
      BY <3>1, <1>4 DEF DrainInv, TypeOK, LocalRecord
  <2>2. remote' \subseteq Commands
    BY <1>1 DEF DrainInv, TypeOK
  <2>3. runner' \in [Commands -> [at : {"none", "join", "recheck", "boundary", "remote",
                                    "acknowledged", "unknown", "failed", "no_effect"},
                              on : Processes \union {None}]]
    BY <1>2 DEF DrainInv, TypeOK
  <2> QED
    BY <1>1, <2>1, <2>2, <2>3 DEF DrainInv, TypeOK, LocalRecord, database
<1>7. ProcessInv(p)'
  BY <1>1, <1>3, <1>5 DEF ProcessInv, Idle, database
<1>8. \A q \in Processes : q # p => ProcessInv(q)'
  BY <1>1, <1>2, <1>3, OtherProcesses DEF database
<1>9. ClaimInv'
  BY <1>1 DEF DrainInv, ClaimInv, database
<1>10. \A d \in Commands : CommandInv(d)'
  BY <1>1, <1>2 DEF DrainInv, TypeOK, CommandInv, database
<1> QED
  BY <1>6, <1>7, <1>8, <1>9, <1>10 DEF DrainInv

-----------------------------------------------------------------------------
(* The invariant of the drain holds for every fleet. *)
THEOREM DrainInvariance == Spec => []DrainInv
<1>1. ASSUME DrainInv, [Next]_vars PROVE DrainInv'
  <2>1. CASE UNCHANGED vars
    BY <1>1, <2>1 DEF vars, DrainInv, TypeOK, ClaimInv, ProcessInv, CommandInv, Idle
  <2>2. ASSUME NEW p \in Processes, Process(p) PROVE DrainInv'
    BY <1>1, <2>2, MemorySteps, InstanceSteps, StartStep, CrashStep, ExposeStep,
       AcknowledgeStep, StopStep DEF Process
  <2>3. ASSUME NEW p \in Processes, NEW c \in Commands, Cleanup(p, c) PROVE DrainInv'
    BY <1>1, <2>3, ClaimCommandStep, CommandProgress, FinishStep, RemoteClaimStep, RemoteStep
      DEF Cleanup
  <2>4. CASE Retire
    <3>1. UNCHANGED <<local, instance, process, use, denial, command, runner, remote>>
          /\ credential = "live" /\ credential' = "retired"
      BY <2>4 DEF Retire
    <3>2. TypeOK' /\ ClaimInv'
      BY <1>1, <3>1 DEF DrainInv, TypeOK, ClaimInv
    <3>3. (\A q \in Processes : ProcessInv(q)') /\ \A c \in Commands : CommandInv(c)'
      BY <1>1, <3>1 DEF DrainInv, ProcessInv, CommandInv, Idle
    <3> QED
      BY <3>2, <3>3 DEF DrainInv
  <2> QED
    BY <1>1, <2>1, <2>2, <2>3, <2>4 DEF Next
<1> QED
  BY <1>1, DrainInit, PTL DEF Spec

(* Once the destruction of an object is claimed no process generation has  *)
(* a user of it, for any number of processes, commands and users           *)
(* (claimPublishedRemoteCurrent, exposeCredentialSource).                  *)
THEOREM DrainSafe == Spec => []NoUserOfDestroyed
<1>1. DrainInv => NoUserOfDestroyed
  <2> SUFFICES ASSUME DrainInv, denial.remote # None, NEW p \in Processes
               PROVE  local[p].users = 0
    BY DEF NoUserOfDestroyed
  <2>1. ProcessInv(p)
    BY DEF DrainInv
  <2> QED
    BY <2>1 DEF ProcessInv, Idle
<1> QED
  BY <1>1, DrainInvariance, PTL

(* At most one destructive request is sent, by the command the denial      *)
(* names, and never by one recorded without effect (finishPublishedCleanup,*)
(* claimPublishedRemoteCurrent).                                           *)
THEOREM DestroyedOnce == Spec => []OneDestruction
<1>1. DrainInv => OneDestruction
  <2> SUFFICES ASSUME DrainInv PROVE OneDestruction
    OBVIOUS
  <2>1. remote \subseteq {denial.remote}
    BY DEF DrainInv, TypeOK, CommandInv
  <2>2. Cardinality(remote) <= 1
    <3>1. IsFiniteSet({denial.remote}) /\ Cardinality({denial.remote}) = 1
      BY FS_Singleton
    <3>2. Cardinality(remote) <= Cardinality({denial.remote})
      BY <2>1, <3>1, FS_Subset
    <3> QED
      BY <3>1, <3>2
  <2>3. \A c \in remote : denial.remote = c /\ credential = "retired"
    BY DrainAssumption DEF DrainInv, TypeOK, CommandInv, ClaimInv
  <2>4. \A c \in Commands : KnownNoEffect(c) => c \notin remote /\ denial.remote # c
    BY DEF DrainInv, CommandInv, KnownNoEffect
  <2> QED
    BY <2>2, <2>3, <2>4 DEF OneDestruction
<1> QED
  BY <1>1, DrainInvariance, PTL
=============================================================================
