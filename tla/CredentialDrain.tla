--------------------------- MODULE CredentialDrain ---------------------------
(***************************************************************************)
(* The fleet protocol that ends in the destruction of one published Vault   *)
(* object: internal/routex/service/credential_source_drain.go,              *)
(* credential_source_process_stop.go, system_instance.go,                   *)
(* provider_credential_published_cleanup.go,                                *)
(* credential_published_cleanup_ledger.go and the published half of         *)
(* provider_credential_cleanup.go.                                          *)
(*                                                                         *)
(* Each process has the gate of module SourceGate (closed, users, spoiled)  *)
(* and shares the database with the others.  Every database transaction     *)
(* takes the governance lock, so it is one action; everything between two   *)
(* transactions interleaves.  A process is one generation: it starts once,  *)
(* and crashes or stops for good.                                           *)
(***************************************************************************)
EXTENDS Naturals, FiniteSets

CONSTANTS Processes,   \* process generations, each with an identity of its own
          Commands,    \* cleanup commands an operator may send
          MaxUsers,    \* bound: holders of the object at once in one process
          None

ASSUME DrainAssumption ==
  /\ MaxUsers \in Nat \ {0}
  /\ None \notin Processes \union Commands

VARIABLES
  local,     \* per process: the registry and the instance pointer, in memory
  instance,  \* SystemInstance rows: lease and retirement
  process,   \* CredentialSourceProcess rows: registered, closed
  use,       \* CredentialSourceUse rows of the object
  denial,    \* the CredentialSourceDenial row of the object
  command,   \* CredentialPublishedCleanup rows
  runner,    \* the process and step of each command in flight
  credential, \* the ProviderCredential row that references the object
  remote     \* history: the commands that sent the destructive request

vars == <<local, instance, process, use, denial, command, runner, credential, remote>>

Fresh == [up |-> "new", closed |-> FALSE, users |-> 0, spoiled |-> FALSE,
          processClosed |-> FALSE, processPoisoned |-> FALSE, op |-> "idle", ack |-> FALSE, prepared |-> FALSE]

Init == /\ local = [p \in Processes |-> Fresh]
        /\ instance = [p \in Processes |-> "none"]
        /\ process = [p \in Processes |-> "none"]
        /\ use = [p \in Processes |-> [exposed |-> FALSE, joined |-> FALSE]]
        /\ denial = [by |-> None, remote |-> None]
        /\ command = [c \in Commands |-> "none"]
        /\ runner = [c \in Commands |-> [at |-> "none", on |-> None]]
        /\ credential = "none"
        /\ remote = {}

database == <<instance, process, use, denial, command, credential>>

-----------------------------------------------------------------------------
Up(p) == local[p].up = "up"
Running(p) == local[p].up \in {"up", "stopped"}   \* stopped, but not yet exited

\* currentSourceProcess: an instance is started and admission is open.
Current(p) == Up(p) /\ ~local[p].processClosed

\* sourceProcessCurrent, inside a transaction: the lease is running.
LeaseRuns(p) == process[p] = "open" /\ instance[p] = "live"

Idle(p) == local[p].users = 0 /\ local[p].op = "idle"
Joined(p) == local[p].closed /\ local[p].users = 0 /\ ~local[p].spoiled

Set(p, r) == local' = [local EXCEPT ![p] = r]

\* StartSystemInstance: the instance and its source process in one transaction.
StartSystemInstance(p) ==
  /\ local[p].up = "new"
  /\ Set(p, [local[p] EXCEPT !.up = "up"])
  /\ instance' = [instance EXCEPT ![p] = "live"]
  /\ process' = [process EXCEPT ![p] = "open"]
  /\ UNCHANGED <<use, denial, command, runner, credential, remote>>

\* heartbeatSystemInstance: renews the lease and undoes a retirement.
HeartbeatSystemInstance(p) ==
  /\ Up(p) /\ instance[p] \in {"live", "expired", "retired"}
  /\ instance' = [instance EXCEPT ![p] = "live"]
  /\ UNCHANGED <<local, process, use, denial, command, runner, credential, remote>>

LeaseExpires(p) ==
  /\ instance[p] = "live"
  /\ instance' = [instance EXCEPT ![p] = "expired"]
  /\ UNCHANGED <<local, process, use, denial, command, runner, credential, remote>>

\* CleanupOfflineSystemInstances retires the row of an instance long offline.
CleanupOfflineSystemInstances(p) ==
  /\ instance[p] = "expired"
  /\ instance' = [instance EXCEPT ![p] = "retired"]
  /\ UNCHANGED <<local, process, use, denial, command, runner, credential, remote>>

\* The process dies where it stands, its commands with it.  What its users had
\* in flight stays unknown, so the count is kept.
Crash(p) ==
  /\ Running(p)
  /\ Set(p, [local[p] EXCEPT !.up = "dead", !.ack = FALSE])
  /\ runner' = [c \in Commands |-> IF runner[c].on = p THEN [at |-> "none", on |-> None] ELSE runner[c]]
  /\ UNCHANGED <<instance, process, use, denial, command, credential, remote>>

-----------------------------------------------------------------------------
\* credentialAdmissionOperation: the process ticket.
ProcessAcquire(p) ==
  /\ Current(p) /\ local[p].op = "idle"
  /\ Set(p, [local[p] EXCEPT !.op = "ticket"])
  /\ UNCHANGED <<database, runner, remote>>

\* exposeCredentialSource: the durable use, unless the object is denied; a
\* refusal gives the ticket back.
ExposeCredentialSource(p) ==
  /\ Up(p) /\ local[p].op = "ticket"
  /\ IF Current(p) /\ LeaseRuns(p) /\ denial.by = None /\ ~use[p].joined
       THEN /\ use' = [use EXCEPT ![p].exposed = TRUE]
            /\ Set(p, [local[p] EXCEPT !.op = "exposed"])
       ELSE /\ Set(p, [local[p] EXCEPT !.op = "idle"])
            /\ UNCHANGED use
  /\ UNCHANGED <<instance, process, denial, command, credential, runner, remote>>

\* credentialFiniteOperationTicket: the local holder, after the transaction.
FiniteAcquire(p) ==
  /\ Up(p) /\ local[p].op = "exposed"
  /\ IF ~local[p].processClosed /\ ~local[p].closed /\ local[p].users < MaxUsers
       THEN Set(p, [local[p] EXCEPT !.op = "holding", !.users = @ + 1])
       ELSE Set(p, [local[p] EXCEPT !.op = "idle"])
  /\ UNCHANGED <<database, runner, remote>>

\* The operation is closed; one that resolved the value left it to the gateway.
FiniteClose(p) ==
  /\ Up(p) /\ local[p].op = "holding"
  /\ \E cached \in {FALSE, credential = "live"} :
       Set(p, [local[p] EXCEPT !.op = "idle", !.users = @ - 1, !.prepared = @ \/ cached])
  /\ UNCHANGED <<database, runner, remote>>

\* A gateway request takes a holder from its route plan: no database.
NativeAcquire(p) ==
  /\ Up(p) /\ local[p].prepared /\ local[p].users < MaxUsers
  /\ ~local[p].closed /\ ~local[p].processClosed
  /\ Set(p, [local[p] EXCEPT !.users = @ + 1])
  /\ UNCHANGED <<database, runner, remote>>

Held(p) == local[p].users > (IF local[p].op = "holding" THEN 1 ELSE 0)

NativeRelease(p) ==
  /\ Up(p) /\ Held(p)
  /\ Set(p, [local[p] EXCEPT !.users = @ - 1])
  /\ UNCHANGED <<database, runner, remote>>

\* A response that cannot be closed poisons the object and the process.
Poison(p) ==
  /\ Up(p) /\ local[p].users > 0
  /\ Set(p, [local[p] EXCEPT !.spoiled = TRUE, !.processPoisoned = TRUE])
  /\ UNCHANGED <<database, runner, remote>>

-----------------------------------------------------------------------------
\* BeginCredentialSourceShutdown.
BeginShutdown(p) ==
  /\ Current(p)
  /\ Set(p, [local[p] EXCEPT !.processClosed = TRUE])
  /\ UNCHANGED <<database, runner, remote>>

\* Nothing of the process is left: no holder, no ticket, no cleanup at work.
ProcessJoined(p) == /\ local[p].processClosed /\ Idle(p) /\ ~local[p].processPoisoned
                    /\ \A c \in Commands : runner[c].on = p => denial.remote # c

\* stopCredentialSourceProcess: the closure is recorded only after the join
\* and under a running lease; when the answer to the commit is lost a retry
\* finds it recorded.
StopSystemInstance(p) ==
  /\ Up(p) /\ ProcessJoined(p) /\ (LeaseRuns(p) \/ process[p] = "closed")
  /\ process' = [process EXCEPT ![p] = "closed"]
  /\ instance' = [instance EXCEPT ![p] = "stopped"]
  /\ \E answer \in {"stopped", "up"} : Set(p, [local[p] EXCEPT !.up = answer, !.ack = FALSE])
  /\ UNCHANGED <<use, denial, command, runner, credential, remote>>

\* reconcileCredentialDenials: the heartbeat closes what it sees denied.
CloseOnly(p) ==
  /\ Current(p) /\ denial.by # None /\ ~local[p].closed
  /\ Set(p, [local[p] EXCEPT !.closed = TRUE])
  /\ UNCHANGED <<database, runner, remote>>

\* reconcileCredentialDenial, its checks before the transaction.
BeginAcknowledge(p) ==
  /\ Current(p) /\ denial.by # None /\ Joined(p) /\ ~use[p].joined /\ ~local[p].ack
  /\ Set(p, [local[p] EXCEPT !.ack = TRUE])
  /\ UNCHANGED <<database, runner, remote>>

\* Its transaction: the owning process records its own join.
AcknowledgeDenial(p) ==
  /\ Up(p) /\ local[p].ack
  /\ use' = IF LeaseRuns(p) THEN [use EXCEPT ![p].joined = TRUE] ELSE use
  /\ Set(p, [local[p] EXCEPT !.ack = FALSE])
  /\ UNCHANGED <<instance, process, denial, command, credential, runner, remote>>

-----------------------------------------------------------------------------
\* commitVaultCredential publishes the row under the creator's holder.
Publish(p) ==
  /\ Up(p) /\ local[p].op = "holding" /\ credential = "none"
  /\ credential' = "live"
  /\ UNCHANGED <<local, instance, process, use, denial, command, runner, remote>>

\* The last credential of the object is deleted.
Retire ==
  /\ credential = "live" /\ credential' = "retired"
  /\ UNCHANGED <<local, instance, process, use, denial, command, runner, remote>>

Registered == {p \in Processes : process[p] # "none"}
Attempts == {c \in Commands : command[c] # "none"}
KnownNoEffect(c) == command[c] = "no_effect"

SnapshotValid_Online(joins) ==
  /\ \E p \in Registered : use[p].exposed
  /\ joins => \A p \in Registered : use[p].joined \/ instance[p] # "live"

\* credentialDrainSnapshotValid: some process exposed the object, and with
\* joins demanded every registered generation acknowledged or closed.
SnapshotValid(joins) ==
  /\ \E p \in Registered : use[p].exposed
  /\ joins => \A p \in Registered : use[p].joined \/ process[p] = "closed"

Preview_AnyCredential(claiming) ==
  LET others == {c \in Attempts : ~KnownNoEffect(c)} IN
  /\ IF claiming THEN Cardinality(others) = 1 /\ \A c \in others : command[c] = "pending"
                 ELSE others = {}
  /\ SnapshotValid(claiming \/ Attempts # {})
  /\ IF denial.by = None THEN ~claiming /\ Attempts = {}
                         ELSE denial.remote = None /\ (claiming \/ Attempts # {})

\* publishedCleanupPreview, before (claiming) and after the command's own row.
Preview(claiming) ==
  LET others == {c \in Attempts : ~KnownNoEffect(c)} IN
  /\ credential = "retired"
  /\ IF claiming THEN Cardinality(others) = 1 /\ \A c \in others : command[c] = "pending"
                 ELSE others = {}
  /\ SnapshotValid(claiming \/ Attempts # {})
  /\ IF denial.by = None THEN ~claiming /\ Attempts = {}
                         ELSE denial.remote = None /\ (claiming \/ Attempts # {})

\* CleanupProviderCredentialOrphan, the claim: the command row and, the first
\* time, the denial.
ClaimCommand(p, c) ==
  /\ Up(p) /\ command[c] = "none" /\ \A d \in Commands : runner[d].on # p
  /\ Preview(FALSE)
  /\ command' = [command EXCEPT ![c] = "pending"]
  /\ denial' = IF denial.by = None THEN [denial EXCEPT !.by = c] ELSE denial
  /\ runner' = [runner EXCEPT ![c] = [at |-> "join", on |-> p]]
  /\ UNCHANGED <<local, instance, process, use, credential, remote>>

\* joinPublishedCleanup: the coordinator closes and joins its own registry by
\* CloseOnly and AcknowledgeDenial, then polls the snapshot.
JoinCommand(p, c) ==
  /\ Running(p) /\ runner[c] = [at |-> "join", on |-> p]
  /\ Joined(p) /\ SnapshotValid(TRUE)
  /\ runner' = [runner EXCEPT ![c].at = "recheck"]
  /\ UNCHANGED <<local, database, remote>>

\* The recheck transaction; its success enters the remote boundary.
RecheckCommand(p, c) ==
  /\ Running(p) /\ runner[c] = [at |-> "recheck", on |-> p]
  /\ Preview(TRUE) /\ Joined(p)
  /\ runner' = [runner EXCEPT ![c].at = "boundary"]
  /\ UNCHANGED <<local, database, remote>>

\* publishedCleanupOperation and claimPublishedRemoteCurrent.
ClaimPublishedRemote(p, c) ==
  /\ Current(p) /\ runner[c] = [at |-> "boundary", on |-> p]
  /\ denial.remote = None /\ SnapshotValid(TRUE) /\ Joined(p) /\ Preview(TRUE)
  /\ LeaseRuns(p) /\ command[c] = "pending"
  /\ denial' = [denial EXCEPT !.remote = c]
  /\ runner' = [runner EXCEPT ![c].at = "remote"]
  /\ UNCHANGED <<local, instance, process, use, command, credential, remote>>

\* The finite cleanup: the request is sent, with any outcome, or not at all; a
\* response it cannot close poisons the process.
CleanupRemote(p, c) ==
  /\ Running(p) /\ runner[c] = [at |-> "remote", on |-> p]
  /\ \E sent, bad \in BOOLEAN, outcome \in {"acknowledged", "unknown", "failed"} :
       /\ ~sent => outcome = "failed"
       /\ Set(p, [local[p] EXCEPT !.processPoisoned = @ \/ bad])
       /\ remote' = IF sent THEN remote \union {c} ELSE remote
       /\ runner' = [runner EXCEPT ![c].at = outcome]
  /\ UNCHANGED database

\* Any of the steps before the remote claim fails: a timeout of the join, a
\* changed dependency, a database error.
CommandFails(p, c) ==
  /\ Running(p) /\ runner[c].on = p /\ runner[c].at \in {"join", "recheck", "boundary"}
  /\ runner' = [runner EXCEPT ![c].at = IF runner[c].at = "boundary" THEN "failed" ELSE "no_effect"]
  /\ UNCHANGED <<local, database, remote>>

\* finishPublishedCleanup; a failed save leaves the command pending for good.
FinishCommand(p, c) ==
  /\ Running(p) /\ runner[c].on = p
  /\ runner[c].at \in {"acknowledged", "unknown", "failed", "no_effect"}
  /\ \/ /\ command[c] = "pending"
        /\ runner[c].at = "no_effect" => denial.remote = None
        /\ command' = [command EXCEPT ![c] = runner[c].at]
     \/ UNCHANGED command
  /\ runner' = [runner EXCEPT ![c] = [at |-> "none", on |-> None]]
  /\ UNCHANGED <<local, instance, process, use, denial, credential, remote>>

-----------------------------------------------------------------------------
Process(p) ==
  \/ StartSystemInstance(p) \/ HeartbeatSystemInstance(p) \/ LeaseExpires(p)
  \/ CleanupOfflineSystemInstances(p) \/ Crash(p)
  \/ ProcessAcquire(p) \/ ExposeCredentialSource(p) \/ FiniteAcquire(p) \/ FiniteClose(p)
  \/ NativeAcquire(p) \/ NativeRelease(p) \/ Poison(p)
  \/ BeginShutdown(p) \/ StopSystemInstance(p)
  \/ Publish(p) \/ CloseOnly(p) \/ BeginAcknowledge(p) \/ AcknowledgeDenial(p)

Cleanup(p, c) ==
  \/ ClaimCommand(p, c) \/ JoinCommand(p, c) \/ RecheckCommand(p, c)
  \/ ClaimPublishedRemote(p, c) \/ CleanupRemote(p, c)
  \/ CommandFails(p, c) \/ FinishCommand(p, c)

Next == \/ \E p \in Processes : Process(p) \/ \E c \in Commands : Cleanup(p, c)
        \/ Retire

Spec == Init /\ [][Next]_vars

-----------------------------------------------------------------------------
TypeOK ==
  /\ local \in [Processes -> [up : {"new", "up", "dead", "stopped"}, closed : BOOLEAN,
                              users : 0..MaxUsers, spoiled : BOOLEAN, processClosed : BOOLEAN,
                              processPoisoned : BOOLEAN,
                              op : {"idle", "ticket", "exposed", "holding"},
                              ack : BOOLEAN, prepared : BOOLEAN]]
  /\ instance \in [Processes -> {"none", "live", "expired", "retired", "stopped"}]
  /\ process \in [Processes -> {"none", "open", "closed"}]
  /\ use \in [Processes -> [exposed : BOOLEAN, joined : BOOLEAN]]
  /\ denial \in [by : Commands \union {None}, remote : Commands \union {None}]
  /\ command \in [Commands -> {"none", "pending", "acknowledged", "unknown", "failed", "no_effect"}]
  /\ runner \in [Commands -> [at : {"none", "join", "recheck", "boundary", "remote",
                                    "acknowledged", "unknown", "failed", "no_effect"},
                              on : Processes \union {None}]]
  /\ credential \in {"none", "live", "retired"}
  /\ remote \subseteq Commands

(* Once the destruction of the object is claimed, no process generation that *)
(* ever existed has a holder of it: not one that never heard of the denial,  *)
(* not one that started later, not one that crashed with requests in flight. *)
NoUserOfDestroyed == denial.remote # None => \A p \in Processes : local[p].users = 0

(* At most one destructive request is ever sent for an object, however many  *)
(* commands are tried and wherever their processes die: only the command the *)
(* denial names sends it, after the last credential was retired, and one     *)
(* recorded as known to have had no effect never did.                        *)
OneDestruction ==
  /\ Cardinality(remote) <= 1
  /\ \A c \in remote : denial.remote = c /\ credential = "retired"
  /\ \A c \in Commands : KnownNoEffect(c) => c \notin remote /\ denial.remote # c
=============================================================================
