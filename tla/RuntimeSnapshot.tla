--------------------------- MODULE RuntimeSnapshot ---------------------------
(***************************************************************************)
(* The gateway's published authorization (service/runtime.go) and the      *)
(* protocol by which every control-plane write reaches it.                 *)
(*                                                                         *)
(* Each server serves requests from an immutable snapshot of the database  *)
(* that is valid for a short lease.  A write commits in the database, puts *)
(* a tombstone (the barrier) in the memory of its own server if it takes   *)
(* something away, and then refreshes the snapshot.  A refresh reads the   *)
(* epoch, reads the database, stores the snapshot and clears the           *)
(* tombstones of that epoch and older ones.  The servers share only the    *)
(* database, so the module is one of them: of a write that another server  *)
(* runs it sees the commit, and it learns of it by its ticker or not at    *)
(* all.                                                                    *)
(*                                                                         *)
(* A subject is anything the snapshot may permit and a tombstone may deny: *)
(* a Key, a user, a model, a credential, a connection, a session, a Team.  *)
(* The maps of tombstones are independent, so one request asks for one     *)
(* subject.  RuntimeOperations lists the writes.                           *)
(***************************************************************************)
EXTENDS RuntimeOperations, Naturals, FiniteSets

CONSTANTS Handlers,      \* control-plane requests; each runs one operation
          Operations,    \* the operations each handler may run
          Subjects,
          Lease          \* ticks a snapshot stays valid (runtimeAuthorizationLease)

ASSUME RuntimeAssumption ==
    /\ Operations \in [Handlers -> SUBSET AllOperations]
    /\ Lease \in Nat \ {0}

VARIABLES db,        \* what the database permits
          runtime,   \* snapshot, epoch, tombstones
          refresh,   \* the refresh that holds refreshMu
          handler,   \* per handler: the rest of its operation and how far it is
          req,       \* a request at the dispatch boundary
          command,   \* the row of one runtime publication request
          ghost      \* what the properties compare with

vars == <<db, runtime, refresh, handler, req, command, ghost>>

NoSnapshot == [facts |-> [s \in Subjects |-> "denied"], left |-> 0]
NoRefresh  == [pc |-> "idle"]
NoHandler  == [pc |-> "idle"]
NoRequest  == [pc |-> "idle"]
Ticker     == "ticker"
Terminal   == {"idle", "answered"}

(* StartRuntime: nothing is published before the first refresh.            *)
FreshRuntime ==
    [auth |-> NoSnapshot, epoch |-> 0, denied |-> [s \in Subjects |-> 0]]

(* runtime.publication as a reader-writer lock: a pinned handler is the    *)
(* writer, a refresh and a request at the dispatch boundary are readers.   *)
Uncovered == {"committed", "drawn"}    \* committed, and no barrier yet
ExclusivelyPinned ==
    \E h \in Handlers : handler[h].pc \in Uncovered /\ handler[h].op.pin # "none"
SharedPinned == refresh.pc # "idle" \/ req.pc = "loaded"

runtimeDenied(s) == runtime.denied[s] # 0

(* What the server would answer a request that looked now.                 *)
Permits(s) ==
    runtime.auth.left > 0 /\ runtime.auth.facts[s] = "permitted" /\ ~runtimeDenied(s)

TypeOK ==
    /\ db \in [Subjects -> Either]
    /\ runtime.auth.left \in 0 .. Lease
    /\ runtime.epoch \in 0 .. Cardinality(Handlers)
    /\ \A s \in Subjects : runtime.denied[s] <= runtime.epoch
    /\ command.outcome \in {"none", "claimed", "refresh_returned_nil", "refresh_returned_error"}

Init ==
    /\ db = [s \in Subjects |-> "permitted"]
    /\ runtime = FreshRuntime
    /\ refresh = NoRefresh
    /\ handler = [h \in Handlers |-> NoHandler]
    /\ req = NoRequest
    /\ command = [outcome |-> "none", dispatches |-> 0, published |-> FALSE]
    /\ ghost = [fenced   |-> {},   \* barrier installed, not restored or lapsed since
                gated    |-> {},   \* the same, installed under the gate: does not lapse
                acked    |-> {},   \* reported published, not restored since
                age      |-> [s \in Subjects |-> 0]]   \* ticks since the database permitted it


-----------------------------------------------------------------------------
(* Control-plane handlers.                                                 *)

(* What is answered is of no consequence here, only what it rests on.      *)
Reply(h) == handler' = [handler EXCEPT ![h] = [pc |-> "answered"]]

(* The exclusive publication gate.  The Try form answers 503 when the gate *)
(* is taken, or held shared by a refresh or a dispatch.                    *)
GateFree(op) == op.pin = "none" \/ ~(ExclusivelyPinned \/ SharedPinned)

Refuse(h, op) ==
    /\ handler[h].pc = "idle"
    /\ op.pin = "try" /\ ~GateFree(op)
    /\ Reply(h)
    /\ UNCHANGED <<db, runtime, refresh, req, command, ghost>>

(* Ghost: the database permits the subject again, so older revocations no  *)
(* longer bind.                                                            *)
Restored(writes, s, to) ==
    IF writes /\ to = "permitted"
    THEN [ghost EXCEPT !.fenced = @ \ {s}, !.gated = @ \ {s}, !.acked = @ \ {s},
                          !.age[s] = 0] ELSE ghost
Binding(writes, s, to) ==
    [g \in Handlers |->
       IF writes /\ to = "permitted" /\ handler[g].pc \notin Terminal /\ handler[g].subject = s
       THEN [handler[g] EXCEPT !.stands = FALSE] ELSE handler[g]]

(* The barrier, installed before the gate is released.                     *)
NeedsBarrier(op, to, changed) ==
    CASE op.barrier = "none"    -> FALSE
      [] op.barrier = "denied"  -> to = "denied"
      [] op.barrier = "reduced" -> to = "denied" /\ changed
      [] op.barrier = "changed" -> changed
      [] op.barrier = "always"  -> TRUE

(* What is left of an operation to do after its commit.                    *)
Left(op) == [op EXCEPT !.effects = {}, !.careful = FALSE, !.barrier = "none",
                       !.pin = IF @ = "none" THEN "none" ELSE "lock",
                       !.refresh = IF @ = "ignored" THEN "ignored" ELSE "must"]

(* A handler takes the gate, if it takes it, and commits a transaction     *)
(* that leaves its subject permitted or denied; in between, nothing of it  *)
(* is seen.  The outcome of the commit is known, or unknown to the handler *)
(* whether or not it took place; then only a careful writer goes on to its *)
(* barrier.  The handler keeps of the operation what is still to be done.  *)
Commit(h, op, s, to, committed, known) ==
    LET writes == committed /\ to # "same"
        own == [pc |-> "committed", op |-> Left(op), subject |-> s,
                to |-> IF op.confirm = "none" THEN "same" ELSE to,
                stands |-> writes /\ to = "denied",
                barrier |-> NeedsBarrier(op, to, writes /\ db[s] # to),
                failed |-> ~known, drawn |-> 0]
    IN /\ handler[h].pc = "idle" /\ to \in op.effects
       /\ GateFree(op) /\ (known => committed)
       /\ op.command => command.outcome = "none"
       /\ db' = IF writes THEN [db EXCEPT ![s] = to] ELSE db
       /\ command' = IF committed /\ op.command
                      THEN [command EXCEPT !.outcome = "claimed"] ELSE command
       /\ ghost' = Restored(writes, s, to)
       /\ handler' = [Binding(writes, s, to) EXCEPT ![h] =
                         IF known \/ op.careful THEN own ELSE [pc |-> "answered"]]
       /\ UNCHANGED <<runtime, refresh, req>>

(* The same, in another server.                                            *)
CommitElsewhere(s, to) ==
    /\ db' = [db EXCEPT ![s] = to]
    /\ ghost' = Restored(TRUE, s, to)
    /\ handler' = Binding(TRUE, s, to)
    /\ UNCHANGED <<runtime, refresh, req, command>>

(* PublishRuntimeCommand with a request that was claimed before: the       *)
(* retained row is reported, never resumed.                                *)
Receipt(h, op) ==
    /\ handler[h].pc = "idle" /\ op.command /\ command.outcome # "none"
    /\ Reply(h)
    /\ UNCHANGED <<db, runtime, refresh, req, command, ghost>>

(* A handler whose commit is unknown has nothing more to do.               *)
Proceed(h) ==
    IF handler[h].failed THEN Reply(h)
    ELSE handler' = [handler EXCEPT
           ![h].pc = IF handler[h].op.command THEN "dispatch" ELSE "refresh",
           ![h].op = [@ EXCEPT !.pin = "none"], ![h].barrier = FALSE, ![h].drawn = 0]

NoBarrier(h) ==
    /\ handler[h].pc = "committed" /\ ~handler[h].barrier
    /\ Proceed(h)
    /\ UNCHANGED <<db, runtime, refresh, req, command, ghost>>

(* The tombstone's epoch is drawn, and then stored: two steps, which no    *)
(* lock holds together unless the handler has the gate.                    *)
DrawEpoch(h) ==
    /\ handler[h].pc = "committed" /\ handler[h].barrier
    /\ runtime' = [runtime EXCEPT !.epoch = @ + 1]
    /\ handler' = [handler EXCEPT ![h].pc = "drawn", ![h].drawn = runtime.epoch + 1]
    /\ UNCHANGED <<db, refresh, req, command, ghost>>

(* Ghost: the tombstone of an older epoch replaces a younger one that was  *)
(* stored without the gate, and a refresh that began between the two has   *)
(* read the database too early: it clears what is left.                    *)
Lapses(s, drawn) ==
    /\ s \notin ghost.gated
    /\ refresh.pc \in {"read", "stored"} /\ refresh.data[s] = "permitted"
    /\ refresh.generation \in drawn .. runtime.denied[s] - 1

Fence(h) ==
    /\ handler[h].pc = "drawn"
    /\ LET s == handler[h].subject
           mine == IF handler[h].stands THEN {s} ELSE {}
           lapsed == IF Lapses(s, handler[h].drawn) THEN {s} ELSE {}
       IN /\ runtime' = [runtime EXCEPT !.denied[s] = handler[h].drawn]
          /\ ghost' = [ghost EXCEPT !.fenced = (@ \ lapsed) \union mine,
                          !.gated = IF handler[h].op.pin # "none" THEN @ \union mine ELSE @]
          /\ req' = IF req.pc = "loaded" /\ req.subject \in lapsed
                    THEN [req EXCEPT !.fenced = FALSE] ELSE req
    /\ Proceed(h)
    /\ UNCHANGED <<db, refresh, command>>

(* dispatchRuntimePublication: actor, session and process are checked      *)
(* again after the claim; a claim without authority stays claimed.         *)
Dispatch(h) ==
    /\ handler[h].pc = "dispatch"
    /\ \/ Reply(h) /\ UNCHANGED command
       \/ /\ handler' = [handler EXCEPT ![h].pc = "refresh"]
          /\ command' = [command EXCEPT !.dispatches = @ + 1]
    /\ UNCHANGED <<db, runtime, refresh, req, ghost>>

-----------------------------------------------------------------------------
(* refreshRuntime, by the ticker or by a handler.                          *)

Refreshed(by, result) ==
    handler' = IF by = Ticker THEN handler ELSE [handler EXCEPT ![by].pc = result]

(* refreshMu, the shared gate, and the epoch before the database is read.  *)
RefreshBegin(by) ==
    /\ refresh.pc = "idle" /\ ~ExclusivelyPinned
    /\ by # Ticker => handler[by].pc = "refresh"
    /\ refresh' = [pc |-> "reading", by |-> by, generation |-> runtime.epoch, left |-> Lease]
    /\ Refreshed(by, "refreshing")
    /\ UNCHANGED <<db, runtime, req, command, ghost>>

(* A handler whose context ends, whose server stops, or whose TryLock      *)
(* fails, before its refresh begins.                                       *)
RefreshUnavailable(h) ==
    /\ handler[h].pc = "refresh"
    /\ handler' = [handler EXCEPT ![h].pc = "unpublished"]
    /\ UNCHANGED <<db, runtime, refresh, req, command, ghost>>

(* loadRuntimeData: one repeatable-read snapshot.                          *)
RefreshRead ==
    /\ refresh.pc = "reading"
    /\ refresh' = [pc |-> "read", by |-> refresh.by, generation |-> refresh.generation,
                   left |-> refresh.left, data |-> db]
    /\ UNCHANGED <<db, runtime, handler, req, command, ghost>>

(* The database fails, the context ends or the server stops.               *)
RefreshFail ==
    /\ refresh.pc \in {"reading", "read"}
    /\ Refreshed(refresh.by, "unpublished")
    /\ refresh' = NoRefresh
    /\ UNCHANGED <<db, runtime, req, command, ghost>>

(* The snapshot's lease counts from the start of the refresh.              *)
LeaseLeft_FromStore == Lease
LeaseLeft == refresh.left
buildRuntimeAuthorization == [facts |-> refresh.data, left |-> LeaseLeft]

RefreshStore ==
    /\ refresh.pc = "read"
    /\ runtime' = [runtime EXCEPT !.auth = buildRuntimeAuthorization]
    /\ refresh' = [refresh EXCEPT !.pc = "stored"]
    /\ req' = IF req.pc = "loaded" THEN [req EXCEPT !.overtaken = TRUE] ELSE req
    /\ UNCHANGED <<db, handler, command, ghost>>

(* Routes that cannot be built keep the last valid ones and fail the       *)
(* refresh after the authorization took effect.                            *)
buildRuntimeRoutes ==
    \/ /\ Refreshed(refresh.by, "published")
       /\ command' = IF refresh.by # Ticker /\ handler[refresh.by].op.command
                      THEN [command EXCEPT !.published = TRUE] ELSE command
    \/ Refreshed(refresh.by, "unpublished") /\ UNCHANGED command

clearRuntimeTombstones_All(generation) == [s \in Subjects |-> 0]
clearRuntimeTombstones(generation) ==
    [s \in Subjects |-> IF runtime.denied[s] <= generation THEN 0 ELSE runtime.denied[s]]

RefreshClear ==
    /\ refresh.pc = "stored"
    /\ runtime' = [runtime EXCEPT !.denied = clearRuntimeTombstones(refresh.generation)]
    /\ buildRuntimeRoutes
    /\ refresh' = NoRefresh
    /\ UNCHANGED <<db, req, ghost>>

-----------------------------------------------------------------------------
(* The answer of a handler.                                                *)

(* runtimeDigest: what is published is what the database holds.            *)
SameDigest(s) == runtime.auth.left > 0 /\ runtime.auth.facts[s] = db[s]

Confirms(h) ==
    LET s == handler[h].subject
    IN CASE handler[h].op.confirm = "none"      -> TRUE
         [] handler[h].op.confirm = "current"   -> handler[h].to \in {db[s], "same"}
         [] handler[h].op.confirm = "published" ->
              handler[h].to \in {db[s], "same"} /\ SameDigest(s)

Answer(h) ==
    /\ handler[h].pc \in {"published", "unpublished"} /\ ~handler[h].op.command
    /\ LET published == handler[h].pc = "published"
       IN IF (published /\ Confirms(h)) \/ handler[h].op.refresh = "ignored"
          THEN /\ Reply(h)
               /\ ghost' = IF published /\ handler[h].stands
                           THEN [ghost EXCEPT !.acked = @ \cup {handler[h].subject}]
                           ELSE ghost
          ELSE Reply(h) /\ UNCHANGED ghost
    /\ UNCHANGED <<db, runtime, refresh, req, command>>

(* The outcome of a dispatched publication is written to the claimed row.  *)
Outcome_Reached(h) == "refresh_returned_nil"
Outcome(h) == IF handler[h].pc = "published"
              THEN "refresh_returned_nil" ELSE "refresh_returned_error"

Finalize(h) ==
    /\ handler[h].pc \in {"published", "unpublished"} /\ handler[h].op.command
    /\ \/ Reply(h) /\ UNCHANGED command
       \/ /\ command.outcome = "claimed"
          /\ command' = [command EXCEPT !.outcome = Outcome(h)]
          /\ Reply(h)
    /\ UNCHANGED <<db, runtime, refresh, req, ghost>>

-----------------------------------------------------------------------------
(* A request at the dispatch boundary: under the shared gate it loads the  *)
(* published snapshot, which permits what it asks for, and then looks for  *)
(* tombstones.                                                             *)
Load(s) ==
    /\ req.pc # "loaded" /\ ~ExclusivelyPinned
    /\ runtime.auth.left > 0 /\ runtime.auth.facts[s] = "permitted"
    /\ req' = [pc |-> "loaded", subject |-> s, fenced |-> s \in ghost.fenced,
               acked |-> s \in ghost.acked, age |-> ghost.age[s], overtaken |-> FALSE]
    /\ UNCHANGED <<db, runtime, refresh, handler, command, ghost>>

Admits == req.pc = "loaded" /\ ~runtimeDenied(req.subject)

Check ==
    /\ req.pc = "loaded"
    /\ req' = NoRequest
    /\ UNCHANGED <<db, runtime, refresh, handler, command, ghost>>

(* A crash, or StopRuntime and the end of the process, and a new process   *)
(* in its place.  A stopped runtime refreshes no more and expires, as one  *)
(* whose refreshes fail.                                                   *)
Restart ==
    /\ runtime' = FreshRuntime
    /\ refresh' = NoRefresh
    /\ req' = NoRequest
    /\ handler' = [h \in Handlers |->
         IF handler[h].pc \notin Terminal THEN [pc |-> "answered"] ELSE handler[h]]
    /\ UNCHANGED <<db, command, ghost>>

Pred(n) == IF n = 0 THEN 0 ELSE n - 1

(* Time.                                                                   *)
Tick_Renews ==
    /\ ghost' = [ghost EXCEPT !.age = [s \in Subjects |->
                    IF db[s] = "permitted" \/ @[s] = Lease THEN @[s] ELSE @[s] + 1]]
    /\ UNCHANGED <<db, runtime, refresh, handler, req, command>>
Tick ==
    /\ runtime' = [runtime EXCEPT !.auth.left = Pred(@)]
    /\ refresh' = IF refresh.pc = "idle" THEN refresh ELSE [refresh EXCEPT !.left = Pred(@)]
    /\ ghost' = [ghost EXCEPT !.age = [s \in Subjects |->
                    IF db[s] = "permitted" \/ @[s] = Lease THEN @[s] ELSE @[s] + 1]]
    /\ UNCHANGED <<db, handler, req, command>>

Next ==
    \/ \E h \in Handlers :
         \/ \E op \in Operations[h] :
              \/ Refuse(h, op) \/ Receipt(h, op)
              \/ \E s \in Subjects, to \in Either \union Silent, committed, known \in BOOLEAN :
                   Commit(h, op, s, to, committed, known)
         \/ NoBarrier(h) \/ DrawEpoch(h) \/ Fence(h) \/ Dispatch(h)
         \/ RefreshUnavailable(h) \/ Answer(h) \/ Finalize(h)
    \/ \E by \in Handlers \union {Ticker} : RefreshBegin(by)
    \/ RefreshRead \/ RefreshFail \/ RefreshStore \/ RefreshClear
    \/ \E s \in Subjects : Load(s) \/ \E to \in Either : CommitElsewhere(s, to)
    \/ Check \/ Restart
    \/ Tick

(* Only the clock is certain to go on.                                     *)
Spec == Init /\ [][Next]_vars /\ WF_vars(Tick)

-----------------------------------------------------------------------------
(* A revocation reported as published binds every later request of that    *)
(* server until the subject is permitted again, whatever refreshes were    *)
(* under way; and from the barrier on, a request is refused as long as the *)
(* snapshot it judges by is the published one.  The second half has one    *)
(* exception, which Lapses names: a barrier installed without the gate may *)
(* be replaced by the older one of another writer of the same subject and  *)
(* cleared by a refresh that began in between.  A barrier installed under  *)
(* the gate holds whatever replaces it.                                    *)
RevocationHonoured ==
    Admits => ~req.acked /\ (req.fenced => req.overtaken)

(* No server, however cut off from the others, admits a request on facts   *)
(* older than the lease.                                                   *)
StalenessBounded ==
    Admits => req.age < Lease

(* A publication request is dispatched at most once, over crashes, lost    *)
(* commits and repeated requests, and a row that reports success stands    *)
(* for a refresh that this request ran to its end.                         *)
CommandOutcomeTrue ==
    /\ command.dispatches <= 1
    /\ command.outcome = "refresh_returned_nil" => command.published

(* A revocation takes effect on this server wherever it was committed and  *)
(* although no refresh may ever succeed again.                             *)
RevocationTakesEffect ==
    \A s \in Subjects :
        db[s] = "denied" ~> (db[s] = "permitted" \/ ~Permits(s))
=============================================================================
