-------------------------- MODULE CredentialHolders --------------------------
(***************************************************************************)
(* The credential source registry of one process, at the granularity of its *)
(* locks: internal/routex/service/credential_source_holders.go,             *)
(* credential_source_process.go and credential_source_finite.go.            *)
(*                                                                         *)
(* A user is a gateway request (kind "native": a holder taken by the route  *)
(* plan, handed to the response body) or a finite SDK operation (kind       *)
(* "finite": a process ticket, then a holder, or the exclusive cleanup that *)
(* has a ticket only).  Releasing a holder is two critical sections: the    *)
(* holder's own mutex, then the registry's.                                 *)
(***************************************************************************)
EXTENDS Naturals, FiniteSets

CONSTANTS Objects,    \* physical objects
          Users,      \* concurrent requests and finite operations
          Closers,    \* concurrent callers of closeAndWait
          Capacity    \* entries the registry may hold (5000 in the code)

ASSUME CapacityAssumption == Capacity \in Nat \ {0}

\* There is an object to ask for, and a process has finitely many users at a time.
ASSUME HolderAssumption == Objects # {} /\ IsFiniteSet(Users)

VARIABLES states,     \* the registry's table: an entry per known object
          user,       \* where each user is, and on which object
          closer,     \* where each caller of closeAndWait is
          process,    \* processClosed, processPoisoned, processHolders, drain closes
          spoiled     \* history: objects with a response not proved closed

vars == <<states, user, closer, process, spoiled>>

NoEntry == [known |-> FALSE, closed |-> FALSE, poisoned |-> FALSE, holders |-> 0, drained |-> 0]
Known == {o \in Objects : states[o].known}

Holding == {"held", "using", "spoiled"}        \* an unreleased holder
Counted == Holding \union {"released"}          \* the registry still counts it
Ticketed == {"ticket", "exclusive", "dropped"}  \* a finite operation without a holder
Places == {"free"} \union Counted \union Ticketed

OnObject(o, places) == {u \in Users : user[u].obj = o /\ user[u].at \in places}
Idle == [at |-> "free", kind |-> "native", obj |-> CHOOSE o \in Objects : TRUE]

Init == /\ states = [o \in Objects |-> NoEntry]
        /\ user = [u \in Users |-> Idle]
        /\ closer = [c \in Closers |-> [at |-> "idle", obj |-> CHOOSE o \in Objects : TRUE]]
        /\ process = [closed |-> FALSE, poisoned |-> FALSE, holders |-> 0, drained |-> 0]
        /\ spoiled = {}

-----------------------------------------------------------------------------
\* stateLocked: a known entry, or room for a new one.
HasRoom(o) == states[o].known \/ Cardinality(Known) < Capacity
Entry(o) == IF states[o].known THEN states[o] ELSE [NoEntry EXCEPT !.known = TRUE]

\* processDrainedLocked after the number of holders became n.
ProcessAfter(p, n) ==
  [p EXCEPT !.holders = n,
            !.drained = IF p.closed /\ n = 0 /\ p.drained = 0 THEN 1 ELSE @]

Moved(u, place) == [user EXCEPT ![u].at = place]
Freed(u) == [user EXCEPT ![u] = Idle]

Acquire_Denied(u, o) ==
  /\ user[u].at = "free"
  /\ ~process.closed /\ HasRoom(o)
  /\ states' = [states EXCEPT ![o] = [Entry(o) EXCEPT !.holders = @ + 1]]
  /\ process' = [process EXCEPT !.holders = @ + 1]
  /\ user' = [user EXCEPT ![u] = [at |-> "held", kind |-> "native", obj |-> o]]
  /\ UNCHANGED <<closer, spoiled>>

\* acquire, called by a route plan for a gateway request.
Acquire(u, o) ==
  /\ user[u].at = "free"
  /\ ~process.closed /\ HasRoom(o) /\ ~states[o].closed
  /\ states' = [states EXCEPT ![o] = [Entry(o) EXCEPT !.holders = @ + 1]]
  /\ process' = [process EXCEPT !.holders = @ + 1]
  /\ user' = [user EXCEPT ![u] = [at |-> "held", kind |-> "native", obj |-> o]]
  /\ UNCHANGED <<closer, spoiled>>

\* processAcquire: the ticket every finite operation takes first.
ProcessAcquire(u, o) ==
  /\ user[u].at = "free"
  /\ ~process.closed
  /\ process' = [process EXCEPT !.holders = @ + 1]
  /\ user' = [user EXCEPT ![u] = [at |-> "ticket", kind |-> "finite", obj |-> o]]
  /\ UNCHANGED <<states, closer, spoiled>>

\* credentialFiniteOperationTicket: the holder, or the ticket is given back.
FiniteAcquire(u) ==
  LET o == user[u].obj IN
  /\ user[u].at = "ticket"
  /\ IF ~process.closed /\ HasRoom(o) /\ ~states[o].closed
       THEN /\ states' = [states EXCEPT ![o] = [Entry(o) EXCEPT !.holders = @ + 1]]
            /\ process' = [process EXCEPT !.holders = @ + 1]
            /\ user' = Moved(u, "held")
       ELSE /\ user' = Moved(u, "dropped")
            /\ UNCHANGED <<states, process>>
  /\ UNCHANGED <<closer, spoiled>>

Joined(o) == states[o].closed /\ states[o].holders = 0 /\ ~states[o].poisoned

\* publishedCleanupOperation: the one operation allowed on a drained object.
FiniteExclusive(u) ==
  /\ user[u].at = "ticket" /\ Joined(user[u].obj)
  /\ user' = Moved(u, "exclusive")
  /\ UNCHANGED <<states, closer, process, spoiled>>

\* admitUse: refused once the source or the process is closed; a refused user
\* gives its holder up.
AdmitUse(u) ==
  /\ user[u].at = "held"
  /\ user' = Moved(u, IF ~states[user[u].obj].closed /\ ~process.closed THEN "using" ELSE "released")
  /\ UNCHANGED <<states, closer, process, spoiled>>

\* observe: every response of a finite operation was closed, it may go on.
Observe(u) ==
  /\ user[u].at = "using" /\ user[u].kind = "finite"
  /\ user' = Moved(u, "held")
  /\ UNCHANGED <<states, closer, process, spoiled>>

\* observe and credentialHeldBody.Close: a response could not be closed, so the
\* object (and the process) is poisoned before the holder is released.
Poison(u) ==
  LET o == user[u].obj IN
  /\ user[u].at = "using" \/ (user[u].at = "held" /\ user[u].kind = "finite")
  /\ states' = [states EXCEPT ![o].poisoned = TRUE]
  /\ process' = [process EXCEPT !.poisoned = TRUE]
  /\ user' = Moved(u, "spoiled")
  /\ spoiled' = spoiled \union {o}
  /\ UNCHANGED closer

\* An exclusive cleanup poisons the process only: it has no holder.
PoisonTicket(u) ==
  /\ user[u].at = "exclusive"
  /\ process' = [process EXCEPT !.poisoned = TRUE]
  /\ user' = Moved(u, "dropped")
  /\ UNCHANGED <<states, closer, spoiled>>

\* release, first half: h.released is set under the holder's own mutex.
\* A body in use ends by its Close, an operation in use by its observation.
MarkReleased(u) ==
  /\ \/ user[u].at \in {"held", "spoiled"}
     \/ user[u].at = "using" /\ user[u].kind = "native"
  /\ user' = Moved(u, "released")
  /\ UNCHANGED <<states, closer, process, spoiled>>

Dropped(u, entry) ==
  /\ user[u].at = "released"
  /\ states' = [states EXCEPT ![user[u].obj] = entry]
  /\ process' = ProcessAfter(process, process.holders - 1)
  /\ user' = IF user[u].kind = "native" THEN Freed(u) ELSE Moved(u, "dropped")
  /\ UNCHANGED <<closer, spoiled>>

DropHolder_Reclaims(u) ==
  LET e == states[user[u].obj]
      left == e.holders - 1 IN
  Dropped(u, IF left = 0 /\ ~e.closed THEN NoEntry
             ELSE [e EXCEPT !.holders = left,
                            !.drained = IF left = 0 /\ e.closed THEN @ + 1 ELSE @])

DropHolder_Silent(u) ==
  LET e == states[user[u].obj]
      left == e.holders - 1 IN
  Dropped(u, IF left = 0 /\ ~e.closed /\ ~e.poisoned THEN NoEntry
             ELSE [e EXCEPT !.holders = left])

\* release, second half, under the registry's mutex: the counters, and either
\* the end of the drain or the reclaiming of an open idle entry.
DropHolder(u) ==
  LET e == states[user[u].obj]
      left == e.holders - 1 IN
  Dropped(u, IF left = 0 /\ ~e.closed /\ ~e.poisoned THEN NoEntry
             ELSE [e EXCEPT !.holders = left,
                            !.drained = IF left = 0 /\ e.closed THEN @ + 1 ELSE @])

\* credentialProcessTicket.release, the last step of a finite operation.
ReleaseTicket(u) ==
  /\ user[u].at \in Ticketed
  /\ process' = ProcessAfter(process, process.holders - 1)
  /\ user' = Freed(u)
  /\ UNCHANGED <<states, closer, spoiled>>

-----------------------------------------------------------------------------
\* Closing an entry closes its channel at once when nobody holds it.
Shut(o) == [Entry(o) EXCEPT !.closed = TRUE,
              !.drained = IF ~states[o].closed /\ states[o].holders = 0 THEN @ + 1 ELSE @]

\* closeOnly, the heartbeat's local denial; nothing happens in a full table.
CloseOnly(o) ==
  /\ HasRoom(o)
  /\ states' = [states EXCEPT ![o] = Shut(o)]
  /\ UNCHANGED <<user, closer, process, spoiled>>

\* closeAndWait: the denial under the lock, then the wait outside of it.
CloseAndWait(c, o) ==
  /\ closer[c].at # "waiting"
  /\ IF HasRoom(o)
       THEN /\ states' = [states EXCEPT ![o] = Shut(o)]
            /\ closer' = [closer EXCEPT ![c] = [at |-> "waiting", obj |-> o]]
       ELSE /\ closer' = [closer EXCEPT ![c] = [at |-> "failed", obj |-> o]]
            /\ UNCHANGED states
  /\ UNCHANGED <<user, process, spoiled>>

WaitOver(c) ==
  /\ closer[c].at = "waiting" /\ states[closer[c].obj].drained > 0
  /\ closer' = [closer EXCEPT ![c].at = IF states[closer[c].obj].poisoned THEN "failed" ELSE "drained"]
  /\ UNCHANGED <<states, user, process, spoiled>>

WaitCancelled(c) ==
  /\ closer[c].at = "waiting"
  /\ closer' = [closer EXCEPT ![c].at = "failed"]
  /\ UNCHANGED <<states, user, process, spoiled>>

\* BeginCredentialSourceShutdown.
CloseProcessAdmission ==
  /\ process' = ProcessAfter([process EXCEPT !.closed = TRUE], process.holders)
  /\ UNCHANGED <<states, user, closer, spoiled>>

ProcessJoined == process.closed /\ process.holders = 0 /\ ~process.poisoned

Step(u) == \/ \E o \in Objects : Acquire(u, o) \/ ProcessAcquire(u, o)
           \/ FiniteAcquire(u) \/ FiniteExclusive(u) \/ AdmitUse(u) \/ Observe(u)
           \/ Poison(u) \/ PoisonTicket(u)
           \/ MarkReleased(u) \/ DropHolder(u) \/ ReleaseTicket(u)

Next == \/ \E u \in Users : Step(u)
        \/ \E o \in Objects : CloseOnly(o)
        \/ \E c \in Closers : \/ \E o \in Objects : CloseAndWait(c, o)
                              \/ WaitOver(c) \/ WaitCancelled(c)
        \/ CloseProcessAdmission

\* Every owner of a holder or ticket ends: request and SDK calls have
\* deadlines and their release is deferred.
Finish(u) == MarkReleased(u) \/ DropHolder(u) \/ ReleaseTicket(u) \/ AdmitUse(u)

Fairness == \A u \in Users : /\ WF_vars(FiniteAcquire(u))
                             /\ WF_vars(Finish(u))
                             /\ WF_vars(Observe(u))
                             /\ SF_vars(MarkReleased(u))

Spec == Init /\ [][Next]_vars /\ Fairness

-----------------------------------------------------------------------------
TypeOK ==
  /\ states \in [Objects -> [known : BOOLEAN, closed : BOOLEAN, poisoned : BOOLEAN,
                             holders : Nat, drained : Nat]]
  /\ user \in [Users -> [at : Places, kind : {"native", "finite"}, obj : Objects]]
  /\ closer \in [Closers -> [at : {"idle", "waiting", "drained", "failed"}, obj : Objects]]
  /\ process \in [closed : BOOLEAN, poisoned : BOOLEAN, holders : Nat, drained : Nat]
  /\ spoiled \subseteq Objects

\* Every counter is the number of owners it stands for.
CountsMatchOwners ==
  /\ \A o \in Objects : states[o].holders = Cardinality(OnObject(o, Counted))
  /\ process.holders = Cardinality({u \in Users : user[u].at \in Counted})
                     + Cardinality({u \in Users : user[u].kind = "finite" /\ user[u].at # "free"})

\* A second close of a drained channel would panic.
DrainedOnce == (\A o \in Objects : states[o].drained <= 1) /\ process.drained <= 1

\* Whoever was told of a drain, or cleans up on its strength, is alone.
DrainedIsQuiet ==
  /\ \A c \in Closers : closer[c].at = "drained" => OnObject(closer[c].obj, Counted) = {}
  /\ \A u \in Users : user[u].at = "exclusive" => OnObject(user[u].obj, Counted) = {}

\* An object with a response that could not be closed is never drained.
PoisonIsNotDrain == \A o \in spoiled : ~Joined(o) /\ states[o].poisoned /\ ~ProcessJoined

(* A drain is real: the counters of the registry are its unreleased and      *)
(* half-released holders, a closer that was told an object is drained (or    *)
(* the exclusive cleanup that runs because of it) shares the object with     *)
(* nobody, a holder that left an open response behind is never forgotten,    *)
(* and no drained channel is closed twice, which would panic the server.     *)
DrainIsReal == TypeOK /\ CountsMatchOwners /\ DrainedOnce /\ DrainedIsQuiet /\ PoisonIsNotDrain

(* A denial ends in a drain: once an object is closed, its last holder       *)
(* closes the channel the waiting closers sit on.                            *)
DenialDrains == \A o \in Objects : states[o].closed ~> states[o].drained = 1

\* The registry as the gate it stands for.
Gate == INSTANCE SourceGate
          WITH uses <- {<<u, user[u].obj>> : u \in {v \in Users : user[v].at \in Holding}},
               closed <- {o \in Objects : states[o].closed},
               drained <- {o \in Objects : Joined(o)}

(* The registry implements its gate: a denied source stays denied whatever   *)
(* the capacity and the last release do, a holder enters only an open one,   *)
(* and a source is drained only while nobody uses it.                        *)
ImplementsGate == Gate!GateSpec
=============================================================================
