----------------------------- MODULE SourceGate -----------------------------
(***************************************************************************)
(* What the credential source registry of one process promises, without    *)
(* its locks, tickets and channels: a source (a physical Vault object) is   *)
(* open until it is closed, once closed it admits nobody ever again, and it *)
(* is declared drained only while nobody uses it and only if no user left   *)
(* an unfinished response behind.  Specified after                          *)
(* internal/routex/service/credential_source_holders.go.                    *)
(***************************************************************************)
EXTENDS Naturals

CONSTANTS Objects,   \* the physical objects
          Users      \* the requests and finite operations of the process

VARIABLES uses,      \* the (user, object) pairs with an unreleased holder
          closed,    \* the objects that admit nobody any more
          spoiled,   \* the objects with a response that was not proved closed
          drained    \* the objects some closer was told are drained

gate == <<uses, closed, spoiled, drained>>

GateInit == /\ uses = {}
            /\ closed = {}
            /\ spoiled = {}
            /\ drained = {}

Enter(u, o) == /\ o \notin closed
               /\ uses' = uses \union {<<u, o>>}
               /\ UNCHANGED <<closed, spoiled, drained>>

Leave(u, o) == /\ <<u, o>> \in uses
               /\ uses' = uses \ {<<u, o>>}
               /\ UNCHANGED <<closed, spoiled, drained>>

Spoil(u, o) == /\ <<u, o>> \in uses
               /\ spoiled' = spoiled \union {o}
               /\ UNCHANGED <<uses, closed, drained>>

\* Nobody uses the object and every response of it was closed.
Quiet(o) == o \notin spoiled /\ \A u \in Users : <<u, o>> \notin uses

\* Closing an object nobody uses may drain it at once.
CloseGate(o) == /\ closed' = closed \union {o}
                /\ \/ drained' = drained
                   \/ Quiet(o) /\ drained' = drained \union {o}
                /\ UNCHANGED <<uses, spoiled>>

Drain(o) == /\ o \in closed /\ Quiet(o)
            /\ drained' = drained \union {o}
            /\ UNCHANGED <<uses, closed, spoiled>>

GateNext == \E o \in Objects :
              \/ CloseGate(o)
              \/ Drain(o)
              \/ \E u \in Users : Enter(u, o) \/ Leave(u, o) \/ Spoil(u, o)

GateSpec == GateInit /\ [][GateNext]_gate
=============================================================================
