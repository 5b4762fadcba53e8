----------------------- MODULE CredentialHoldersProofs -----------------------
(***************************************************************************)
(* The credential source registry for every number of objects, users and   *)
(* closers and every capacity: a drain is real, and the registry implements *)
(* the gate it stands for.                                                  *)
(*                                                                         *)
(* That whoever was told of a drain is alone is not inductive: the object   *)
(* must also stay closed with no holder (Told), the channel be closed       *)
(* exactly when that is so (Exact), a closed or poisoned entry never be     *)
(* reclaimed (Fresh), and the counters be the owners they stand for.        *)
(***************************************************************************)
EXTENDS CredentialHolders, FiniteSetTheorems, TLAPS

StateRecord == [known : BOOLEAN, closed : BOOLEAN, poisoned : BOOLEAN, holders : Nat, drained : Nat]
UserRecord == [at : Places, kind : {"native", "finite"}, obj : Objects]

\* An entry that is not in the table says nothing.
Fresh == \A o \in Objects : ~states[o].known => states[o] = NoEntry

\* The channel of an entry is closed when it is denied and nobody holds it.
Empty(o) == states[o].closed /\ states[o].holders = 0
Exact == /\ \A o \in Objects : states[o].drained = IF Empty(o) THEN 1 ELSE 0
         /\ process.drained \in {0, 1}

\* A drain that somebody was told of lasts.
Told == /\ \A c \in Closers : closer[c].at = "drained" => Empty(closer[c].obj)
        /\ \A u \in Users : user[u].at = "exclusive" => Empty(user[u].obj)

\* A ticket belongs to a finite operation.
Tickets == \A u \in Users : user[u].at \in Ticketed => user[u].kind = "finite"

Remembered == \A o \in spoiled : states[o].poisoned /\ process.poisoned

HolderInv == TypeOK /\ CountsMatchOwners /\ Fresh /\ Exact /\ Told /\ Tickets /\ Remembered

-----------------------------------------------------------------------------
(* Counting.                                                               *)

One(b) == IF b THEN 1 ELSE 0

\* Two sets that differ in u at most.
LEMMA Recount ==
  ASSUME NEW S, NEW T, NEW u, IsFiniteSet(S), T \ {u} = S \ {u}
  PROVE  /\ IsFiniteSet(T) /\ Cardinality(S) \in Nat /\ Cardinality(T) \in Nat
         /\ Cardinality(T) + One(u \in S) = Cardinality(S) + One(u \in T)
<1>1. Cardinality(S) \in Nat
  BY FS_CardinalityType
<1>2. CASE u \in S /\ u \in T
  <2>1. T = S
    BY <1>2
  <2>2. QED
    BY <1>1, <2>1
<1>3. CASE u \notin S /\ u \notin T
  <2>1. T = S
    BY <1>3
  <2>2. QED
    BY <1>1, <2>1
<1>4. CASE u \in S /\ u \notin T
  <2>1. T = S \ {u}
    BY <1>4
  <2>2. IsFiniteSet(T) /\ Cardinality(T) = Cardinality(S) - 1
    BY <1>4, <2>1, FS_RemoveElement
  <2>3. Cardinality(T) \in Nat
    BY <2>2, FS_CardinalityType
  <2>4. QED
    BY <1>1, <1>4, <2>2, <2>3 DEF One
<1>5. CASE u \notin S /\ u \in T
  <2>1. T = S \cup {u}
    BY <1>5
  <2>2. IsFiniteSet(T) /\ Cardinality(T) = Cardinality(S) + 1
    BY <1>5, <2>1, FS_AddElement
  <2>3. QED
    BY <1>1, <1>5, <2>2 DEF One
<1>6. QED
  BY <1>2, <1>3, <1>4, <1>5

CountedUsers == {u \in Users : user[u].at \in Counted}
FiniteUsers == {u \in Users : user[u].kind = "finite" /\ user[u].at # "free"}

\* What a user contributes to the counters.
Holds(r, o) == r.obj = o /\ r.at \in Counted
Weight(r) == One(r.at \in Counted) + One(r.kind = "finite" /\ r.at # "free")

\* The counters of the registry after one user moved.
LEMMA CountStep ==
  ASSUME HolderInv, NEW u \in Users, NEW n \in UserRecord,
         user' = [user EXCEPT ![u] = n],
         \A o \in Objects :
           states'[o].holders + One(Holds(user[u], o)) = states[o].holders + One(Holds(n, o)),
         \A o \in Objects : states'[o].holders \in Int,
         process'.holders \in Int,
         process'.holders + Weight(user[u]) = process.holders + Weight(n)
  PROVE  /\ CountsMatchOwners'
         /\ \A o \in Objects : states'[o].holders \in Nat
         /\ process'.holders \in Nat
<1>1. user \in [Users -> UserRecord] /\ user' \in [Users -> UserRecord]
      /\ user'[u] = n /\ \A v \in Users \ {u} : user'[v] = user[v]
  BY DEF HolderInv, TypeOK, UserRecord
<1>2. \A S \in SUBSET Users : IsFiniteSet(S)
  BY HolderAssumption, FS_Subset
<1>3. ASSUME NEW o \in Objects
      PROVE  states'[o].holders = Cardinality(OnObject(o, Counted)') /\ states'[o].holders \in Nat
  <2> DEFINE S == OnObject(o, Counted)
             T == OnObject(o, Counted)'
  <2>1. /\ S \subseteq Users /\ T \ {u} = S \ {u}
        /\ u \in S <=> Holds(user[u], o)
        /\ u \in T <=> Holds(n, o)
    BY <1>1 DEF OnObject, Holds
  <2>2. states[o].holders = Cardinality(S)
    BY DEF HolderInv, CountsMatchOwners
  <2> HIDE DEF S, T
  <2>3. /\ Cardinality(S) \in Nat /\ Cardinality(T) \in Nat
        /\ Cardinality(T) + One(u \in S) = Cardinality(S) + One(u \in T)
    BY <1>2, <2>1, Recount
  <2>4. One(u \in S) = One(Holds(user[u], o)) /\ One(u \in T) = One(Holds(n, o))
        /\ One(u \in S) \in Nat /\ One(u \in T) \in Nat
    BY <2>1 DEF One
  <2>5. states'[o].holders = Cardinality(T)
    BY <2>2, <2>3, <2>4
  <2>6. QED
    BY <2>3, <2>5 DEF T
<1>4. process'.holders = Cardinality(CountedUsers') + Cardinality(FiniteUsers')
      /\ process'.holders \in Nat
  <2> DEFINE S == CountedUsers
             T == CountedUsers'
             F == FiniteUsers
             G == FiniteUsers'
  <2>1. /\ S \subseteq Users /\ T \ {u} = S \ {u} /\ F \subseteq Users /\ G \ {u} = F \ {u}
        /\ u \in S <=> user[u].at \in Counted
        /\ u \in T <=> n.at \in Counted
    BY <1>1 DEF CountedUsers, FiniteUsers
  <2>2. /\ u \in F <=> (user[u].kind = "finite" /\ user[u].at # "free")
        /\ u \in G <=> (n.kind = "finite" /\ n.at # "free")
    BY <1>1 DEF FiniteUsers
  <2>3. process.holders = Cardinality(S) + Cardinality(F)
    BY DEF HolderInv, CountsMatchOwners, CountedUsers, FiniteUsers
  <2> HIDE DEF S, T, F, G
  <2>4. /\ Cardinality(S) \in Nat /\ Cardinality(T) \in Nat
        /\ Cardinality(T) + One(u \in S) = Cardinality(S) + One(u \in T)
    BY <1>2, <2>1, Recount
  <2>5. /\ Cardinality(F) \in Nat /\ Cardinality(G) \in Nat
        /\ Cardinality(G) + One(u \in F) = Cardinality(F) + One(u \in G)
    BY <1>2, <2>1, Recount
  <2>6. /\ Weight(user[u]) = One(u \in S) + One(u \in F)
        /\ Weight(n) = One(u \in T) + One(u \in G)
        /\ One(u \in S) \in Nat /\ One(u \in T) \in Nat
        /\ One(u \in F) \in Nat /\ One(u \in G) \in Nat
    BY <2>1, <2>2 DEF Weight, One
  <2>7. process'.holders = Cardinality(T) + Cardinality(G)
    BY <2>3, <2>4, <2>5, <2>6
  <2>8. QED
    BY <2>4, <2>5, <2>7 DEF T, G
<1>5. CountsMatchOwners'
  BY <1>3, <1>4 DEF CountsMatchOwners, CountedUsers, FiniteUsers
<1>6. QED
  BY <1>3, <1>4, <1>5

-----------------------------------------------------------------------------
(* Users.                                                                  *)

LEMMA HolderInitInv == Init => HolderInv
<1> SUFFICES ASSUME Init PROVE HolderInv
  OBVIOUS
<1>1. (CHOOSE o \in Objects : TRUE) \in Objects
  BY HolderAssumption
<1>2. Idle \in UserRecord /\ Idle.at = "free" /\ Idle.kind = "native"
  BY <1>1 DEF Idle, UserRecord, Places
<1>3. TypeOK
  BY <1>1, <1>2 DEF Init, TypeOK, UserRecord, NoEntry
<1>4. CountsMatchOwners
  <2>1. \A o \in Objects : OnObject(o, Counted) = {}
    BY <1>2 DEF Init, OnObject, Counted, Holding
  <2>2. CountedUsers = {} /\ FiniteUsers = {}
    BY <1>2 DEF Init, CountedUsers, FiniteUsers, Counted, Holding
  <2>3. Cardinality({}) = 0
    BY FS_EmptySet
  <2>4. process.holders = 0 /\ \A o \in Objects : states[o].holders = 0
    BY DEF Init, NoEntry
  <2>5. \A o \in Objects : states[o].holders = Cardinality(OnObject(o, Counted))
    BY <2>1, <2>3, <2>4
  <2>6. process.holders = Cardinality(CountedUsers) + Cardinality(FiniteUsers)
    BY <2>2, <2>3, <2>4
  <2>7. QED
    BY <2>5, <2>6 DEF CountsMatchOwners, CountedUsers, FiniteUsers
<1>5. Fresh /\ Exact
  BY DEF Init, Fresh, Exact, Empty, NoEntry
<1>6. Told /\ Tickets /\ Remembered
  BY <1>2 DEF Init, Told, Tickets, Remembered, Ticketed
<1>7. QED
  BY <1>3, <1>4, <1>5, <1>6 DEF HolderInv

\* A known entry, or a new one: open, clean and without holders.
LEMMA EntryFacts ==
  ASSUME HolderInv, NEW o \in Objects
  PROVE  /\ Entry(o) \in StateRecord /\ states[o] \in StateRecord /\ Entry(o).known
         /\ Entry(o).closed = states[o].closed /\ Entry(o).poisoned = states[o].poisoned
         /\ Entry(o).holders = states[o].holders /\ Entry(o).drained = states[o].drained
<1>1. states[o] \in StateRecord /\ NoEntry \in StateRecord
  BY DEF HolderInv, TypeOK, StateRecord, NoEntry
<1>2. CASE states[o].known
  BY <1>1, <1>2 DEF Entry
<1>3. CASE ~states[o].known
  <2>1. states[o] = NoEntry
    BY <1>3 DEF HolderInv, Fresh
  <2>2. Entry(o) = [NoEntry EXCEPT !.known = TRUE]
    BY <1>3 DEF Entry
  <2>3. QED
    BY <1>1, <2>1, <2>2 DEF StateRecord
<1>4. QED
  BY <1>2, <1>3

\* What a step that moves the user u to n, and the entry of o to e, must respect:
\* the counters,
MoveCounts(u, n, o, e) ==
  /\ \A p \in Objects : Holds(user[u], p) \/ Holds(n, p) => p = o
  /\ e.holders + One(Holds(user[u], o)) = states[o].holders + One(Holds(n, o))
  /\ process'.holders + Weight(user[u]) = process.holders + Weight(n)

\* the entry, which a drain outlives,
MoveEntry(o, e) ==
  /\ e \in [known : BOOLEAN, closed : BOOLEAN, poisoned : BOOLEAN, holders : Int, drained : Nat]
  /\ ~e.known => e = NoEntry
  /\ e.drained = (IF e.closed /\ e.holders = 0 THEN 1 ELSE 0)
  /\ Empty(o) => e.closed /\ e.holders = 0

\* the place,
MovePlace(n, o, e) ==
  /\ n.at = "exclusive" => n.obj = o /\ e.closed /\ e.holders = 0
  /\ n.at \in Ticketed => n.kind = "finite"

\* and what poisons.
MoveProcess(o, e) ==
  /\ process' \in [closed : BOOLEAN, poisoned : BOOLEAN, holders : Int, drained : Nat]
  /\ process'.drained \in {0, 1}
  /\ spoiled' \subseteq Objects
  /\ \A p \in spoiled' : process'.poisoned /\ (p = o => e.poisoned) /\ (p # o => p \in spoiled)

\* One user moves, and with it the entry of one object and the process's counter.
LEMMA UserStep ==
  ASSUME HolderInv, NEW u \in Users, NEW n \in UserRecord, NEW o \in Objects, NEW e,
         user' = [user EXCEPT ![u] = n], states' = [states EXCEPT ![o] = e], closer' = closer,
         MoveCounts(u, n, o, e), MoveEntry(o, e), MovePlace(n, o, e), MoveProcess(o, e)
  PROVE  HolderInv'
<1> USE DEF MoveCounts, MoveEntry, MovePlace, MoveProcess
<1>1. /\ states \in [Objects -> StateRecord] /\ user \in [Users -> UserRecord]
      /\ states'[o] = e /\ \A p \in Objects \ {o} : states'[p] = states[p]
      /\ user'[u] = n /\ \A v \in Users \ {u} : user'[v] = user[v]
  BY DEF HolderInv, TypeOK, StateRecord, UserRecord
<1>2. /\ CountsMatchOwners'
      /\ \A p \in Objects : states'[p].holders \in Nat
      /\ process'.holders \in Nat
  <2>1. ASSUME NEW p \in Objects
        PROVE  /\ states'[p].holders + One(Holds(user[u], p)) = states[p].holders + One(Holds(n, p))
               /\ states'[p].holders \in Int
    <3>1. CASE p = o
      BY <1>1, <3>1
    <3>2. CASE p # o
      <4>1. ~Holds(user[u], p) /\ ~Holds(n, p)
        BY <3>2
      <4>2. One(Holds(user[u], p)) = 0 /\ One(Holds(n, p)) = 0
        BY <4>1 DEF One
      <4>3. states'[p].holders = states[p].holders /\ states[p].holders \in Nat
        BY <1>1, <3>2 DEF StateRecord
      <4>4. QED
        BY <4>2, <4>3
    <3>3. QED
      BY <3>1, <3>2
  <2>2. \A p \in Objects :
          states'[p].holders + One(Holds(user[u], p)) = states[p].holders + One(Holds(n, p))
    BY <2>1
  <2>3. \A p \in Objects : states'[p].holders \in Int
    BY <2>1
  <2>4. process'.holders \in Int
    OBVIOUS
  <2>5. QED
    BY <2>2, <2>3, <2>4, CountStep
<1>3. TypeOK'
  <2>1. states' \in [Objects -> StateRecord]
    <3>1. e \in StateRecord
      BY <1>1, <1>2 DEF StateRecord
    <3>2. QED
      BY <1>1, <3>1
  <2>2. user' \in [Users -> UserRecord]
    BY <1>1
  <2>3. process' \in [closed : BOOLEAN, poisoned : BOOLEAN, holders : Nat, drained : Nat]
    BY <1>2
  <2>4. QED
    BY <2>1, <2>2, <2>3 DEF HolderInv, TypeOK, StateRecord, UserRecord
<1>4. Fresh'
  BY <1>1 DEF HolderInv, Fresh
<1>5. Exact'
  BY <1>1 DEF HolderInv, Exact, Empty
<1>6. Told'
  <2>1. \A p \in Objects : Empty(p) => states'[p].closed /\ states'[p].holders = 0
    BY <1>1 DEF Empty
  <2>2. \A c \in Closers : closer[c].obj \in Objects
    BY DEF HolderInv, TypeOK
  <2>3. \A v \in Users : user[v].obj \in Objects
    BY <1>1 DEF UserRecord
  <2>4. \A c \in Closers : closer'[c].at = "drained" =>
          states'[closer'[c].obj].closed /\ states'[closer'[c].obj].holders = 0
    BY <2>1, <2>2 DEF HolderInv, Told
  <2>5. \A v \in Users : user'[v].at = "exclusive" =>
          states'[user'[v].obj].closed /\ states'[user'[v].obj].holders = 0
    BY <1>1, <2>1, <2>3 DEF HolderInv, Told
  <2>6. QED
    BY <2>4, <2>5 DEF Told, Empty
<1>7. Tickets'
  BY <1>1 DEF HolderInv, Tickets
<1>8. Remembered'
  BY <1>1 DEF HolderInv, Remembered
<1>9. QED
  BY <1>2, <1>3, <1>4, <1>5, <1>6, <1>7, <1>8 DEF HolderInv

\* The record of a user at another place.
LEMMA Placed ==
  ASSUME HolderInv, NEW u \in Users, NEW place \in Places
  PROVE  LET n == [user[u] EXCEPT !.at = place]
         IN /\ Moved(u, place) = [user EXCEPT ![u] = n] /\ user[u] \in UserRecord
            /\ n \in UserRecord /\ n.at = place /\ n.kind = user[u].kind /\ n.obj = user[u].obj
<1>1. user \in [Users -> UserRecord] /\ user[u] \in UserRecord
  BY DEF HolderInv, TypeOK, UserRecord
<1>2. QED
  BY <1>1 DEF Moved, UserRecord

\* A user that is gone counts for nothing.
LEMMA Gone ==
  ASSUME NEW u \in Users
  PROVE  /\ Freed(u) = [user EXCEPT ![u] = Idle]
         /\ Idle \in UserRecord /\ Idle.at = "free" /\ Idle.kind = "native" /\ Weight(Idle) = 0
         /\ \A o : ~Holds(Idle, o)
<1>1. (CHOOSE o \in Objects : TRUE) \in Objects
  BY HolderAssumption
<1>2. Idle \in UserRecord /\ Idle.at = "free" /\ Idle.kind = "native"
  BY <1>1 DEF Idle, UserRecord, Places
<1>3. QED
  BY <1>2 DEF Freed, Weight, One, Holds, Counted, Holding

\* A user moves and the table stays as it is.
LEMMA MoveInv ==
  ASSUME HolderInv, NEW u \in Users, NEW n \in UserRecord,
         user' = [user EXCEPT ![u] = n], UNCHANGED <<states, closer, spoiled>>,
         n.at \in Counted <=> user[u].at \in Counted,
         n.at \in Counted \cup {"exclusive"} => n.obj = user[u].obj,
         n.at = "exclusive" => Empty(n.obj),
         n.at \in Ticketed => n.kind = "finite",
         process' \in [closed : BOOLEAN, poisoned : BOOLEAN, holders : Int, drained : Nat],
         process'.holders + Weight(user[u]) = process.holders + Weight(n),
         process'.drained \in {0, 1}, process.poisoned => process'.poisoned
  PROVE  HolderInv'
<1> DEFINE o == user[u].obj
           e == states[o]
<1>1. o \in Objects /\ e \in StateRecord /\ states = [states EXCEPT ![o] = e]
  BY DEF HolderInv, TypeOK, UserRecord, StateRecord
<1>2. /\ ~e.known => e = NoEntry
      /\ e.drained = (IF e.closed /\ e.holders = 0 THEN 1 ELSE 0)
  BY <1>1 DEF HolderInv, Fresh, Exact, Empty
<1>3. Holds(user[u], o) <=> Holds(n, o)
  BY DEF Holds
<1>4. \A p \in Objects : Holds(user[u], p) \/ Holds(n, p) => p = o
  BY DEF Holds
<1>5. Empty(o) => e.closed /\ e.holders = 0
  BY DEF Empty
<1>6. n.at = "exclusive" => n.obj = o /\ e.closed /\ e.holders = 0
  BY DEF Empty
<1>7. spoiled' \subseteq Objects
  BY DEF HolderInv, TypeOK
<1>8. \A p \in spoiled' : process'.poisoned /\ (p = o => e.poisoned) /\ (p # o => p \in spoiled)
  BY DEF HolderInv, Remembered
<1>9. e.holders + One(Holds(user[u], o)) = states[o].holders + One(Holds(n, o))
  BY <1>3 DEF One
<1> HIDE DEF o
<1>10. MoveCounts(u, n, o, e)
  BY <1>4, <1>9 DEF MoveCounts
<1> HIDE DEF e
<1>11. MoveEntry(o, e)
  BY <1>1, <1>2, <1>5 DEF MoveEntry, StateRecord
<1>12. MovePlace(n, o, e)
  BY <1>6 DEF MovePlace
<1>13. MoveProcess(o, e)
  BY <1>7, <1>8 DEF MoveProcess
<1>14. states' = [states EXCEPT ![o] = e] /\ closer' = closer
  BY <1>1
<1>15. QED
  BY <1>1, <1>10, <1>11, <1>12, <1>13, <1>14, UserStep

\* A holder is taken on an open object.
LEMMA TakeInv ==
  ASSUME HolderInv, NEW u \in Users, NEW o \in Objects, NEW n \in UserRecord,
         user[u].at \notin Counted, n.at = "held", n.obj = o, Weight(n) = Weight(user[u]) + 1,
         ~states[o].closed,
         states' = [states EXCEPT ![o] = [Entry(o) EXCEPT !.holders = @ + 1]],
         process' = [process EXCEPT !.holders = @ + 1],
         user' = [user EXCEPT ![u] = n], UNCHANGED <<closer, spoiled>>
  PROVE  HolderInv'
<1> DEFINE e == [Entry(o) EXCEPT !.holders = @ + 1]
<1>1. /\ Entry(o) \in StateRecord /\ states[o] \in StateRecord /\ Entry(o).known
      /\ Entry(o).closed = states[o].closed /\ Entry(o).poisoned = states[o].poisoned
      /\ Entry(o).holders = states[o].holders /\ Entry(o).drained = states[o].drained
  BY EntryFacts
<1>2. /\ e \in [known : BOOLEAN, closed : BOOLEAN, poisoned : BOOLEAN, holders : Int, drained : Nat]
      /\ e.known /\ ~e.closed /\ e.poisoned = states[o].poisoned
      /\ e.holders = states[o].holders + 1 /\ e.drained = states[o].drained
  BY <1>1 DEF StateRecord
<1>3. states' = [states EXCEPT ![o] = e]
  OBVIOUS
<1> HIDE DEF e
<1>4. /\ process' \in [closed : BOOLEAN, poisoned : BOOLEAN, holders : Int, drained : Nat]
      /\ process'.holders = process.holders + 1 /\ process.holders \in Nat
      /\ process'.drained = process.drained /\ process'.poisoned = process.poisoned
  BY DEF HolderInv, TypeOK
<1>5. /\ \A p \in Objects : Holds(user[u], p) \/ Holds(n, p) => p = o
      /\ One(Holds(user[u], o)) = 0 /\ One(Holds(n, o)) = 1
  BY DEF Holds, One, Counted, Holding
<1>6. e.holders + One(Holds(user[u], o)) = states[o].holders + One(Holds(n, o))
  BY <1>1, <1>2, <1>5 DEF StateRecord
<1>7. Weight(user[u]) \in Nat
  BY DEF Weight, One
<1>8. process'.holders + Weight(user[u]) = process.holders + Weight(n)
  BY <1>4, <1>7
<1>9. e.drained = (IF e.closed /\ e.holders = 0 THEN 1 ELSE 0) /\ ~Empty(o)
  BY <1>2 DEF HolderInv, Exact, Empty
<1>10. n.at # "exclusive" /\ n.at \notin Ticketed
  BY DEF Ticketed
<1>11. /\ spoiled' \subseteq Objects /\ process'.drained \in {0, 1}
       /\ \A p \in spoiled' : process'.poisoned /\ (p = o => e.poisoned) /\ (p # o => p \in spoiled)
  BY <1>2, <1>4 DEF HolderInv, TypeOK, Exact, Remembered
<1>12. MoveCounts(u, n, o, e) /\ MoveEntry(o, e)
  BY <1>2, <1>5, <1>6, <1>8, <1>9 DEF MoveCounts, MoveEntry
<1>13. MovePlace(n, o, e) /\ MoveProcess(o, e)
  BY <1>4, <1>10, <1>11 DEF MovePlace, MoveProcess
<1>14. QED
  BY <1>3, <1>12, <1>13, UserStep

LEMMA AcquireInv ==
  ASSUME HolderInv, NEW u \in Users, NEW o \in Objects, Acquire(u, o)
  PROVE  HolderInv'
<1> DEFINE n == [at |-> "held", kind |-> "native", obj |-> o]
<1>1. n \in UserRecord /\ n.at = "held" /\ n.obj = o /\ Weight(n) = 1
  BY DEF UserRecord, Places, Counted, Holding, Weight, One
<1>2. user[u].at = "free" /\ user[u].at \notin Counted /\ Weight(user[u]) = 0
  BY DEF Acquire, Counted, Holding, Weight, One
<1>3. /\ ~states[o].closed
      /\ states' = [states EXCEPT ![o] = [Entry(o) EXCEPT !.holders = @ + 1]]
      /\ process' = [process EXCEPT !.holders = @ + 1]
      /\ user' = [user EXCEPT ![u] = n] /\ UNCHANGED <<closer, spoiled>>
  BY DEF Acquire
<1> HIDE DEF n
<1>4. Weight(n) = Weight(user[u]) + 1
  BY <1>1, <1>2
<1>5. QED
  BY <1>1, <1>2, <1>3, <1>4, TakeInv

LEMMA ProcessAcquireInv ==
  ASSUME HolderInv, NEW u \in Users, NEW o \in Objects, ProcessAcquire(u, o)
  PROVE  HolderInv'
<1> DEFINE n == [at |-> "ticket", kind |-> "finite", obj |-> o]
<1>1. n \in UserRecord /\ n.at = "ticket" /\ n.kind = "finite" /\ Weight(n) = 1
  BY DEF UserRecord, Places, Ticketed, Counted, Holding, Weight, One
<1>2. user[u].at \notin Counted /\ Weight(user[u]) = 0 /\ n.at \notin Counted
  BY DEF ProcessAcquire, Counted, Holding, Weight, One
<1>3. /\ process' = [process EXCEPT !.holders = @ + 1]
      /\ user' = [user EXCEPT ![u] = n] /\ UNCHANGED <<states, closer, spoiled>>
  BY DEF ProcessAcquire
<1> HIDE DEF n
<1>4. /\ process' \in [closed : BOOLEAN, poisoned : BOOLEAN, holders : Int, drained : Nat]
      /\ process'.holders = process.holders + 1 /\ process.holders \in Nat
      /\ process'.drained \in {0, 1} /\ process'.poisoned = process.poisoned
  BY <1>3 DEF HolderInv, TypeOK, Exact
<1>5. process'.holders + Weight(user[u]) = process.holders + Weight(n)
  BY <1>1, <1>2, <1>4
<1>6. QED
  BY <1>1, <1>2, <1>3, <1>4, <1>5, MoveInv

\* A poisoned process, and a poisoned entry.
LEMMA PoisonedProcess ==
  ASSUME NEW p \in [closed : BOOLEAN, poisoned : BOOLEAN, holders : Nat, drained : Nat]
  PROVE  LET q == [p EXCEPT !.poisoned = TRUE]
         IN /\ q \in [closed : BOOLEAN, poisoned : BOOLEAN, holders : Nat, drained : Nat]
            /\ q.poisoned /\ q.closed = p.closed /\ q.holders = p.holders /\ q.drained = p.drained
<1> DEFINE b == TRUE
           q == [p EXCEPT !.poisoned = b]
<1>1. b \in BOOLEAN
  OBVIOUS
<1> HIDE DEF b
<1>2. /\ q \in [closed : BOOLEAN, poisoned : BOOLEAN, holders : Nat, drained : Nat]
      /\ q.poisoned = b /\ q.closed = p.closed /\ q.holders = p.holders /\ q.drained = p.drained
  BY <1>1
<1> HIDE DEF q
<1>3. q.poisoned
  BY <1>2 DEF b
<1>4. QED
  BY <1>2, <1>3 DEF q, b

LEMMA PoisonedEntry ==
  ASSUME NEW p \in StateRecord
  PROVE  LET q == [p EXCEPT !.poisoned = TRUE]
         IN /\ q \in StateRecord /\ q.known = p.known
            /\ q.poisoned /\ q.closed = p.closed /\ q.holders = p.holders /\ q.drained = p.drained
<1> DEFINE b == TRUE
           q == [p EXCEPT !.poisoned = b]
<1>1. b \in BOOLEAN
  OBVIOUS
<1> HIDE DEF b
<1>2. /\ q \in StateRecord /\ q.known = p.known
      /\ q.poisoned = b /\ q.closed = p.closed /\ q.holders = p.holders /\ q.drained = p.drained
  BY <1>1 DEF StateRecord
<1> HIDE DEF q
<1>3. q.poisoned
  BY <1>2 DEF b
<1>4. QED
  BY <1>2, <1>3 DEF q, b

\* A user goes on with what it has.
LEMMA ShiftInv ==
  ASSUME HolderInv, NEW u \in Users, NEW place \in Places,
         \/ user[u].at \in Counted /\ place \in Counted
         \/ user[u].at \in Ticketed /\ place \in Ticketed,
         place = "exclusive" => Empty(user[u].obj),
         user' = Moved(u, place), UNCHANGED <<states, closer, spoiled>>,
         process' = process \/ process' = [process EXCEPT !.poisoned = TRUE]
  PROVE  HolderInv'
<1> DEFINE n == [user[u] EXCEPT !.at = place]
<1>1. /\ user' = [user EXCEPT ![u] = n] /\ user[u] \in UserRecord
      /\ n \in UserRecord /\ n.at = place /\ n.kind = user[u].kind /\ n.obj = user[u].obj
  BY Placed
<1> HIDE DEF n
<1>2. Counted \cap Ticketed = {} /\ "free" \notin Counted \cup Ticketed
  BY DEF Counted, Holding, Ticketed
<1>3. /\ n.at \in Counted <=> user[u].at \in Counted
      /\ n.at # "free" /\ user[u].at # "free"
  BY <1>1, <1>2
<1>4. Weight(n) = Weight(user[u]) /\ Weight(n) \in Nat
  BY <1>1, <1>3 DEF Weight, One
<1>5. n.at \in Ticketed => n.kind = "finite"
  BY <1>1, <1>2 DEF HolderInv, Tickets
<1>6. /\ process' \in [closed : BOOLEAN, poisoned : BOOLEAN, holders : Int, drained : Nat]
      /\ process'.holders = process.holders /\ process.holders \in Nat
      /\ process'.drained = process.drained /\ (process.poisoned => process'.poisoned)
  <2>1. process \in [closed : BOOLEAN, poisoned : BOOLEAN, holders : Nat, drained : Nat]
    BY DEF HolderInv, TypeOK
  <2>2. CASE process' = process
    BY <2>1, <2>2
  <2>3. CASE process' = [process EXCEPT !.poisoned = TRUE]
    BY <2>1, <2>3, PoisonedProcess
  <2>4. QED
    BY <2>2, <2>3
<1>7. process'.holders + Weight(user[u]) = process.holders + Weight(n)
  BY <1>4, <1>6
<1>8. process'.drained \in {0, 1}
  BY <1>6 DEF HolderInv, Exact
<1>9. n.at = "exclusive" => Empty(n.obj)
  BY <1>1
<1>10. QED
  BY <1>1, <1>3, <1>5, <1>6, <1>7, <1>8, <1>9, MoveInv

LEMMA FiniteAcquireInv ==
  ASSUME HolderInv, NEW u \in Users, FiniteAcquire(u)
  PROVE  HolderInv'
<1> DEFINE o == user[u].obj
<1>1. user[u].at = "ticket" /\ UNCHANGED <<closer, spoiled>>
  BY DEF FiniteAcquire
<1>2. user[u].kind = "finite" /\ o \in Objects
  BY <1>1 DEF HolderInv, Tickets, Ticketed, TypeOK
<1>3. CASE ~process.closed /\ HasRoom(o) /\ ~states[o].closed
  <2> DEFINE n == [user[u] EXCEPT !.at = "held"]
  <2>1. /\ states' = [states EXCEPT ![o] = [Entry(o) EXCEPT !.holders = @ + 1]]
        /\ process' = [process EXCEPT !.holders = @ + 1]
        /\ user' = Moved(u, "held")
    BY <1>3 DEF FiniteAcquire
  <2>2. "held" \in Places
    BY DEF Places, Counted, Holding
  <2>3. /\ user' = [user EXCEPT ![u] = n] /\ n \in UserRecord
        /\ n.at = "held" /\ n.kind = user[u].kind /\ n.obj = o
    BY <2>1, <2>2, Placed
  <2> HIDE DEF n, o
  <2>4. user[u].at \notin Counted /\ Weight(user[u]) = 1 /\ Weight(n) = 2
    BY <1>1, <1>2, <2>3 DEF Weight, One, Counted, Holding
  <2>5. Weight(n) = Weight(user[u]) + 1
    BY <2>4
  <2>6. QED
    BY <1>1, <1>2, <1>3, <2>1, <2>3, <2>4, <2>5, TakeInv
<1>4. CASE ~(~process.closed /\ HasRoom(o) /\ ~states[o].closed)
  <2>1. user' = Moved(u, "dropped") /\ UNCHANGED <<states, process>>
    BY <1>4 DEF FiniteAcquire
  <2>2. "dropped" \in Places /\ "dropped" \in Ticketed /\ user[u].at \in Ticketed
    BY <1>1 DEF Places, Ticketed
  <2>3. QED
    BY <1>1, <2>1, <2>2, ShiftInv
<1>5. QED
  BY <1>3, <1>4

LEMMA PlaceInv ==
  ASSUME HolderInv, NEW u \in Users,
         \/ FiniteExclusive(u) \/ AdmitUse(u) \/ Observe(u) \/ PoisonTicket(u) \/ MarkReleased(u)
  PROVE  HolderInv'
<1> USE DEF Places, Counted, Holding, Ticketed
<1>1. CASE FiniteExclusive(u)
  <2>1. /\ user[u].at \in Ticketed /\ "exclusive" \in Places /\ "exclusive" \in Ticketed
        /\ Empty(user[u].obj) /\ user' = Moved(u, "exclusive")
        /\ UNCHANGED <<states, closer, process, spoiled>>
    BY <1>1 DEF FiniteExclusive, Joined, Empty
  <2>2. QED
    BY <2>1, ShiftInv
<1>2. CASE AdmitUse(u)
  <2>1. PICK place \in {"using", "released"} : user' = Moved(u, place)
    BY <1>2 DEF AdmitUse
  <2>2. user[u].at \in Counted /\ place \in Places /\ place \in Counted /\ place # "exclusive"
        /\ UNCHANGED <<states, closer, process, spoiled>>
    BY <1>2 DEF AdmitUse
  <2>3. QED
    BY <2>1, <2>2, ShiftInv
<1>3. CASE Observe(u)
  <2>1. /\ user[u].at \in Counted /\ "held" \in Places /\ "held" \in Counted
        /\ user' = Moved(u, "held") /\ UNCHANGED <<states, closer, process, spoiled>>
    BY <1>3 DEF Observe
  <2>2. QED
    BY <2>1, ShiftInv
<1>4. CASE PoisonTicket(u)
  <2>1. /\ user[u].at \in Ticketed /\ "dropped" \in Places /\ "dropped" \in Ticketed
        /\ user' = Moved(u, "dropped") /\ process' = [process EXCEPT !.poisoned = TRUE]
        /\ UNCHANGED <<states, closer, spoiled>>
    BY <1>4 DEF PoisonTicket
  <2>2. QED
    BY <2>1, ShiftInv
<1>5. CASE MarkReleased(u)
  <2>1. /\ user[u].at \in Counted /\ "released" \in Places /\ "released" \in Counted
        /\ user' = Moved(u, "released") /\ UNCHANGED <<states, closer, process, spoiled>>
    BY <1>5 DEF MarkReleased
  <2>2. QED
    BY <2>1, ShiftInv
<1>6. QED
  BY <1>1, <1>2, <1>3, <1>4, <1>5

\* An object with a counted user has a known entry with a holder.
LEMMA CountedEntry ==
  ASSUME HolderInv, NEW u \in Users, user[u].at \in Counted
  PROVE  LET e == states[user[u].obj]
         IN /\ user[u].obj \in Objects /\ e \in StateRecord
            /\ e.holders # 0 /\ e.known /\ e.drained = 0 /\ ~Empty(user[u].obj)
<1> DEFINE o == user[u].obj
           S == OnObject(o, Counted)
<1>1. o \in Objects /\ states[o] \in StateRecord
  BY DEF HolderInv, TypeOK, StateRecord
<1>2. u \in S /\ S \subseteq Users
  BY DEF OnObject
<1>3. IsFiniteSet(S)
  BY <1>2, HolderAssumption, FS_Subset
<1>4. Cardinality(S) # 0
  BY <1>2, <1>3, FS_EmptySet
<1>5. states[o].holders # 0
  BY <1>1, <1>4 DEF HolderInv, CountsMatchOwners
<1>6. states[o].known
  BY <1>1, <1>5 DEF HolderInv, Fresh, NoEntry
<1>7. QED
  BY <1>1, <1>5, <1>6 DEF HolderInv, Exact, Empty

\* A response that could not be closed: the entry and the process remember it.
LEMMA PoisonInv ==
  ASSUME HolderInv, NEW u \in Users, Poison(u)
  PROVE  HolderInv'
<1> DEFINE o == user[u].obj
           e == [states[o] EXCEPT !.poisoned = TRUE]
           n == [user[u] EXCEPT !.at = "spoiled"]
<1>1. /\ user[u].at \in Counted /\ "spoiled" \in Places /\ "spoiled" \in Counted
      /\ user' = Moved(u, "spoiled") /\ closer' = closer
  BY DEF Poison, Places, Counted, Holding
<1>2. /\ states' = [states EXCEPT ![o] = e]
      /\ process' = [process EXCEPT !.poisoned = TRUE]
      /\ spoiled' = spoiled \union {o}
  BY DEF Poison
<1>3. /\ user' = [user EXCEPT ![u] = n] /\ user[u] \in UserRecord /\ n \in UserRecord
      /\ n.at = "spoiled" /\ n.kind = user[u].kind /\ n.obj = o
  BY <1>1, Placed
<1>4. /\ o \in Objects /\ states[o] \in StateRecord
      /\ states[o].holders # 0 /\ states[o].known /\ states[o].drained = 0 /\ ~Empty(o)
  BY <1>1, CountedEntry
<1>5. /\ e \in [known : BOOLEAN, closed : BOOLEAN, poisoned : BOOLEAN, holders : Int, drained : Nat]
      /\ e.known /\ e.poisoned /\ e.holders = states[o].holders /\ e.drained = 0
  BY <1>4, PoisonedEntry DEF StateRecord
<1> HIDE DEF e, n
<1>6. Holds(user[u], o) /\ Holds(n, o) /\ \A p \in Objects : Holds(user[u], p) \/ Holds(n, p) => p = o
  BY <1>1, <1>3 DEF Holds
<1>7. Weight(n) = Weight(user[u]) /\ Weight(n) \in Nat
  BY <1>1, <1>3 DEF Weight, One, Counted, Holding
<1> HIDE DEF o
<1>8. /\ process' \in [closed : BOOLEAN, poisoned : BOOLEAN, holders : Int, drained : Nat]
      /\ process'.holders = process.holders /\ process'.drained = process.drained
      /\ process'.poisoned
  BY <1>2, PoisonedProcess DEF HolderInv, TypeOK
<1>9. MoveCounts(u, n, o, e)
  BY <1>5, <1>6, <1>7, <1>8 DEF MoveCounts, One
<1>10. MoveEntry(o, e)
  BY <1>4, <1>5 DEF MoveEntry
<1>11. MovePlace(n, o, e)
  BY <1>3 DEF MovePlace, Ticketed
<1>12. MoveProcess(o, e)
  BY <1>2, <1>4, <1>5, <1>8 DEF MoveProcess, HolderInv, TypeOK, Exact
<1>13. QED
  BY <1>1, <1>2, <1>3, <1>4, <1>9, <1>10, <1>11, <1>12, UserStep

\* The process's counter becomes k; its channel is closed at most once.
LEMMA ProcessAfterFacts ==
  ASSUME NEW p \in [closed : BOOLEAN, poisoned : BOOLEAN, holders : Nat, drained : Nat],
         NEW k \in Int, p.drained \in {0, 1}
  PROVE  LET q == ProcessAfter(p, k)
         IN /\ q \in [closed : BOOLEAN, poisoned : BOOLEAN, holders : Int, drained : Nat]
            /\ q.holders = k /\ q.closed = p.closed /\ q.poisoned = p.poisoned
            /\ q.drained \in {0, 1}
<1> DEFINE d == IF p.closed /\ k = 0 /\ p.drained = 0 THEN 1 ELSE p.drained
<1>1. d \in {0, 1}
  OBVIOUS
<1>2. ProcessAfter(p, k) = [p EXCEPT !.holders = k, !.drained = d]
  BY DEF ProcessAfter
<1> HIDE DEF d
<1>3. PICK q : q = [p EXCEPT !.holders = k, !.drained = d]
  OBVIOUS
<1>4. q = [closed |-> p.closed, poisoned |-> p.poisoned, holders |-> k, drained |-> d]
  BY <1>3
<1>5. q \in [closed : BOOLEAN, poisoned : BOOLEAN, holders : Int, drained : Nat]
  BY <1>1, <1>4
<1>6. q.holders = k /\ q.drained = d /\ q.closed = p.closed /\ q.poisoned = p.poisoned
  BY <1>4
<1>7. ProcessAfter(p, k) = q
  BY <1>2, <1>3
<1>8. QED
  BY <1>1, <1>5, <1>6, <1>7

\* The last release ends the drain of a denied object, and forgets an open one
\* only when nothing of it was left behind.
LEMMA DropHolderInv ==
  ASSUME HolderInv, NEW u \in Users, DropHolder(u)
  PROVE  HolderInv'
<1> DEFINE o == user[u].obj
           e0 == states[o]
           left == e0.holders - 1
           e == IF left = 0 /\ ~e0.closed /\ ~e0.poisoned THEN NoEntry
                ELSE [e0 EXCEPT !.holders = left,
                                !.drained = IF left = 0 /\ e0.closed THEN @ + 1 ELSE @]
           n == IF user[u].kind = "native" THEN Idle ELSE [user[u] EXCEPT !.at = "dropped"]
<1>1. /\ user[u].at = "released" /\ closer' = closer /\ spoiled' = spoiled
      /\ states' = [states EXCEPT ![o] = e]
      /\ process' = ProcessAfter(process, process.holders - 1)
  BY DEF DropHolder, Dropped
<1>2. user' = IF user[u].kind = "native" THEN Freed(u) ELSE Moved(u, "dropped")
  BY DEF DropHolder, Dropped
<1>3. /\ o \in Objects /\ e0 \in StateRecord
      /\ e0.holders # 0 /\ e0.known /\ e0.drained = 0 /\ ~Empty(o)
  BY <1>1, CountedEntry DEF Counted
<1>4. user[u] \in UserRecord /\ "dropped" \in Places
  BY DEF HolderInv, TypeOK, UserRecord, Places, Ticketed
<1>5. /\ user' = [user EXCEPT ![u] = n] /\ n \in UserRecord
      /\ user[u].kind = "native" => n.at = "free" /\ n.kind = "native"
      /\ user[u].kind = "finite" => n.at = "dropped" /\ n.kind = "finite"
  <2>1. CASE user[u].kind = "native"
    BY <1>2, <2>1, Gone
  <2>2. CASE user[u].kind # "native"
    BY <1>2, <1>4, <2>2, Placed
  <2>3. QED
    BY <2>1, <2>2
<1>6. left \in Nat
  BY <1>3 DEF StateRecord
<1>7. /\ e \in [known : BOOLEAN, closed : BOOLEAN, poisoned : BOOLEAN, holders : Int, drained : Nat]
      /\ e.holders = left /\ e.closed = e0.closed /\ (e0.poisoned => e.poisoned)
      /\ ~e.known => e = NoEntry
      /\ e.drained = (IF e.closed /\ e.holders = 0 THEN 1 ELSE 0)
  <2>1. CASE left = 0 /\ ~e0.closed /\ ~e0.poisoned
    <3>1. e = NoEntry /\ e0.closed = FALSE
      BY <1>3, <2>1 DEF StateRecord
    <3>2. NoEntry.holders = 0 /\ NoEntry.drained = 0 /\ NoEntry.closed = FALSE
      BY DEF NoEntry
    <3>3. NoEntry \in [known : BOOLEAN, closed : BOOLEAN, poisoned : BOOLEAN, holders : Int, drained : Nat]
      BY DEF NoEntry
    <3>4. QED
      BY <2>1, <3>1, <3>2, <3>3
  <2>2. CASE ~(left = 0 /\ ~e0.closed /\ ~e0.poisoned)
    <3> DEFINE d == IF left = 0 /\ e0.closed THEN 1 ELSE 0
    <3>1. d \in Nat /\ (IF left = 0 /\ e0.closed THEN e0.drained + 1 ELSE e0.drained) = d
      BY <1>3
    <3>2. e = [e0 EXCEPT !.holders = left, !.drained = d]
      BY <2>2, <3>1
    <3> HIDE DEF left, e0, e, d
    <3>3. e = [known |-> e0.known, closed |-> e0.closed, poisoned |-> e0.poisoned,
               holders |-> left, drained |-> d]
      BY <1>3, <3>2 DEF StateRecord
    <3>4. /\ e.known = e0.known /\ e.closed = e0.closed /\ e.poisoned = e0.poisoned
          /\ e.holders = left /\ e.drained = d
      BY <3>3
    <3>5. e \in [known : BOOLEAN, closed : BOOLEAN, poisoned : BOOLEAN, holders : Int, drained : Nat]
      BY <1>3, <1>6, <3>1, <3>3 DEF StateRecord
    <3>6. QED
      BY <1>3, <3>4, <3>5 DEF d
  <2>3. QED
    BY <2>1, <2>2
<1> HIDE DEF e, n
<1>8. /\ Holds(user[u], o) /\ ~Holds(n, o)
      /\ \A p \in Objects : Holds(user[u], p) \/ Holds(n, p) => p = o
  BY <1>1, <1>4, <1>5 DEF Holds, Counted, Holding, UserRecord
<1>9. Weight(n) \in Nat /\ Weight(user[u]) = Weight(n) + 1
  BY <1>1, <1>4, <1>5 DEF Weight, One, Counted, Holding, UserRecord
<1>10. /\ process \in [closed : BOOLEAN, poisoned : BOOLEAN, holders : Nat, drained : Nat]
       /\ process.drained \in {0, 1}
  BY DEF HolderInv, TypeOK, Exact
<1>11. process.holders - 1 \in Int
  BY <1>10
<1>12. /\ process' \in [closed : BOOLEAN, poisoned : BOOLEAN, holders : Int, drained : Nat]
       /\ process'.holders = process.holders - 1 /\ process'.poisoned = process.poisoned
       /\ process'.drained \in {0, 1}
  BY <1>1, <1>10, <1>11, ProcessAfterFacts
<1>13. MoveCounts(u, n, o, e)
  <2>1. e.holders + One(Holds(user[u], o)) = states[o].holders + One(Holds(n, o))
    BY <1>3, <1>7, <1>8 DEF One, StateRecord
  <2>2. process'.holders + Weight(user[u]) = process.holders + Weight(n)
    BY <1>9, <1>10, <1>12
  <2>3. QED
    BY <1>8, <2>1, <2>2 DEF MoveCounts
<1>14. MoveEntry(o, e)
  BY <1>3, <1>7 DEF MoveEntry
<1>15. MovePlace(n, o, e)
  BY <1>4, <1>5 DEF MovePlace, UserRecord, Ticketed
<1>16. MoveProcess(o, e)
  BY <1>1, <1>7, <1>12 DEF MoveProcess, HolderInv, TypeOK, Remembered
<1>17. QED
  BY <1>1, <1>3, <1>5, <1>13, <1>14, <1>15, <1>16, UserStep

LEMMA ReleaseTicketInv ==
  ASSUME HolderInv, NEW u \in Users, ReleaseTicket(u)
  PROVE  HolderInv'
<1>1. /\ user[u].at \in Ticketed /\ user' = Freed(u)
      /\ process' = ProcessAfter(process, process.holders - 1)
      /\ UNCHANGED <<states, closer, spoiled>>
  BY DEF ReleaseTicket
<1>2. /\ user' = [user EXCEPT ![u] = Idle] /\ Idle \in UserRecord
      /\ Idle.at = "free" /\ Weight(Idle) = 0
  BY <1>1, Gone
<1>3. user[u].kind = "finite" /\ user[u].at \notin Counted /\ user[u].at # "free"
  BY <1>1 DEF HolderInv, Tickets, Ticketed, Counted, Holding
<1>4. Weight(user[u]) = 1 /\ Idle.at \notin Counted \cup Ticketed
  BY <1>2, <1>3 DEF Weight, One, Counted, Holding, Ticketed
<1>5. /\ process \in [closed : BOOLEAN, poisoned : BOOLEAN, holders : Nat, drained : Nat]
      /\ process.drained \in {0, 1} /\ process.holders - 1 \in Int
  BY DEF HolderInv, TypeOK, Exact
<1>6. /\ process' \in [closed : BOOLEAN, poisoned : BOOLEAN, holders : Int, drained : Nat]
      /\ process'.holders = process.holders - 1 /\ process'.poisoned = process.poisoned
      /\ process'.drained \in {0, 1}
  BY <1>1, <1>5, ProcessAfterFacts
<1>7. process'.holders + Weight(user[u]) = process.holders + Weight(Idle)
  BY <1>2, <1>4, <1>5, <1>6
<1>8. "exclusive" \in Ticketed
  BY DEF Ticketed
<1>9. QED
  BY <1>1, <1>2, <1>3, <1>4, <1>6, <1>7, <1>8, MoveInv

-----------------------------------------------------------------------------
(* Closers.                                                                *)

\* A denied entry: its channel is closed at once when nobody holds it.
LEMMA ShutFacts ==
  ASSUME HolderInv, NEW o \in Objects
  PROVE  LET e == Shut(o)
         IN /\ e \in StateRecord /\ e.known /\ e.closed /\ e.poisoned = states[o].poisoned
            /\ e.holders = states[o].holders
            /\ e.drained = IF states[o].holders = 0 THEN 1 ELSE 0
<1> DEFINE E == Entry(o)
           b == TRUE
           d == IF states[o].holders = 0 THEN 1 ELSE 0
<1>1. /\ E \in StateRecord /\ states[o] \in StateRecord /\ E.known
      /\ E.closed = states[o].closed /\ E.poisoned = states[o].poisoned
      /\ E.holders = states[o].holders /\ E.drained = states[o].drained
  BY EntryFacts
<1>2. (IF ~states[o].closed /\ states[o].holders = 0 THEN E.drained + 1 ELSE E.drained) = d
  BY <1>1 DEF HolderInv, Exact, Empty
<1>3. Shut(o) = [E EXCEPT !.closed = b, !.drained = d]
  BY <1>2 DEF Shut
<1>4. b \in BOOLEAN /\ d \in Nat
  OBVIOUS
<1> HIDE DEF E, b, d
<1>5. PICK e : e = [E EXCEPT !.closed = b, !.drained = d]
  OBVIOUS
<1>6. e = [known |-> E.known, closed |-> b, poisoned |-> E.poisoned, holders |-> E.holders,
           drained |-> d]
  BY <1>1, <1>5 DEF StateRecord
<1>7. e \in StateRecord
  BY <1>1, <1>4, <1>6 DEF StateRecord
<1>8. /\ e.known = E.known /\ e.closed = b /\ e.poisoned = E.poisoned /\ e.holders = E.holders
      /\ e.drained = d
  BY <1>6
<1>9. e.closed
  BY <1>8 DEF b
<1>10. Shut(o) = e
  BY <1>3, <1>5
<1>11. QED
  BY <1>1, <1>7, <1>8, <1>9, <1>10 DEF d

\* A step that changes entries and closers only, and ends no drain.
LEMMA TableStep ==
  ASSUME HolderInv, UNCHANGED <<user, spoiled>>,
         states' \in [Objects -> StateRecord],
         closer' \in [Closers -> [at : {"idle", "waiting", "drained", "failed"}, obj : Objects]],
         process' \in [closed : BOOLEAN, poisoned : BOOLEAN, holders : Nat, drained : Nat],
         process'.holders = process.holders, process'.poisoned = process.poisoned,
         process'.drained \in {0, 1},
         \A o \in Objects :
           /\ states'[o].holders = states[o].holders /\ states'[o].poisoned = states[o].poisoned
           /\ ~states'[o].known => states'[o] = NoEntry
           /\ states'[o].drained = IF states'[o].closed /\ states'[o].holders = 0 THEN 1 ELSE 0
           /\ states[o].closed => states'[o].closed,
         \A c \in Closers : closer'[c].at = "drained" => Empty(closer'[c].obj)
  PROVE  HolderInv'
<1>1. TypeOK'
  BY DEF HolderInv, TypeOK, StateRecord
<1>2. CountsMatchOwners'
  <2>1. \A o \in Objects : OnObject(o, Counted)' = OnObject(o, Counted)
    BY DEF OnObject
  <2>2. CountedUsers' = CountedUsers /\ FiniteUsers' = FiniteUsers
    BY DEF CountedUsers, FiniteUsers
  <2>3. \A o \in Objects : states'[o].holders = Cardinality(OnObject(o, Counted)')
    BY <2>1 DEF HolderInv, CountsMatchOwners
  <2>4. process'.holders = Cardinality(CountedUsers') + Cardinality(FiniteUsers')
    BY <2>2 DEF HolderInv, CountsMatchOwners, CountedUsers, FiniteUsers
  <2>5. QED
    BY <2>3, <2>4 DEF CountsMatchOwners, CountedUsers, FiniteUsers
<1>3. Fresh' /\ Exact'
  BY DEF Fresh, Exact, Empty
<1>4. Told'
  <2>1. \A c \in Closers : closer'[c].obj \in Objects
    OBVIOUS
  <2>2. \A u \in Users : user[u].obj \in Objects
    BY DEF HolderInv, TypeOK
  <2>3. \A o \in Objects : Empty(o) => states'[o].closed /\ states'[o].holders = 0
    BY DEF Empty
  <2>4. QED
    BY <2>1, <2>2, <2>3 DEF HolderInv, Told, Empty
<1>5. Tickets'
  BY DEF HolderInv, Tickets
<1>6. Remembered'
  BY DEF HolderInv, Remembered, TypeOK
<1>7. QED
  BY <1>1, <1>2, <1>3, <1>4, <1>5, <1>6 DEF HolderInv

\* What the table keeps, whether or not an entry is shut.
LEMMA ShutTable ==
  ASSUME HolderInv, NEW o \in Objects,
         states' = states \/ states' = [states EXCEPT ![o] = Shut(o)]
  PROVE  /\ states' \in [Objects -> StateRecord]
         /\ \A p \in Objects :
              /\ states'[p].holders = states[p].holders /\ states'[p].poisoned = states[p].poisoned
              /\ ~states'[p].known => states'[p] = NoEntry
              /\ states'[p].drained = IF states'[p].closed /\ states'[p].holders = 0 THEN 1 ELSE 0
              /\ states[p].closed => states'[p].closed
<1>1. states \in [Objects -> StateRecord]
  BY DEF HolderInv, TypeOK, StateRecord
<1>2. \A p \in Objects :
        /\ ~states[p].known => states[p] = NoEntry
        /\ states[p].drained = IF states[p].closed /\ states[p].holders = 0 THEN 1 ELSE 0
  BY DEF HolderInv, Fresh, Exact, Empty
<1>3. CASE states' = states
  BY <1>1, <1>2, <1>3
<1>4. CASE states' = [states EXCEPT ![o] = Shut(o)]
  <2>1. /\ Shut(o) \in StateRecord /\ Shut(o).known /\ Shut(o).closed
        /\ Shut(o).poisoned = states[o].poisoned /\ Shut(o).holders = states[o].holders
        /\ Shut(o).drained = IF states[o].holders = 0 THEN 1 ELSE 0
    BY ShutFacts
  <2>2. states'[o] = Shut(o) /\ \A p \in Objects \ {o} : states'[p] = states[p]
    BY <1>1, <1>4
  <2>3. states' \in [Objects -> StateRecord]
    BY <1>1, <1>4, <2>1
  <2>4. ASSUME NEW p \in Objects
        PROVE  /\ states'[p].holders = states[p].holders /\ states'[p].poisoned = states[p].poisoned
               /\ ~states'[p].known => states'[p] = NoEntry
               /\ states'[p].drained = IF states'[p].closed /\ states'[p].holders = 0 THEN 1 ELSE 0
               /\ states[p].closed => states'[p].closed
    <3>1. CASE p = o
      BY <2>1, <2>2, <3>1
    <3>2. CASE p # o
      BY <1>2, <2>2, <3>2
    <3>3. QED
      BY <3>1, <3>2
  <2>5. QED
    BY <2>3, <2>4
<1>5. QED
  BY <1>3, <1>4

\* Denials and waits: only a drain that took place is told.
LEMMA CloserInv ==
  ASSUME HolderInv,
         \/ \E o \in Objects : CloseOnly(o)
         \/ \E c \in Closers : \/ \E o \in Objects : CloseAndWait(c, o)
                               \/ WaitOver(c) \/ WaitCancelled(c)
  PROVE  HolderInv'
<1> DEFINE C == [at : {"idle", "waiting", "drained", "failed"}, obj : Objects]
<1>1. /\ process \in [closed : BOOLEAN, poisoned : BOOLEAN, holders : Nat, drained : Nat]
      /\ process.drained \in {0, 1} /\ closer \in [Closers -> C]
      /\ \A c \in Closers : closer[c].at = "drained" => Empty(closer[c].obj)
  BY DEF HolderInv, TypeOK, Exact, Told
<1>2. UNCHANGED <<user, spoiled, process>>
  BY DEF CloseOnly, CloseAndWait, WaitOver, WaitCancelled
<1>3. PICK o \in Objects : states' = states \/ states' = [states EXCEPT ![o] = Shut(o)]
  <2>1. CASE \E o \in Objects : CloseOnly(o)
    BY <2>1 DEF CloseOnly
  <2>2. CASE \E c \in Closers, o \in Objects : CloseAndWait(c, o)
    BY <2>2 DEF CloseAndWait
  <2>3. CASE \E c \in Closers : WaitOver(c) \/ WaitCancelled(c)
    BY <2>3, HolderAssumption DEF WaitOver, WaitCancelled
  <2>4. QED
    BY <2>1, <2>2, <2>3
<1>4. /\ closer' \in [Closers -> C]
      /\ \A c \in Closers : closer'[c].at = "drained" => Empty(closer'[c].obj)
  <2>1. CASE \E p \in Objects : CloseOnly(p)
    BY <1>1, <2>1 DEF CloseOnly
  <2>2. ASSUME NEW c \in Closers, NEW p \in Objects, CloseAndWait(c, p)
        PROVE  <1>4!:
    <3>1. PICK at \in {"waiting", "failed"} :
            closer' = [closer EXCEPT ![c] = [at |-> at, obj |-> p]]
      BY <2>2 DEF CloseAndWait
    <3>2. [at |-> at, obj |-> p] \in C
      OBVIOUS
    <3>3. QED
      BY <1>1, <3>1, <3>2
  <2>3. ASSUME NEW c \in Closers, WaitOver(c) \/ WaitCancelled(c)
        PROVE  <1>4!:
    <3>1. PICK at \in {"drained", "failed"} :
            /\ closer' = [closer EXCEPT ![c].at = at]
            /\ at = "drained" => states[closer[c].obj].drained > 0
      BY <2>3 DEF WaitOver, WaitCancelled
    <3>2. closer[c] \in C /\ closer[c].obj \in Objects
      BY <1>1
    <3>3. at = "drained" => Empty(closer[c].obj)
      BY <3>1, <3>2 DEF HolderInv, Exact
    <3>4. /\ closer'[c].obj = closer[c].obj /\ closer'[c].at = at /\ closer'[c] \in C
          /\ \A d \in Closers \ {c} : closer'[d] = closer[d]
      BY <1>1, <3>1, <3>2
    <3>5. closer' \in [Closers -> C]
      BY <1>1, <3>1, <3>2
    <3>6. QED
      BY <1>1, <3>3, <3>4, <3>5
  <2>4. QED
    BY <2>1, <2>2, <2>3
<1>5. /\ states' \in [Objects -> StateRecord]
      /\ \A p \in Objects :
           /\ states'[p].holders = states[p].holders /\ states'[p].poisoned = states[p].poisoned
           /\ ~states'[p].known => states'[p] = NoEntry
           /\ states'[p].drained = IF states'[p].closed /\ states'[p].holders = 0 THEN 1 ELSE 0
           /\ states[p].closed => states'[p].closed
  BY <1>3, ShutTable
<1>6. QED
  BY <1>1, <1>2, <1>4, <1>5, TableStep

LEMMA CloseProcessInv ==
  ASSUME HolderInv, CloseProcessAdmission
  PROVE  HolderInv'
<1> DEFINE b == TRUE
<1>1. /\ process \in [closed : BOOLEAN, poisoned : BOOLEAN, holders : Nat, drained : Nat]
      /\ process.drained \in {0, 1} /\ b \in BOOLEAN
  BY DEF HolderInv, TypeOK, Exact
<1>2. process' = ProcessAfter([process EXCEPT !.closed = b], process.holders)
      /\ UNCHANGED <<states, user, closer, spoiled>>
  BY DEF CloseProcessAdmission
<1> HIDE DEF b
<1>3. PICK p : p = [process EXCEPT !.closed = b]
  OBVIOUS
<1>4. /\ p \in [closed : BOOLEAN, poisoned : BOOLEAN, holders : Nat, drained : Nat]
      /\ p.drained = process.drained /\ p.poisoned = process.poisoned
  BY <1>1, <1>3
<1>5. process.holders \in Nat /\ process.holders \in Int
  BY <1>1
<1>6. /\ process' \in [closed : BOOLEAN, poisoned : BOOLEAN, holders : Int, drained : Nat]
      /\ process'.holders = process.holders /\ process'.poisoned = process.poisoned
      /\ process'.drained \in {0, 1}
  BY <1>1, <1>2, <1>3, <1>4, <1>5, ProcessAfterFacts
<1>7. process' \in [closed : BOOLEAN, poisoned : BOOLEAN, holders : Nat, drained : Nat]
  BY <1>5, <1>6
<1>8. PICK o \in Objects : states' = states \/ states' = [states EXCEPT ![o] = Shut(o)]
  BY <1>2, HolderAssumption
<1>9. /\ states' \in [Objects -> StateRecord]
      /\ \A p2 \in Objects :
           /\ states'[p2].holders = states[p2].holders /\ states'[p2].poisoned = states[p2].poisoned
           /\ ~states'[p2].known => states'[p2] = NoEntry
           /\ states'[p2].drained = IF states'[p2].closed /\ states'[p2].holders = 0 THEN 1 ELSE 0
           /\ states[p2].closed => states'[p2].closed
  BY <1>8, ShutTable
<1>10. /\ closer' \in [Closers -> [at : {"idle", "waiting", "drained", "failed"}, obj : Objects]]
       /\ \A c \in Closers : closer'[c].at = "drained" => Empty(closer'[c].obj)
  BY <1>2 DEF HolderInv, TypeOK, Told
<1>11. QED
  BY <1>2, <1>6, <1>7, <1>9, <1>10, TableStep

-----------------------------------------------------------------------------
(* Every step.                                                             *)

LEMMA HolderStepInv ==
  ASSUME HolderInv, [Next]_vars
  PROVE  HolderInv'
<1>1. ASSUME NEW u \in Users, Step(u)
      PROVE  HolderInv'
  <2>1. ASSUME NEW o \in Objects, Acquire(u, o) \/ ProcessAcquire(u, o)
        PROVE  HolderInv'
    BY <2>1, AcquireInv, ProcessAcquireInv
  <2>2. CASE FiniteAcquire(u) \/ Poison(u) \/ DropHolder(u) \/ ReleaseTicket(u)
    BY <2>2, FiniteAcquireInv, PoisonInv, DropHolderInv, ReleaseTicketInv
  <2>3. CASE \/ FiniteExclusive(u) \/ AdmitUse(u) \/ Observe(u) \/ PoisonTicket(u) \/ MarkReleased(u)
    BY <2>3, PlaceInv
  <2>4. QED
    BY <1>1, <2>1, <2>2, <2>3 DEF Step
<1>2. CASE UNCHANGED vars
  BY <1>2 DEF vars, HolderInv, TypeOK, CountsMatchOwners, OnObject, Fresh, Exact, Empty, Told,
              Tickets, Remembered
<1>3. QED
  BY <1>1, <1>2, CloserInv, CloseProcessInv DEF Next

\* The inductive invariant, for every set of objects and closers, every finite
\* number of users and every capacity.
THEOREM HolderInvariance == Spec => []HolderInv
BY HolderInitInv, HolderStepInv, PTL DEF Spec

\* For every number of objects, users and closers: a drain is real.  The counters
\* are the owners, whoever was told of a drain is alone, no channel is closed
\* twice and an open response is never forgotten (acquire, release, closeAndWait).
THEOREM DrainIsRealAlways == Spec => []DrainIsReal
<1>1. HolderInv => DrainIsReal
  <2> SUFFICES ASSUME HolderInv PROVE DrainIsReal
    OBVIOUS
  <2>1. DrainedOnce
    BY DEF HolderInv, Exact, DrainedOnce
  <2>2. ASSUME NEW o \in Objects, Empty(o)
        PROVE  OnObject(o, Counted) = {}
    <3>1. IsFiniteSet(OnObject(o, Counted))
      BY HolderAssumption, FS_Subset DEF OnObject
    <3>2. Cardinality(OnObject(o, Counted)) = 0
      BY <2>2 DEF HolderInv, CountsMatchOwners, Empty
    <3>3. QED
      BY <3>1, <3>2, FS_EmptySet
  <2>3. DrainedIsQuiet
    BY <2>2 DEF HolderInv, TypeOK, Told, DrainedIsQuiet
  <2>4. PoisonIsNotDrain
    BY DEF HolderInv, Remembered, PoisonIsNotDrain, Joined, ProcessJoined
  <2>5. QED
    BY <2>1, <2>3, <2>4 DEF HolderInv, DrainIsReal
<1>2. QED
  BY HolderInvariance, <1>1, PTL

-----------------------------------------------------------------------------
(* The registry implements its gate.                                       *)

\* The gate as the registry shows it.
Uses == {<<u, user[u].obj>> : u \in {v \in Users : user[v].at \in Holding}}
Denied == {o \in Objects : states[o].closed}
Drains == {o \in Objects : Joined(o)}

\* Who is in the gate after one user moved.
LEMMA UsesAfter ==
  ASSUME HolderInv, NEW u \in Users, NEW n, user' = [user EXCEPT ![u] = n]
  PROVE  /\ n.at \in Holding /\ user[u].at \notin Holding => Uses' = Uses \cup {<<u, n.obj>>}
         /\ n.at \notin Holding /\ user[u].at \in Holding =>
              <<u, user[u].obj>> \in Uses /\ Uses' = Uses \ {<<u, user[u].obj>>}
         /\ n.at \notin Holding /\ user[u].at \notin Holding => Uses' = Uses
         /\ n.at \in Holding /\ user[u].at \in Holding /\ n.obj = user[u].obj =>
              <<u, user[u].obj>> \in Uses /\ Uses' = Uses
<1>1. user'[u] = n /\ \A v \in Users \ {u} : user'[v] = user[v]
  BY DEF HolderInv, TypeOK
<1> DEFINE Others == {<<v, user[v].obj>> : v \in {w \in Users \ {u} : user[w].at \in Holding}}
<1>2. /\ user[u].at \in Holding => Uses = Others \cup {<<u, user[u].obj>>}
      /\ user[u].at \notin Holding => Uses = Others
      /\ <<u, user[u].obj>> \notin Others
  BY DEF Uses
<1>3. /\ n.at \in Holding => Uses' = Others \cup {<<u, n.obj>>}
      /\ n.at \notin Holding => Uses' = Others
  BY <1>1 DEF Uses
<1> HIDE DEF Others
<1>4. QED
  BY <1>2, <1>3

\* What is denied and drained after one entry changed.
LEMMA TableAfter ==
  ASSUME HolderInv, NEW o \in Objects, NEW e, states' = [states EXCEPT ![o] = e]
  PROVE  /\ Denied' = IF e.closed THEN Denied \cup {o} ELSE Denied \ {o}
         /\ Drains' = IF e.closed /\ e.holders = 0 /\ ~e.poisoned THEN Drains \cup {o}
                      ELSE Drains \ {o}
<1>1. states'[o] = e /\ \A p \in Objects \ {o} : states'[p] = states[p]
  BY DEF HolderInv, TypeOK
<1>2. QED
  BY <1>1 DEF Denied, Drains, Joined

\* Nobody is in the gate of an object without counted users but a released one.
LEMMA NobodyUses ==
  ASSUME HolderInv, NEW o \in Objects, NEW u,
         \/ states[o].holders = 0
         \/ states[o].holders = 1 /\ u \in Users /\ user[u].obj = o /\ user[u].at = "released"
  PROVE  \A v \in Users : <<v, o>> \notin Uses
<1> DEFINE S == OnObject(o, Counted)
<1>1. S \subseteq Users /\ IsFiniteSet(S) /\ states[o].holders = Cardinality(S)
  BY HolderAssumption, FS_Subset DEF OnObject, HolderInv, CountsMatchOwners
<1>2. \A v \in S : v = u /\ user[u].at = "released"
  <2>1. CASE states[o].holders = 0
    <3>1. S = {}
      BY <1>1, <2>1, FS_EmptySet
    <3>2. QED
      BY <3>1
  <2>2. CASE states[o].holders = 1 /\ u \in Users /\ user[u].obj = o /\ user[u].at = "released"
    <3>1. \E x : S = {x}
      BY <1>1, <2>2, FS_Singleton
    <3>2. u \in S
      BY <2>2 DEF OnObject, Counted
    <3>3. QED
      BY <2>2, <3>1, <3>2
  <2>3. QED
    BY <2>1, <2>2
<1>3. \A v \in Users : user[v].at \in Holding /\ user[v].obj = o => v \in S
  BY DEF OnObject, Counted
<1>4. QED
  BY <1>2, <1>3 DEF Uses, Holding

\* The steps of a user, in the gate.
LEMMA TakeEnters ==
  ASSUME HolderInv, NEW u \in Users, NEW o \in Objects, NEW n,
         user[u].at \notin Holding, n.at = "held", n.obj = o, ~states[o].closed,
         states' = [states EXCEPT ![o] = [Entry(o) EXCEPT !.holders = @ + 1]],
         user' = [user EXCEPT ![u] = n], spoiled' = spoiled
  PROVE  Gate!Enter(u, o)
<1> DEFINE e == [Entry(o) EXCEPT !.holders = @ + 1]
<1>1. Entry(o) \in StateRecord /\ ~Entry(o).closed
  BY EntryFacts
<1>2. ~e.closed
  BY <1>1 DEF StateRecord
<1>3. Denied' = Denied \ {o} /\ Drains' = Drains \ {o}
  BY <1>2, TableAfter
<1>4. o \notin Denied /\ o \notin Drains
  BY DEF Denied, Drains, Joined
<1>5. Uses' = Uses \cup {<<u, o>>}
  BY UsesAfter DEF Holding
<1>6. QED
  BY <1>3, <1>4, <1>5 DEF Gate!Enter, Uses, Denied, Drains

LEMMA HolderGate ==
  ASSUME HolderInv, NEW u \in Users, Step(u)
  PROVE  \/ \E o \in Objects : Gate!Enter(u, o) \/ Gate!Leave(u, o) \/ Gate!Spoil(u, o)
         \/ \E o \in Objects : Gate!Drain(o)
         \/ UNCHANGED <<Uses, Denied, spoiled, Drains>>
<1> DEFINE Shown == \/ \E o \in Objects : Gate!Enter(u, o) \/ Gate!Leave(u, o) \/ Gate!Spoil(u, o)
                    \/ \E o \in Objects : Gate!Drain(o)
                    \/ UNCHANGED <<Uses, Denied, spoiled, Drains>>
<1>1. user[u] \in UserRecord /\ user[u].obj \in Objects
  BY DEF HolderInv, TypeOK, UserRecord
<1>2. ASSUME NEW o \in Objects, Acquire(u, o)
      PROVE  Shown
  <2> DEFINE n == [at |-> "held", kind |-> "native", obj |-> o]
  <2>1. n.at = "held" /\ n.obj = o /\ user[u].at \notin Holding /\ user' = [user EXCEPT ![u] = n]
    BY <1>2 DEF Acquire, Holding
  <2> HIDE DEF n
  <2>2. Gate!Enter(u, o)
    BY <1>2, <2>1, TakeEnters DEF Acquire
  <2>3. QED
    BY <2>2
<1>3. CASE UNCHANGED <<states, spoiled>> /\ Uses' = Uses
  BY <1>3 DEF Denied, Drains, Joined
<1>4. ASSUME NEW n, user' = [user EXCEPT ![u] = n], UNCHANGED <<states, spoiled>>,
             n.at \in Holding => user[u].at \in Holding /\ n.obj = user[u].obj
      PROVE  Shown
  <2>1. CASE n.at \in Holding \/ user[u].at \notin Holding
    BY <1>3, <1>4, <2>1, UsesAfter
  <2>2. CASE n.at \notin Holding /\ user[u].at \in Holding
    <3>1. <<u, user[u].obj>> \in Uses /\ Uses' = Uses \ {<<u, user[u].obj>>}
      BY <1>4, <2>2, UsesAfter
    <3>2. Denied' = Denied /\ Drains' = Drains /\ spoiled' = spoiled
      BY <1>4 DEF Denied, Drains, Joined
    <3>3. PICK o \in Objects : o = user[u].obj
      BY <1>1
    <3>4. Gate!Leave(u, o)
      BY <3>1, <3>2, <3>3 DEF Gate!Leave, Uses, Denied, Drains
    <3>5. QED
      BY <3>4
  <2>3. QED
    BY <2>1, <2>2
<1>5. ASSUME NEW place \in Places, user' = Moved(u, place), UNCHANGED <<states, spoiled>>,
             place \in Holding => user[u].at \in Holding
      PROVE  Shown
  <2> DEFINE n == [user[u] EXCEPT !.at = place]
  <2>1. user' = [user EXCEPT ![u] = n] /\ n.at = place /\ n.obj = user[u].obj
    BY <1>5, Placed
  <2> HIDE DEF n
  <2>2. QED
    BY <1>4, <1>5, <2>1
<1>6. CASE FiniteAcquire(u)
  <2>1. PICK o \in Objects : o = user[u].obj
    BY <1>1
  <2>2. user[u].at = "ticket" /\ user[u].at \notin Holding /\ spoiled' = spoiled
        /\ "held" \in Places /\ "dropped" \in Places /\ "dropped" \notin Holding
    BY <1>6 DEF FiniteAcquire, Places, Counted, Holding, Ticketed
  <2>3. CASE ~process.closed /\ HasRoom(o) /\ ~states[o].closed
    <3> DEFINE n == [user[u] EXCEPT !.at = "held"]
    <3>1. /\ states' = [states EXCEPT ![o] = [Entry(o) EXCEPT !.holders = @ + 1]]
          /\ user' = Moved(u, "held")
      BY <1>6, <2>1, <2>3 DEF FiniteAcquire
    <3>2. user' = [user EXCEPT ![u] = n] /\ n.at = "held" /\ n.obj = o
      BY <2>1, <2>2, <3>1, Placed
    <3> HIDE DEF n
    <3>3. Gate!Enter(u, o)
      BY <2>2, <2>3, <3>1, <3>2, TakeEnters
    <3>4. QED
      BY <3>3
  <2>4. CASE ~(~process.closed /\ HasRoom(o) /\ ~states[o].closed)
    <3>1. user' = Moved(u, "dropped") /\ UNCHANGED <<states, spoiled>>
      BY <1>6, <2>1, <2>4 DEF FiniteAcquire
    <3>2. QED
      BY <1>5, <2>2, <3>1
  <2>5. QED
    BY <2>3, <2>4
<1>7. ASSUME NEW o \in Objects, ProcessAcquire(u, o)
      PROVE  Shown
  <2> DEFINE n == [at |-> "ticket", kind |-> "finite", obj |-> o]
  <2>1. user' = [user EXCEPT ![u] = n] /\ n.at \notin Holding /\ UNCHANGED <<states, spoiled>>
    BY <1>7 DEF ProcessAcquire, Holding
  <2> HIDE DEF n
  <2>2. QED
    BY <1>4, <2>1
<1>8. CASE ReleaseTicket(u)
  <2>1. user' = [user EXCEPT ![u] = Idle] /\ Idle.at \notin Holding /\ UNCHANGED <<states, spoiled>>
    BY <1>8, Gone DEF ReleaseTicket, Holding
  <2>2. QED
    BY <1>4, <2>1
<1>9. CASE \/ FiniteExclusive(u) \/ AdmitUse(u) \/ Observe(u) \/ PoisonTicket(u) \/ MarkReleased(u)
  <2>1. PICK place \in Places : user' = Moved(u, place) /\ (place \in Holding => user[u].at \in Holding)
    BY <1>9 DEF FiniteExclusive, AdmitUse, Observe, PoisonTicket, MarkReleased, Places, Counted,
                Holding, Ticketed
  <2>2. UNCHANGED <<states, spoiled>>
    BY <1>9 DEF FiniteExclusive, AdmitUse, Observe, PoisonTicket, MarkReleased
  <2>3. QED
    BY <1>5, <2>1, <2>2
<1>10. CASE Poison(u)
  <2>1. PICK o \in Objects : o = user[u].obj
    BY <1>1
  <2> DEFINE e == [states[o] EXCEPT !.poisoned = TRUE]
             n == [user[u] EXCEPT !.at = "spoiled"]
  <2>2. /\ user[u].at \in Holding /\ user[u].at \in Counted /\ "spoiled" \in Places
        /\ "spoiled" \in Holding /\ user' = Moved(u, "spoiled")
        /\ states' = [states EXCEPT ![o] = e] /\ spoiled' = spoiled \union {o}
    BY <1>10, <2>1 DEF Poison, Places, Counted, Holding
  <2>3. /\ states[o] \in StateRecord /\ states[o].holders # 0
    BY <2>1, <2>2, CountedEntry
  <2>4. e.closed = states[o].closed /\ e.poisoned
    BY <2>3, PoisonedEntry
  <2>5. user' = [user EXCEPT ![u] = n] /\ n.at = "spoiled" /\ n.obj = user[u].obj
    BY <2>2, Placed
  <2> HIDE DEF e, n
  <2>6. <<u, o>> \in Uses /\ Uses' = Uses
    BY <2>1, <2>2, <2>5, UsesAfter
  <2>7. Denied' = Denied /\ Drains' = Drains
    BY <2>2, <2>3, <2>4, TableAfter DEF Denied, Drains, Joined
  <2>8. Gate!Spoil(u, o)
    BY <2>2, <2>6, <2>7 DEF Gate!Spoil, Uses, Denied, Drains
  <2>9. QED
    BY <2>8
<1>11. CASE DropHolder(u)
  <2>1. PICK o \in Objects : o = user[u].obj
    BY <1>1
  <2> DEFINE e0 == states[o]
             left == e0.holders - 1
             e == IF left = 0 /\ ~e0.closed /\ ~e0.poisoned THEN NoEntry
                  ELSE [e0 EXCEPT !.holders = left,
                                  !.drained = IF left = 0 /\ e0.closed THEN @ + 1 ELSE @]
             n == IF user[u].kind = "native" THEN Idle ELSE [user[u] EXCEPT !.at = "dropped"]
  <2>2. /\ user[u].at = "released" /\ user[u].at \in Counted /\ user[u].at \notin Holding
        /\ spoiled' = spoiled /\ states' = [states EXCEPT ![o] = e]
    BY <1>11, <2>1 DEF DropHolder, Dropped, Counted, Holding
  <2>3. user' = IF user[u].kind = "native" THEN Freed(u) ELSE Moved(u, "dropped")
    BY <1>11 DEF DropHolder, Dropped
  <2>4. "dropped" \in Places /\ "dropped" \notin Holding /\ "free" \notin Holding
    BY DEF Places, Ticketed, Holding
  <2>5. user' = [user EXCEPT ![u] = n] /\ n.at \notin Holding
    BY <2>3, <2>4, Gone, Placed
  <2>6. e0 \in StateRecord /\ e0.holders # 0 /\ e0.known
    BY <2>1, <2>2, CountedEntry
  <2>7. e.closed = e0.closed /\ e.holders = left /\ (e0.closed => e.poisoned = e0.poisoned)
    <3>1. CASE left = 0 /\ ~e0.closed /\ ~e0.poisoned
      BY <2>6, <3>1 DEF NoEntry, StateRecord
    <3>2. CASE ~(left = 0 /\ ~e0.closed /\ ~e0.poisoned)
      BY <2>6, <3>2 DEF StateRecord
    <3>3. QED
      BY <3>1, <3>2
  <2> HIDE DEF e, n
  <2>8. Uses' = Uses /\ Denied' = Denied
    BY <2>2, <2>5, <2>7, UsesAfter, TableAfter DEF Denied
  <2>9. o \notin Drains
    BY <2>6 DEF Drains, Joined
  <2>10. CASE left = 0 /\ e0.closed /\ ~e0.poisoned
    <3>1. Drains' = Drains \cup {o}
      BY <2>2, <2>7, <2>10, TableAfter
    <3>2. e0.holders = 1
      BY <2>6, <2>10 DEF StateRecord
    <3>3. \A v \in Users : <<v, o>> \notin Uses
      BY <2>1, <2>2, <3>2, NobodyUses
    <3>4. o \in Denied /\ o \notin spoiled
      BY <2>10 DEF Denied, HolderInv, Remembered
    <3>5. Gate!Drain(o)
      BY <2>2, <2>8, <3>1, <3>3, <3>4 DEF Gate!Drain, Gate!Quiet, Uses, Denied, Drains
    <3>6. QED
      BY <3>5
  <2>11. CASE ~(left = 0 /\ e0.closed /\ ~e0.poisoned)
    <3>1. ~(e.closed /\ e.holders = 0 /\ ~e.poisoned)
      BY <2>7, <2>11
    <3>2. Drains' = Drains \ {o}
      BY <2>2, <3>1, TableAfter
    <3>3. Drains' = Drains
      BY <2>9, <3>2
    <3>4. QED
      BY <2>2, <2>8, <3>3
  <2>12. QED
    BY <2>10, <2>11
<1>12. QED
  BY <1>2, <1>6, <1>7, <1>8, <1>9, <1>10, <1>11 DEF Step

\* The steps of a closer, in the gate.
LEMMA CloserGate ==
  ASSUME HolderInv, NEW o \in Objects, states' = [states EXCEPT ![o] = Shut(o)],
         UNCHANGED <<user, spoiled>>
  PROVE  Gate!CloseGate(o)
<1>1. /\ Shut(o).closed /\ Shut(o).poisoned = states[o].poisoned
      /\ Shut(o).holders = states[o].holders
  BY ShutFacts
<1>2. Denied' = Denied \cup {o} /\ Uses' = Uses
  BY <1>1, TableAfter DEF Uses
<1>3. CASE states[o].holders = 0 /\ ~states[o].poisoned
  <2>1. Drains' = Drains \cup {o}
    BY <1>1, <1>3, TableAfter
  <2>2. \A v \in Users : <<v, o>> \notin Uses
    BY <1>3, NobodyUses
  <2>3. o \notin spoiled
    BY <1>3 DEF HolderInv, Remembered
  <2>4. QED
    BY <1>2, <2>1, <2>2, <2>3 DEF Gate!CloseGate, Gate!Quiet, Uses, Denied, Drains
<1>4. CASE ~(states[o].holders = 0 /\ ~states[o].poisoned)
  <2>1. Drains' = Drains \ {o}
    BY <1>1, <1>4, TableAfter
  <2>2. Drains' = Drains
    BY <1>4, <2>1 DEF Drains, Joined
  <2>3. QED
    BY <1>2, <2>2 DEF Gate!CloseGate, Uses, Denied, Drains
<1>5. QED
  BY <1>3, <1>4

LEMMA GateStep ==
  ASSUME HolderInv, [Next]_vars
  PROVE  Gate!GateNext \/ UNCHANGED <<Uses, Denied, spoiled, Drains>>
<1>1. ASSUME NEW u \in Users, Step(u)
      PROVE  Gate!GateNext \/ UNCHANGED <<Uses, Denied, spoiled, Drains>>
  BY <1>1, HolderGate DEF Gate!GateNext
<1>2. ASSUME NEW o \in Objects, states' = [states EXCEPT ![o] = Shut(o)], UNCHANGED <<user, spoiled>>
      PROVE  Gate!GateNext
  BY <1>2, CloserGate DEF Gate!GateNext
<1>3. CASE UNCHANGED <<states, user, spoiled>>
  BY <1>3 DEF Uses, Denied, Drains, Joined
<1>4. CASE \E o \in Objects : CloseOnly(o)
  BY <1>2, <1>4 DEF CloseOnly
<1>5. ASSUME NEW c \in Closers, NEW o \in Objects, CloseAndWait(c, o)
      PROVE  Gate!GateNext \/ UNCHANGED <<Uses, Denied, spoiled, Drains>>
  BY <1>2, <1>3, <1>5 DEF CloseAndWait
<1>6. CASE \/ \E c \in Closers : WaitOver(c) \/ WaitCancelled(c)
           \/ CloseProcessAdmission
           \/ UNCHANGED vars
  BY <1>3, <1>6 DEF WaitOver, WaitCancelled, CloseProcessAdmission, vars
<1>7. QED
  BY <1>1, <1>4, <1>5, <1>6 DEF Next

\* For every number of objects, users and closers, the registry implements its
\* gate: a denied source admits nobody ever again and is drained only while
\* nobody uses it (acquire, release, closeOnly, closeAndWait).
THEOREM RegistryImplementsGate == Spec => ImplementsGate
<1>1. Init => Gate!GateInit
  <2> SUFFICES ASSUME Init PROVE Gate!GateInit
    OBVIOUS
  <2>1. Idle.at = "free"
    BY DEF Idle
  <2>2. Uses = {} /\ Denied = {} /\ Drains = {} /\ spoiled = {}
    BY <2>1 DEF Init, Uses, Denied, Drains, Joined, Holding, NoEntry
  <2>3. QED
    BY <2>2 DEF Gate!GateInit, Uses, Denied, Drains
<1>2. HolderInv /\ [Next]_vars => [Gate!GateNext]_(Gate!gate)
  BY GateStep DEF Gate!gate, Uses, Denied, Drains
<1>3. QED
  BY HolderInvariance, <1>1, <1>2, PTL DEF Spec, ImplementsGate, Gate!GateSpec
=============================================================================
