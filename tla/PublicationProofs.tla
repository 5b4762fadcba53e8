------------------------ MODULE PublicationProofs ------------------------
(***************************************************************************)
(* Publication: what a server serves while the control plane changes it    *)
(* (RuntimeSnapshot), and the keys that are issued by managed delivery     *)
(* (KeyDelivery).  The two specifications are independent of each other.   *)
(*                                                                         *)
(* RuntimeSnapshot, for any number of handlers, operations and subjects    *)
(* and for any lease.  Three arguments, each inductive on its own types.   *)
(* Lease: what a snapshot permits was permitted at most Lease minus what   *)
(* is left of it ago.  Fence: a subject that was fenced is denied by the   *)
(* snapshot and by the read under way, or it has a tombstone that no such  *)
(* read may clear, or an older tombstone replaced it (Lapses); one that    *)
(* was reported published is denied by both.                               *)
(* Command: one handler at most owns the claimed row.                      *)
(*                                                                         *)
(* KeyDelivery, for any number of requests and processes.  The row and the *)
(* Vault are tied together by the claim: without one nothing was written   *)
(* (ClaimedFirst), the handler that has the claim is the only one that may *)
(* write, and it writes once (StackInv).  So what a row says when it is    *)
(* closed is true, and nothing that happens to a closed row can change it. *)
(***************************************************************************)
EXTENDS RuntimeSnapshot, KeyDelivery, TLAPS

-----------------------------------------------------------------------------
(* Every operation has the same parts.                                     *)
Pins == {"none", "lock", "try"}
Barriers == {"none", "denied", "reduced", "changed", "always"}
Effects == SUBSET (Either \union Silent)
Ops == [pin : Pins, effects : Effects, barrier : Barriers, refresh : {"must", "try", "ignored"},
        confirm : {"none", "current", "published"}, careful : BOOLEAN, command : BOOLEAN]

LEMMA OperationTypes ==
  /\ \A pin \in Pins, effects \in Effects, barrier \in Barriers, r \in {"must", "try", "ignored"} :
       Operation(pin, effects, barrier, r) \in Ops
  /\ Permit \in Effects /\ Revoke \in Effects /\ Either \in Effects /\ Silent \in Effects
  /\ {"none", "lock", "try"} \subseteq Pins
  /\ {"none", "denied", "reduced", "changed", "always"} \subseteq Barriers
BY DEF Operation, Ops, Pins, Barriers, Effects, Permit, Revoke, Either, Silent

LEMMA RefinedTypes ==
  ASSUME NEW op \in Ops
  PROVE  /\ \A how \in {"none", "current", "published"} : Confirmed(op, how) \in Ops
         /\ Careful(op) \in Ops
         /\ [op EXCEPT !.command = TRUE] \in Ops
BY DEF Confirmed, Careful, Ops

LEMMA AllOperationsTyped == AllOperations \subseteq Ops
<1>1. {CreatePersonalKey, RotatePersonalKey, CreateProjectKey, RotateProjectKey,
       ConfirmKeyDelivery, UpdatePersonalKey, RevokePersonalKey, CompletePersonalKeyRotation,
       ConfirmProjectKey, UpdateProjectKey, RevokeProjectKey, CompleteProjectKeyRotation} \subseteq Ops
  BY OperationTypes DEF
    CreatePersonalKey, RotatePersonalKey, CreateProjectKey, RotateProjectKey, ConfirmKeyDelivery,
    UpdatePersonalKey, RevokePersonalKey, CompletePersonalKeyRotation, ConfirmProjectKey,
    UpdateProjectKey, RevokeProjectKey, CompleteProjectKeyRotation
<1>2. {updateMemberLegacy, SetModelGrants, CompleteOffboarding, EmergencyOffboarding,
       RegisterWithApproval, CreateMember, DecidePersonalModelRequest, UpdateProject, UpdateTeam,
       SetTeamMembers, SetProjectManagers, SetResourceModels} \subseteq Ops
  BY OperationTypes DEF
    updateMemberLegacy, SetModelGrants, CompleteOffboarding, EmergencyOffboarding,
    RegisterWithApproval, CreateMember, DecidePersonalModelRequest, UpdateProject, UpdateTeam,
    SetTeamMembers, SetProjectManagers, SetResourceModels
<1>3. {DecideProjectRequest, DecideTeamModelRequest, CreateModel, CreateModelBatch,
       AddModelBinding, AddReviewedModelBinding, SetModelWeights, RenameModel, RetireModelAlias,
       RollbackModelWeights, CreateProvider, CreateConnection} \subseteq Ops
  BY OperationTypes DEF
    DecideProjectRequest, DecideTeamModelRequest, CreateModel, CreateModelBatch, AddModelBinding,
    AddReviewedModelBinding, SetModelWeights, RenameModel, RetireModelAlias,
    RollbackModelWeights, CreateProvider, CreateConnection
<1>4. {CreateCredential, CreateProviderModel, WriteCredentialMetadata, SetCredentialEnabled,
       VerifyCredential, DeleteCredential, RetireCredential, WriteEgress, SetEgressDefault,
       SetConnectionEgress, WritePrices, WritePricingCurrency} \subseteq Ops
  BY OperationTypes DEF
    CreateCredential, CreateProviderModel, WriteCredentialMetadata, SetCredentialEnabled,
    VerifyCredential, DeleteCredential, RetireCredential, WriteEgress, SetEgressDefault,
    SetConnectionEgress, WritePrices, WritePricingCurrency
<1>5. {commitPriceDocument, ApplyRepositoryPrices, Logout, RevokeAccountSession, changePassword,
       EnableMFA, ChangeMFA, UnlinkOIDC, UnlinkOAuth, UnlinkSAML, UnlinkLDAP, unlinkNamedIdentity} \subseteq Ops
  BY OperationTypes DEF
    commitPriceDocument, ApplyRepositoryPrices, Logout, RevokeAccountSession, changePassword,
    EnableMFA, ChangeMFA, UnlinkOIDC, UnlinkOAuth, UnlinkSAML, UnlinkLDAP, unlinkNamedIdentity
<1>6. {SaveOIDCProvider, SetOIDCEnabled, SaveOAuthProvider, SetOAuthEnabled, SaveSAML,
       SetSAMLStatus, SaveLDAPProvider, SetLDAPEnabled, saveNamedIdentityProvider,
       setNamedIdentityEnabled, SetResourceLimit, WriteQuotaSettings} \subseteq Ops
  BY OperationTypes DEF
    SaveOIDCProvider, SetOIDCEnabled, SaveOAuthProvider, SetOAuthEnabled, SaveSAML,
    SetSAMLStatus, SaveLDAPProvider, SetLDAPEnabled, saveNamedIdentityProvider,
    setNamedIdentityEnabled, SetResourceLimit, WriteQuotaSettings
<1>7. {decideProjectLimitRequest, DecideTeamQuotaRequest} \subseteq Ops
  BY OperationTypes DEF
    decideProjectLimitRequest, DecideTeamQuotaRequest
<1>8. {DisableMemberKey, SetReviewedMemberState, SetMemberApproval, SetMemberModels,
       CreateTeamWithInitialLimits, CreateProjectWithInitialResources} \subseteq Ops
  BY OperationTypes, RefinedTypes DEF
    DisableMemberKey, SetReviewedMemberState, SetMemberApproval, SetMemberModels,
    CreateTeamWithInitialLimits, CreateProjectWithInitialResources
<1>9. {SetModelLifecycle, WriteConnectionMetadata, WriteProviderMetadata,
       WriteDeploymentCoverage, WriteConnectionStatus, writeConnectionTransport} \subseteq Ops
  BY OperationTypes, RefinedTypes DEF
    SetModelLifecycle, WriteConnectionMetadata, WriteProviderMetadata, WriteDeploymentCoverage,
    WriteConnectionStatus, writeConnectionTransport
<1>10. {WriteProviderStatus, UpdateProviderModel, WriteReservationBound, SetTeamResourceLimit,
        ResetResourceLimitToDefault, PublishRuntimeCommand} \subseteq Ops
  BY OperationTypes, RefinedTypes DEF
    WriteProviderStatus, UpdateProviderModel, WriteReservationBound, SetTeamResourceLimit,
    ResetResourceLimitToDefault, PublishRuntimeCommand
<1>11. {RollbackRuntimeArchive} \subseteq Ops
  BY OperationTypes, RefinedTypes DEF
    RollbackRuntimeArchive
<1> QED
  BY <1>1, <1>2, <1>3, <1>4, <1>5, <1>6, <1>7, <1>8, <1>9, <1>10, <1>11 DEF AllOperations

-----------------------------------------------------------------------------
(* Types.                                                                  *)
Stages == {"committed", "drawn", "dispatch", "refresh", "refreshing", "published", "unpublished"}
Ended == [pc : Terminal]
Working == [pc : Stages, op : Ops, subject : Subjects, to : Either \union Silent,
            stands : BOOLEAN, barrier : BOOLEAN, failed : BOOLEAN, drawn : Nat]

Snapshots == [facts : [Subjects -> Either], left : 0 .. Lease]
Runtimes == [auth : Snapshots, epoch : Nat, denied : [Subjects -> Nat]]
Begun == [pc : {"reading"}, by : Handlers \union {Ticker}, generation : Nat, left : 0 .. Lease]
Filled == [pc : {"read", "stored"}, by : Handlers \union {Ticker}, generation : Nat,
           left : 0 .. Lease, data : [Subjects -> Either]]
Asked == [pc : {"loaded"}, subject : Subjects, fenced : BOOLEAN, acked : BOOLEAN, age : Nat,
          overtaken : BOOLEAN]
Rows == [outcome : {"none", "claimed", "refresh_returned_nil", "refresh_returned_error"},
         dispatches : Nat, published : BOOLEAN]
Ghosts == [fenced : SUBSET Subjects, gated : SUBSET Subjects, acked : SUBSET Subjects, age : [Subjects -> Nat]]

Types ==
    /\ db \in [Subjects -> Either]
    /\ runtime \in Runtimes
    /\ refresh \in {NoRefresh} \union Begun \union Filled
    /\ handler \in [Handlers -> Ended \union Working]
    /\ req \in {NoRequest} \union Asked
    /\ command \in Rows
    /\ ghost \in Ghosts

(* The lease.                                                              *)
Reads == refresh.pc \in {"read", "stored"}

LeaseInv ==
    /\ \A s \in Subjects :
         /\ ghost.age[s] <= Lease
         /\ db[s] = "permitted" => ghost.age[s] = 0
         /\ runtime.auth.facts[s] = "permitted" => ghost.age[s] + runtime.auth.left <= Lease
         /\ Reads /\ refresh.data[s] = "permitted" => ghost.age[s] + refresh.left <= Lease
    /\ req.pc = "loaded" => req.age < Lease

(* Tombstones.                                                             *)
Active(h) == handler[h].pc \notin Terminal
Settled(s) == runtime.auth.facts[s] = "denied" /\ (Reads => refresh.data[s] = "denied")
Guarded(s) ==
    /\ runtime.denied[s] # 0
    /\ Reads /\ refresh.generation >= runtime.denied[s] => refresh.data[s] = "denied"

RefreshInv ==
    /\ refresh.pc = "stored" => runtime.auth.facts = refresh.data
    /\ refresh.pc # "idle" => refresh.generation <= runtime.epoch
    /\ refresh.pc # "idle" /\ refresh.by # Ticker =>
         refresh.by \in Handlers /\ handler[refresh.by].pc = "refreshing"

SubjectInv(s) ==
    /\ s \in ghost.fenced \union ghost.gated \union ghost.acked => db[s] = "denied"
    /\ s \in ghost.gated /\ Reads => refresh.data[s] = "denied"
    /\ s \in ghost.acked => Settled(s)
    /\ s \in ghost.fenced => Settled(s) \/ Guarded(s)

(* A read that may clear a drawn tombstone began after it was drawn, and   *)
(* none is under way beside the gate.                                      *)
StandingInv(h) ==
    /\ handler[h].pc \in Uncovered /\ handler[h].op.pin # "none" => refresh.pc = "idle"
    /\ handler[h].pc = "drawn" => handler[h].drawn # 0
    /\ Active(h) /\ handler[h].stands =>
         /\ db[handler[h].subject] = "denied"
         /\ handler[h].pc = "published" => Settled(handler[h].subject)
         /\ handler[h].pc = "drawn" /\ Reads /\ refresh.generation >= handler[h].drawn =>
              refresh.data[handler[h].subject] = "denied"
         /\ Reads /\ refresh.by = h /\ refresh.by # Ticker =>
              refresh.data[handler[h].subject] = "denied"

RequestInv ==
    req.pc = "loaded" =>
      /\ ~req.acked
      /\ ~req.overtaken => runtime.auth.facts[req.subject] = "permitted"
      /\ req.fenced /\ ~req.overtaken =>
           /\ runtime.denied[req.subject] # 0
           /\ refresh.pc = "stored" => refresh.generation < runtime.denied[req.subject]

FenceInv ==
    /\ RefreshInv
    /\ \A s \in Subjects : SubjectInv(s)
    /\ \A h \in Handlers : StandingInv(h)
    /\ RequestInv

(* The claimed row.                                                        *)
Owns(h) == /\ Active(h) /\ handler[h].op.command
           /\ handler[h].pc \in Uncovered => ~handler[h].failed

CommandInv ==
    /\ command.outcome = "none" => command.dispatches = 0
    /\ command.dispatches <= 1
    /\ command.outcome = "refresh_returned_nil" => command.published
    /\ \A h \in Handlers :
         /\ handler[h].pc = "dispatch" => handler[h].op.command
         /\ Owns(h) =>
              /\ command.outcome # "none"
              /\ handler[h].pc \in Uncovered \union {"dispatch"} => command.dispatches = 0
              /\ handler[h].pc = "published" => command.published
              /\ \A g \in Handlers : Owns(g) => g = h

LEMMA InitInv == Init => Types /\ LeaseInv /\ FenceInv /\ CommandInv
<1> SUFFICES ASSUME Init PROVE Types /\ LeaseInv /\ FenceInv /\ CommandInv
  OBVIOUS
<1>1. Lease \in Nat
  BY RuntimeAssumption
<1>2. Types
  BY <1>1 DEF Init, Types, Either, Permit, Revoke, FreshRuntime, NoSnapshot, Runtimes, Snapshots,
              NoRefresh, NoHandler, Ended, Terminal, NoRequest, Rows, Ghosts
<1>3. LeaseInv
  BY <1>1 DEF Init, LeaseInv, FreshRuntime, NoSnapshot, NoRefresh, NoRequest, Reads
<1>4. FenceInv
  BY DEF Init, FenceInv, RefreshInv, SubjectInv, StandingInv, RequestInv, NoRefresh, NoHandler,
         NoRequest, Active, Terminal
<1>5. CommandInv
  BY DEF Init, CommandInv, Owns, Active, NoHandler, Terminal
<1> QED
  BY <1>2, <1>3, <1>4, <1>5

-----------------------------------------------------------------------------
(* A handler that goes on, ends, or only loses its standing.               *)

(* What a handler's record becomes when it is answered or takes a step.    *)
LEMMA HandlerRecords ==
  ASSUME Types, NEW h \in Handlers
  PROVE  /\ [pc |-> "answered"] \in Ended
         /\ handler[h] \in Ended \/ handler[h] \in Working
         /\ Active(h) <=> handler[h] \in Working
         /\ Active(h) <=> handler[h].pc \in Stages
BY DEF Types, Ended, Working, Active, Terminal, Stages

(* Goes(g, x): handler g keeps its operation and moves to stage x.         *)
Goes(g, x) ==
    /\ handler'[g].pc = x
    /\ handler'[g].op.command = handler[g].op.command
    /\ handler'[g].subject = handler[g].subject
    /\ handler'[g].stands = handler[g].stands
    /\ handler'[g].failed = handler[g].failed

OnlyHandler(h) == \A g \in Handlers : g # h => handler'[g] = handler[g]

LEMMA ReplyEffects ==
  ASSUME Types, NEW h \in Handlers, Reply(h)
  PROVE  /\ handler' \in [Handlers -> Ended \union Working]
         /\ OnlyHandler(h)
         /\ handler'[h].pc = "answered"
<1>1. handler' = [handler EXCEPT ![h] = [pc |-> "answered"]]
  BY DEF Reply
<1>2. [pc |-> "answered"] \in Ended
  BY HandlerRecords
<1> QED
  BY <1>1, <1>2 DEF Types, OnlyHandler

LEMMA MoveEffects ==
  ASSUME Types, NEW h \in Handlers, NEW x \in Stages, Active(h),
         handler' = [handler EXCEPT ![h].pc = x]
  PROVE  /\ handler' \in [Handlers -> Ended \union Working]
         /\ OnlyHandler(h)
         /\ Goes(h, x)
<1>1. handler[h] \in Working
  BY HandlerRecords
<1> DEFINE moved == [handler[h] EXCEPT !.pc = x]
<1>2. handler' = [handler EXCEPT ![h] = moved]
  BY DEF Types
<1>3. /\ moved \in Working /\ moved.pc = x /\ moved.op = handler[h].op
      /\ moved.subject = handler[h].subject
      /\ moved.stands = handler[h].stands /\ moved.failed = handler[h].failed
  BY <1>1 DEF Working
<1> HIDE DEF moved
<1> QED
  BY <1>2, <1>3 DEF Types, OnlyHandler, Goes

(* A restored subject takes the standing of the handlers that denied it.   *)
LEMMA BindingFacts ==
  ASSUME Types, NEW writes \in BOOLEAN, NEW s \in Subjects, NEW to, NEW g \in Handlers
  PROVE  LET b == Binding(writes, s, to)[g]
         IN /\ b \in Ended \union Working
            /\ b.pc = handler[g].pc
            /\ Active(g) => /\ b.op = handler[g].op /\ b.subject = handler[g].subject
                            /\ b.failed = handler[g].failed /\ b.drawn = handler[g].drawn
                            /\ b.stands => handler[g].stands
                            /\ b.stands => ~(writes /\ to = "permitted" /\ handler[g].subject = s)
<1> DEFINE hit == writes /\ to = "permitted" /\ Active(g) /\ handler[g].subject = s
           lost == [handler[g] EXCEPT !.stands = FALSE]
<1>1. Binding(writes, s, to)[g] = IF hit THEN lost ELSE handler[g]
  BY DEF Binding, Active
<1>2. CASE hit
  <2>1. handler[g] \in Working
    BY <1>2, HandlerRecords
  <2>2. /\ lost \in Working /\ lost.pc = handler[g].pc /\ lost.op = handler[g].op
        /\ lost.subject = handler[g].subject /\ lost.failed = handler[g].failed
        /\ lost.drawn = handler[g].drawn /\ lost.stands = FALSE
    BY <2>1 DEF Working
  <2> QED
    BY <1>1, <1>2, <2>2
<1>3. CASE ~hit
  BY <1>1, <1>3 DEF Types
<1> QED
  BY <1>2, <1>3

-----------------------------------------------------------------------------
(* The commit of a write, here or elsewhere.                               *)

LEMMA RestoredFacts ==
  ASSUME Types, NEW writes \in BOOLEAN, NEW s \in Subjects, NEW to
  PROVE  LET g == Restored(writes, s, to)
             back == writes /\ to = "permitted"
         IN /\ g \in Ghosts
            /\ \A t \in Subjects : t \in g.fenced <=> t \in ghost.fenced /\ ~(back /\ t = s)
            /\ \A t \in Subjects : t \in g.gated <=> t \in ghost.gated /\ ~(back /\ t = s)
            /\ \A t \in Subjects : t \in g.acked <=> t \in ghost.acked /\ ~(back /\ t = s)
            /\ \A t \in Subjects : g.age[t] = IF back /\ t = s THEN 0 ELSE ghost.age[t]
<1>1. ghost \in Ghosts
  BY DEF Types
<1>2. CASE writes /\ to = "permitted"
  <2> DEFINE g == [fenced |-> ghost.fenced \ {s}, gated |-> ghost.gated \ {s},
                   acked |-> ghost.acked \ {s}, age |-> [ghost.age EXCEPT ![s] = 0]]
  <2>1. Restored(writes, s, to) = g
    BY <1>1, <1>2 DEF Restored, Ghosts
  <2>2. g \in Ghosts
    BY <1>1 DEF Ghosts
  <2>3. /\ g.fenced = ghost.fenced \ {s} /\ g.acked = ghost.acked \ {s}
        /\ g.gated = ghost.gated \ {s}
        /\ \A t \in Subjects : g.age[t] = IF t = s THEN 0 ELSE ghost.age[t]
    BY <1>1 DEF Ghosts
  <2> HIDE DEF g
  <2> QED
    BY <1>2, <2>1, <2>2, <2>3
<1>3. CASE ~(writes /\ to = "permitted")
  BY <1>1, <1>3 DEF Restored
<1> QED
  BY <1>2, <1>3

(* The database and the history after it; the snapshot is untouched.       *)
Commits(writes, s, to) ==
    /\ writes => to \in Either
    /\ db' = IF writes THEN [db EXCEPT ![s] = to] ELSE db
    /\ ghost' = Restored(writes, s, to)
    /\ UNCHANGED <<runtime, refresh, req>>

LEMMA CommitLease ==
  ASSUME Types, LeaseInv, NEW writes \in BOOLEAN, NEW s \in Subjects, NEW to, Commits(writes, s, to)
  PROVE  /\ db' \in [Subjects -> Either] /\ ghost' \in Ghosts
         /\ LeaseInv'
<1> DEFINE back == writes /\ to = "permitted"
<1>1. /\ ghost' \in Ghosts
      /\ \A t \in Subjects : ghost'.age[t] = IF back /\ t = s THEN 0 ELSE ghost.age[t]
  BY RestoredFacts DEF Commits
<1>2. /\ db' \in [Subjects -> Either]
      /\ \A t \in Subjects : db'[t] = IF writes /\ t = s THEN to ELSE db[t]
  BY DEF Commits, Types
<1>3. Lease \in Nat /\ runtime.auth.left \in 0 .. Lease /\ (Reads => refresh.left \in 0 .. Lease)
  BY RuntimeAssumption DEF Types, Runtimes, Snapshots, Reads, NoRefresh, Begun, Filled
<1>4. UNCHANGED <<runtime, refresh, req>>
  BY DEF Commits
<1>5. ASSUME NEW t \in Subjects
      PROVE  /\ ghost'.age[t] <= Lease
             /\ db'[t] = "permitted" => ghost'.age[t] = 0
             /\ runtime.auth.facts[t] = "permitted" => ghost'.age[t] + runtime.auth.left <= Lease
             /\ Reads /\ refresh.data[t] = "permitted" => ghost'.age[t] + refresh.left <= Lease
  BY <1>1, <1>2, <1>3 DEF LeaseInv
<1> QED
  BY <1>1, <1>2, <1>4, <1>5 DEF LeaseInv, Reads

LEMMA CommitFence ==
  ASSUME Types, FenceInv, NEW writes \in BOOLEAN, NEW s \in Subjects, NEW to, Commits(writes, s, to),
         \A g \in Handlers :
           \/ handler'[g] = Binding(writes, s, to)[g]
           \/ /\ handler[g].pc = "idle"
              /\ \/ handler'[g].pc = "answered"
                 \/ /\ handler'[g].pc = "committed" /\ handler'[g].subject = s
                    /\ handler'[g].stands => writes /\ to = "denied"
                    /\ handler'[g].op.pin # "none" => refresh.pc = "idle"
  PROVE  FenceInv'
<1> DEFINE back == writes /\ to = "permitted"
<1>1. /\ \A t \in Subjects : t \in ghost'.fenced <=> t \in ghost.fenced /\ ~(back /\ t = s)
      /\ \A t \in Subjects : t \in ghost'.gated <=> t \in ghost.gated /\ ~(back /\ t = s)
      /\ \A t \in Subjects : t \in ghost'.acked <=> t \in ghost.acked /\ ~(back /\ t = s)
  BY RestoredFacts DEF Commits
<1>2. \A t \in Subjects : db'[t] = IF writes /\ t = s THEN to ELSE db[t]
  BY DEF Commits, Types
<1>3. UNCHANGED <<runtime, refresh, req>> /\ (writes => to \in {"permitted", "denied"})
  BY DEF Commits, Either, Permit, Revoke
<1>4. RefreshInv'
  <2>1. ASSUME refresh.pc # "idle", refresh.by # Ticker
        PROVE  refresh.by \in Handlers /\ handler'[refresh.by].pc = "refreshing"
    <3>1. refresh.by \in Handlers /\ handler[refresh.by].pc = "refreshing"
      BY <2>1 DEF FenceInv, RefreshInv
    <3> QED
      BY <3>1, BindingFacts
  <2> QED
    BY <1>3, <2>1 DEF FenceInv, RefreshInv
<1>5. ASSUME NEW t \in Subjects PROVE SubjectInv(t)'
  BY <1>1, <1>2, <1>3 DEF FenceInv, SubjectInv, Settled, Guarded, Reads
<1>6. ASSUME NEW g \in Handlers PROVE StandingInv(g)'
  <2>1. CASE handler'[g] = Binding(writes, s, to)[g]
    <3>0. /\ handler'[g].pc = "drawn" => handler'[g].drawn # 0
          /\ handler'[g].pc \in Uncovered /\ handler'[g].op.pin # "none" => refresh'.pc = "idle"
      BY <1>3, <2>1, BindingFacts DEF FenceInv, StandingInv, Active, Terminal, Uncovered
    <3> SUFFICES ASSUME Active(g)', handler'[g].stands PROVE StandingInv(g)'
      BY <3>0 DEF StandingInv
    <3>1. /\ Active(g) /\ handler[g].stands /\ handler'[g].pc = handler[g].pc
          /\ handler'[g].subject = handler[g].subject
          /\ ~(back /\ handler[g].subject = s) /\ handler'[g].drawn = handler[g].drawn
      BY <2>1, BindingFacts DEF Active
    <3>2. handler[g].subject \in Subjects
      BY <3>1, HandlerRecords DEF Working
    <3>3. db'[handler[g].subject] = "denied"
      BY <1>2, <1>3, <3>1, <3>2 DEF FenceInv, StandingInv
    <3> QED
      BY <1>3, <3>0, <3>1, <3>2, <3>3 DEF FenceInv, StandingInv, Settled, Reads
  <2>2. CASE /\ handler[g].pc = "idle"
             /\ \/ handler'[g].pc = "answered"
                \/ /\ handler'[g].pc = "committed" /\ handler'[g].subject = s
                   /\ handler'[g].stands => writes /\ to = "denied"
                   /\ handler'[g].op.pin # "none" => refresh.pc = "idle"
    <3>1. ~(refresh.pc # "idle" /\ refresh.by # Ticker /\ refresh.by = g)
      BY <2>2 DEF FenceInv, RefreshInv
    <3> QED
      BY <1>2, <1>3, <2>2, <3>1 DEF StandingInv, Active, Terminal, Reads, Uncovered
  <2> QED
    BY <2>1, <2>2
<1>7. RequestInv'
  BY <1>3 DEF FenceInv, RequestInv
<1> QED
  BY <1>4, <1>5, <1>6, <1>7 DEF FenceInv

LEMMA CommitElsewhereInv ==
  ASSUME Types, LeaseInv, FenceInv, CommandInv,
         NEW s \in Subjects, NEW to \in Either, CommitElsewhere(s, to)
  PROVE  Types' /\ LeaseInv' /\ FenceInv' /\ CommandInv'
<1>1. Commits(TRUE, s, to) /\ handler' = Binding(TRUE, s, to) /\ UNCHANGED command
  BY DEF CommitElsewhere, Commits
<1>2. LeaseInv' /\ db' \in [Subjects -> Either] /\ ghost' \in Ghosts
  BY <1>1, CommitLease
<1>3. FenceInv'
  BY <1>1, CommitFence
<1>4. handler' \in [Handlers -> Ended \union Working]
  <2>1. \A g \in Handlers : Binding(TRUE, s, to)[g] \in Ended \union Working
    BY BindingFacts
  <2> QED
    BY <1>1, <2>1 DEF Binding
<1>5. Types'
  BY <1>1, <1>2, <1>4 DEF Types, Commits
<1>6. ASSUME NEW g \in Handlers
      PROVE  /\ handler'[g].pc = handler[g].pc /\ (Active(g)' <=> Active(g))
             /\ Active(g) => /\ handler'[g].op = handler[g].op
                             /\ handler'[g].failed = handler[g].failed
  <2> DEFINE writes == TRUE
  <2>1. writes \in BOOLEAN /\ handler'[g] = Binding(writes, s, to)[g]
    BY <1>1
  <2> HIDE DEF writes
  <2> QED
    BY <2>1, BindingFacts DEF Active
<1>7. CommandInv'
  <2>1. \A g \in Handlers : Owns(g)' <=> Owns(g)
    BY <1>6 DEF Owns, Active, Terminal
  <2>2. \A g \in Handlers : handler'[g].pc = "dispatch" => handler'[g].op.command
    BY <1>6 DEF CommandInv, Active, Terminal
  <2> QED
    BY <1>1, <1>6, <2>1, <2>2 DEF CommandInv
<1> QED
  BY <1>2, <1>3, <1>5, <1>7

LEMMA CommitInv ==
  ASSUME Types, LeaseInv, FenceInv, CommandInv,
         NEW h \in Handlers, NEW op \in Operations[h], NEW s \in Subjects,
         NEW to \in Either \union Silent, NEW committed \in BOOLEAN, NEW known \in BOOLEAN,
         Commit(h, op, s, to, committed, known)
  PROVE  Types' /\ LeaseInv' /\ FenceInv' /\ CommandInv'
<1> DEFINE writes == committed /\ to # "same"
           goal == IF op.confirm = "none" THEN "same" ELSE to
           fences == NeedsBarrier(op, to, writes /\ db[s] # to)
           own == [pc |-> "committed", op |-> Left(op), subject |-> s, to |-> goal,
                   stands |-> writes /\ to = "denied", barrier |-> fences,
                   failed |-> ~known, drawn |-> 0]
           mine == IF known \/ op.careful THEN own ELSE [pc |-> "answered"]
<1>1. /\ handler[h].pc = "idle" /\ (known => committed)
      /\ op.command => command.outcome = "none"
      /\ command' = IF committed /\ op.command
                    THEN [command EXCEPT !.outcome = "claimed"] ELSE command
      /\ handler' = [Binding(writes, s, to) EXCEPT ![h] = mine]
      /\ db' = (IF writes THEN [db EXCEPT ![s] = to] ELSE db)
      /\ ghost' = Restored(writes, s, to)
      /\ UNCHANGED <<runtime, refresh, req>>
  BY DEF Commit
<1>2. op \in Ops
  BY AllOperationsTyped, RuntimeAssumption
<1>3. /\ own \in Working /\ own.pc = "committed" /\ own.subject = s
      /\ own.op.command = op.command /\ own.failed = ~known
      /\ own.stands => writes /\ to = "denied"
      /\ own.op.pin # "none" => op.pin # "none"
  <2>1. Left(op) \in Ops /\ Left(op).command = op.command
        /\ (Left(op).pin # "none" => op.pin # "none")
    BY <1>2 DEF Left, Ops, Effects, Pins, Barriers
  <2>2. goal \in Either \union Silent
    BY DEF Silent
  <2>3. fences \in BOOLEAN
    <3>1. op.barrier \in Barriers
      BY <1>2 DEF Ops
    <3> QED
      BY <3>1 DEF NeedsBarrier, Barriers
  <2> HIDE DEF goal, fences
  <2> QED
    BY <2>1, <2>2, <2>3 DEF Working, Stages
<1>4. /\ mine \in Ended \union Working
      /\ mine.pc = "answered" \/ mine = own
  BY <1>3, HandlerRecords
<1>5. writes \in BOOLEAN /\ Commits(writes, s, to)
  BY <1>1 DEF Commits, Either, Permit, Revoke, Silent
<1> HIDE DEF own, mine, writes, goal, fences
<1>6. /\ handler'[h] = mine
      /\ \A g \in Handlers : g # h => handler'[g] = Binding(writes, s, to)[g]
      /\ handler' \in [Handlers -> Ended \union Working]
  <2>1. \A g \in Handlers : Binding(writes, s, to)[g] \in Ended \union Working
    BY <1>5, BindingFacts
  <2>2. Binding(writes, s, to) \in [Handlers -> Ended \union Working]
    BY <2>1 DEF Binding
  <2> QED
    BY <1>1, <1>4, <2>2
<1>7. LeaseInv' /\ db' \in [Subjects -> Either] /\ ghost' \in Ghosts
  BY <1>5, CommitLease
<1>8. FenceInv'
  <2>1. op.pin # "none" => refresh.pc = "idle"
    BY DEF Commit, GateFree, SharedPinned
  <2> QED
    BY <1>1, <1>3, <1>4, <1>5, <1>6, <2>1, CommitFence
<1>9. command' \in Rows /\ command'.dispatches = command.dispatches
      /\ command'.published = command.published
      /\ command'.outcome = IF committed /\ op.command THEN "claimed" ELSE command.outcome
  BY <1>1, <1>2 DEF Types, Rows, Ops
<1>10. Types'
  BY <1>1, <1>6, <1>7, <1>9 DEF Types
<1>11. CommandInv'
  <2>1. \A g \in Handlers \ {h} :
          /\ handler'[g].pc = handler[g].pc
          /\ Active(g)' <=> Active(g)
          /\ Active(g) => handler'[g].op = handler[g].op /\ handler'[g].failed = handler[g].failed
    BY <1>5, <1>6, BindingFacts DEF Active
  <2>2. \A g \in Handlers \ {h} : Owns(g)' <=> Owns(g)
    BY <2>1 DEF Owns, Active, Terminal
  <2>3. Owns(h)' => known /\ op.command /\ handler'[h].pc = "committed"
    BY <1>3, <1>4, <1>6 DEF Owns, Active, Terminal, Uncovered
  <2>4. handler'[h].pc \in {"answered", "committed"}
    BY <1>3, <1>4, <1>6
  <2>5. op.command => (\A g \in Handlers : ~Owns(g)) /\ command.dispatches = 0
    BY <1>1 DEF CommandInv
  <2>6. command'.outcome = "none" => command.outcome = "none"
    BY <1>9
  <2>7. command'.outcome = "refresh_returned_nil" => command.outcome = "refresh_returned_nil"
    BY <1>9
  <2>8. ASSUME NEW g \in Handlers
        PROVE  /\ handler'[g].pc = "dispatch" => handler'[g].op.command
               /\ Owns(g)' =>
                    /\ command'.outcome # "none"
                    /\ handler'[g].pc \in Uncovered \union {"dispatch"} => command'.dispatches = 0
                    /\ handler'[g].pc = "published" => command'.published
                    /\ \A k \in Handlers : Owns(k)' => k = g
    <3>1. CASE g = h
      BY <1>1, <1>9, <2>2, <2>3, <2>4, <2>5, <3>1
    <3>2. CASE g # h
      <4>1. handler'[g].pc = "dispatch" => handler'[g].op.command
        BY <2>1, <3>2 DEF CommandInv, Active, Terminal
      <4>2. Owns(g)' => Owns(g) /\ ~op.command
        BY <2>2, <2>5, <3>2
      <4> QED
        BY <1>9, <2>1, <2>2, <2>3, <3>2, <4>1, <4>2 DEF CommandInv
    <3> QED
      BY <3>1, <3>2
  <2> QED
    BY <1>9, <2>6, <2>7, <2>8 DEF CommandInv
<1> QED
  BY <1>7, <1>8, <1>10, <1>11

-----------------------------------------------------------------------------
(* Steps of a handler alone.                                               *)

(* A handler that has not begun its refresh ends or goes on; at most, the  *)
(* subject of a published one is reported.                                 *)
LEMMA HandlerFence ==
  ASSUME Types, FenceInv, UNCHANGED <<db, runtime, refresh, req>>,
         NEW h \in Handlers, handler[h].pc # "refreshing", OnlyHandler(h),
         \/ handler'[h].pc = "answered"
         \/ Active(h) /\ \E x \in Stages \ {"published", "committed", "drawn"} : Goes(h, x),
         \/ ghost' = ghost
         \/ /\ ghost' = [ghost EXCEPT !.acked = @ \union {handler[h].subject}]
            /\ handler[h].pc = "published" /\ handler[h].stands
  PROVE  FenceInv' /\ ghost' \in Ghosts /\ ghost'.age = ghost.age
<1>1. ghost \in Ghosts
  BY DEF Types
<1>2. /\ ghost' \in Ghosts /\ ghost'.fenced = ghost.fenced /\ ghost'.age = ghost.age
      /\ ghost'.gated = ghost.gated
      /\ \A s \in Subjects : s \in ghost'.acked =>
           \/ s \in ghost.acked
           \/ handler[h].pc = "published" /\ handler[h].stands /\ s = handler[h].subject
  <2>1. CASE ghost' = ghost
    BY <1>1, <2>1
  <2>2. CASE /\ ghost' = [ghost EXCEPT !.acked = @ \union {handler[h].subject}]
             /\ handler[h].pc = "published" /\ handler[h].stands
    <3>1. handler[h].subject \in Subjects
      BY <2>2, HandlerRecords DEF Stages, Working
    <3> QED
      BY <1>1, <2>2, <3>1 DEF Ghosts
  <2> QED
    BY <2>1, <2>2
<1>3. RefreshInv'
  BY DEF FenceInv, RefreshInv, OnlyHandler
<1>4. ASSUME NEW s \in Subjects PROVE SubjectInv(s)'
  <2>1. handler[h].pc = "published" /\ handler[h].stands /\ s = handler[h].subject
          => db[s] = "denied" /\ Settled(s)
    BY DEF FenceInv, StandingInv, Active, Terminal
  <2> QED
    BY <1>2, <2>1 DEF FenceInv, SubjectInv, Settled, Guarded, Reads
<1>5. ASSUME NEW g \in Handlers PROVE StandingInv(g)'
  <2>1. CASE g = h
    BY <2>1 DEF FenceInv, StandingInv, Goes, Active, Terminal, Settled, Reads, Uncovered
  <2>2. CASE g # h
    BY <2>2 DEF FenceInv, StandingInv, OnlyHandler, Active, Settled, Reads
  <2> QED
    BY <2>1, <2>2
<1>6. RequestInv'
  BY DEF FenceInv, RequestInv
<1> QED
  BY <1>2, <1>3, <1>4, <1>5, <1>6 DEF FenceInv

LEMMA HandlerLease ==
  ASSUME Types, LeaseInv, UNCHANGED <<db, runtime, refresh, req>>,
         ghost'.age = ghost.age
  PROVE  LeaseInv'
BY DEF LeaseInv, Reads

(* The row keeps its outcome, and no handler comes to own it.              *)
LEMMA RowUntouched ==
  ASSUME Types, CommandInv,
         command'.outcome = command.outcome, command'.dispatches = command.dispatches,
         command.published => command'.published,
         NEW h, OnlyHandler(h),
         h \in Handlers =>
           \/ handler'[h].pc \in Terminal
           \/ /\ Active(h) /\ handler'[h].op.command = handler[h].op.command
              /\ handler[h].pc \in Uncovered => ~handler[h].failed
              /\ handler'[h].pc = "dispatch" => handler[h].pc \in Uncovered /\ handler[h].op.command
              /\ handler'[h].pc \notin Uncovered
              /\ handler'[h].pc = "published" /\ handler[h].op.command => command'.published
  PROVE  CommandInv'
<1>1. \A g \in Handlers : Owns(g)' => Owns(g)
  BY DEF Owns, OnlyHandler, Active, Terminal
<1>2. ASSUME NEW g \in Handlers
      PROVE  /\ handler'[g].pc = "dispatch" => handler'[g].op.command
             /\ Owns(g)' =>
                  /\ handler'[g].pc \in Uncovered \union {"dispatch"} => command.dispatches = 0
                  /\ handler'[g].pc = "published" => command'.published
  <2>1. CASE g = h
    BY <1>1, <2>1 DEF CommandInv, Owns, Active, Terminal
  <2>2. CASE g # h
    BY <1>1, <2>2 DEF CommandInv, OnlyHandler
  <2> QED
    BY <2>1, <2>2
<1> QED
  BY <1>1, <1>2 DEF CommandInv

LEMMA ReplyInv ==
  ASSUME Types, LeaseInv, FenceInv, CommandInv, NEW h \in Handlers,
         \/ \E op \in Operations[h] : Refuse(h, op) \/ Receipt(h, op)
         \/ Answer(h)
  PROVE  Types' /\ LeaseInv' /\ FenceInv' /\ CommandInv'
<1>1. Reply(h) /\ UNCHANGED <<db, runtime, refresh, req, command>>
  BY DEF Refuse, Receipt, Answer
<1>2. handler[h].pc # "refreshing"
  BY DEF Refuse, Receipt, Answer
<1>3. \/ ghost' = ghost
      \/ /\ ghost' = [ghost EXCEPT !.acked = @ \union {handler[h].subject}]
         /\ handler[h].pc = "published" /\ handler[h].stands
  BY DEF Refuse, Receipt, Answer
<1>4. /\ handler' \in [Handlers -> Ended \union Working] /\ OnlyHandler(h)
      /\ handler'[h].pc = "answered"
  BY <1>1, ReplyEffects
<1>5. FenceInv' /\ ghost' \in Ghosts /\ ghost'.age = ghost.age
  BY <1>1, <1>2, <1>3, <1>4, HandlerFence
<1>6. LeaseInv'
  BY <1>1, <1>5, HandlerLease
<1>7. CommandInv'
  BY <1>1, <1>4, RowUntouched DEF Terminal
<1>8. Types'
  BY <1>1, <1>4, <1>5 DEF Types
<1> QED
  BY <1>5, <1>6, <1>7, <1>8

LEMMA UnavailableInv ==
  ASSUME Types, LeaseInv, FenceInv, CommandInv, NEW h \in Handlers, RefreshUnavailable(h)
  PROVE  Types' /\ LeaseInv' /\ FenceInv' /\ CommandInv'
<1>1. /\ handler[h].pc = "refresh" /\ handler' = [handler EXCEPT ![h].pc = "unpublished"]
      /\ UNCHANGED <<db, runtime, refresh, req, command, ghost>>
  BY DEF RefreshUnavailable
<1>2. Active(h) /\ "unpublished" \in Stages \ {"published", "committed", "drawn"}
  BY <1>1 DEF Active, Terminal, Stages
<1>3. handler' \in [Handlers -> Ended \union Working] /\ OnlyHandler(h) /\ Goes(h, "unpublished")
  BY <1>1, <1>2, MoveEffects
<1>4. FenceInv' /\ ghost'.age = ghost.age
  BY <1>1, <1>2, <1>3, HandlerFence
<1>5. LeaseInv'
  BY <1>1, <1>4, HandlerLease
<1>6. CommandInv'
  BY <1>1, <1>2, <1>3, RowUntouched DEF Goes, Uncovered
<1>7. Types'
  BY <1>1, <1>3 DEF Types
<1> QED
  BY <1>4, <1>5, <1>6, <1>7

LEMMA DispatchInv ==
  ASSUME Types, LeaseInv, FenceInv, CommandInv, NEW h \in Handlers, Dispatch(h)
  PROVE  Types' /\ LeaseInv' /\ FenceInv' /\ CommandInv'
<1>1. handler[h].pc = "dispatch" /\ UNCHANGED <<db, runtime, refresh, req, ghost>>
  BY DEF Dispatch
<1>2. Active(h) /\ Owns(h)
  BY <1>1 DEF Active, Terminal, Owns, CommandInv, Uncovered
<1>3. CASE Reply(h) /\ UNCHANGED command
  <2>1. /\ handler' \in [Handlers -> Ended \union Working] /\ OnlyHandler(h)
        /\ handler'[h].pc = "answered"
    BY <1>3, ReplyEffects
  <2>2. FenceInv' /\ ghost'.age = ghost.age
    BY <1>1, <2>1, HandlerFence
  <2>3. LeaseInv'
    BY <1>1, <2>2, HandlerLease
  <2>4. CommandInv'
    BY <1>3, <2>1, RowUntouched DEF Terminal
  <2>5. Types'
    BY <1>1, <1>3, <2>1 DEF Types
  <2> QED
    BY <2>2, <2>3, <2>4, <2>5
<1>4. CASE /\ handler' = [handler EXCEPT ![h].pc = "refresh"]
           /\ command' = [command EXCEPT !.dispatches = @ + 1]
  <2>1. "refresh" \in Stages \ {"published", "committed", "drawn"}
    BY DEF Stages
  <2>2. handler' \in [Handlers -> Ended \union Working] /\ OnlyHandler(h) /\ Goes(h, "refresh")
    BY <1>2, <1>4, <2>1, MoveEffects
  <2>3. FenceInv' /\ ghost'.age = ghost.age
    BY <1>1, <1>2, <2>1, <2>2, HandlerFence
  <2>4. LeaseInv'
    BY <1>1, <2>3, HandlerLease
  <2>5. /\ command' \in Rows /\ command'.dispatches = command.dispatches + 1
        /\ command'.outcome = command.outcome /\ command'.published = command.published
    BY <1>4 DEF Types, Rows
  <2>6. Types'
    BY <1>1, <2>2, <2>5 DEF Types
  <2>7. command.dispatches = 0 /\ command.outcome # "none" /\ \A g \in Handlers : Owns(g) => g = h
    BY <1>1, <1>2 DEF CommandInv
  <2>8. \A g \in Handlers : Owns(g)' => Owns(g)
    BY <1>2, <2>2 DEF Owns, OnlyHandler, Goes, Active
  <2>9. CommandInv'
    BY <2>2, <2>5, <2>7, <2>8 DEF CommandInv, OnlyHandler, Goes, Uncovered
  <2> QED
    BY <2>3, <2>4, <2>6, <2>9
<1> QED
  BY <1>3, <1>4 DEF Dispatch

LEMMA FinalizeInv ==
  ASSUME Types, LeaseInv, FenceInv, CommandInv, NEW h \in Handlers, Finalize(h)
  PROVE  Types' /\ LeaseInv' /\ FenceInv' /\ CommandInv'
<1>1. /\ handler[h].pc \in {"published", "unpublished"} /\ handler[h].op.command
      /\ Reply(h) /\ UNCHANGED <<db, runtime, refresh, req, ghost>>
  BY DEF Finalize
<1>2. /\ handler' \in [Handlers -> Ended \union Working] /\ OnlyHandler(h)
      /\ handler'[h].pc = "answered"
  BY <1>1, ReplyEffects
<1>3. FenceInv' /\ ghost'.age = ghost.age
  BY <1>1, <1>2, HandlerFence
<1>4. LeaseInv'
  BY <1>1, <1>3, HandlerLease
<1>5. CASE UNCHANGED command
  BY <1>1, <1>2, <1>3, <1>4, <1>5, RowUntouched DEF Terminal, Types
<1>6. CASE command.outcome = "claimed" /\ command' = [command EXCEPT !.outcome = Outcome(h)]
  <2>1. Outcome(h) \in {"refresh_returned_nil", "refresh_returned_error"}
    BY DEF Outcome
  <2>2. /\ command' \in Rows /\ command'.outcome = Outcome(h)
        /\ command'.dispatches = command.dispatches /\ command'.published = command.published
    BY <1>6, <2>1 DEF Types, Rows
  <2>3. Outcome(h) = "refresh_returned_nil" => command.published
    BY <1>1 DEF Outcome, CommandInv, Owns, Active, Terminal, Uncovered
  <2>4. \A g \in Handlers : Owns(g)' => Owns(g) /\ handler'[g] = handler[g]
    BY <1>2 DEF Owns, OnlyHandler, Active, Terminal
  <2>5. CommandInv'
    BY <1>2, <2>1, <2>2, <2>3, <2>4 DEF CommandInv, OnlyHandler
  <2> QED
    BY <1>1, <1>2, <1>3, <1>4, <2>2, <2>5 DEF Types
<1> QED
  BY <1>5, <1>6 DEF Finalize

-----------------------------------------------------------------------------
(* The barrier.                                                            *)
LEMMA ProceedEffects ==
  ASSUME Types, CommandInv, NEW h \in Handlers, handler[h].pc \in Uncovered, Proceed(h),
         UNCHANGED command
  PROVE  /\ Active(h) /\ handler[h] \in Working
         /\ handler' \in [Handlers -> Ended \union Working] /\ OnlyHandler(h)
         /\ \/ handler'[h].pc = "answered"
            \/ \E x \in {"dispatch", "refresh"} : Goes(h, x)
         /\ CommandInv'
<1>2. Active(h) /\ handler[h] \in Working
  BY HandlerRecords DEF Active, Terminal, Uncovered
<1>3. /\ handler' \in [Handlers -> Ended \union Working] /\ OnlyHandler(h)
      /\ \/ handler[h].failed /\ handler'[h].pc = "answered"
         \/ /\ ~handler[h].failed
            /\ Goes(h, IF handler[h].op.command THEN "dispatch" ELSE "refresh")
  <2>1. CASE handler[h].failed
    BY <2>1, ReplyEffects DEF Proceed
  <2>2. CASE ~handler[h].failed
    <3> DEFINE x == IF handler[h].op.command THEN "dispatch" ELSE "refresh"
               rest == [handler[h].op EXCEPT !.pin = "none"]
               moved == [handler[h] EXCEPT !.pc = x, !.op = rest, !.barrier = FALSE, !.drawn = 0]
    <3>1. handler' = [handler EXCEPT ![h] = moved]
      BY <2>2 DEF Proceed, Types
    <3>2. rest \in Ops /\ rest.command = handler[h].op.command
      BY <1>2 DEF Working, Ops, Pins
    <3>3. x \in Stages
      BY DEF Stages
    <3> HIDE DEF x, rest
    <3>4. /\ moved \in Working /\ moved.pc = x /\ moved.op = rest
          /\ moved.subject = handler[h].subject
          /\ moved.stands = handler[h].stands /\ moved.failed = handler[h].failed
      BY <1>2, <3>2, <3>3 DEF Working
    <3> HIDE DEF moved
    <3>5. Goes(h, x)
      BY <3>1, <3>2, <3>4 DEF Goes, Types
    <3>6. Goes(h, IF handler[h].op.command THEN "dispatch" ELSE "refresh")
      BY <3>5 DEF x
    <3> QED
      BY <2>2, <3>1, <3>4, <3>6 DEF Types, OnlyHandler
  <2> QED
    BY <2>1, <2>2
<1>4. CommandInv'
  BY <1>2, <1>3, RowUntouched DEF Goes, Terminal, Uncovered
<1>5. \/ handler'[h].pc = "answered"
      \/ \E x \in {"dispatch", "refresh"} : Goes(h, x)
  BY <1>3
<1> QED
  BY <1>2, <1>3, <1>4, <1>5

LEMMA NoBarrierInv ==
  ASSUME Types, LeaseInv, FenceInv, CommandInv, NEW h \in Handlers, NoBarrier(h)
  PROVE  Types' /\ LeaseInv' /\ FenceInv' /\ CommandInv'
<1>1. /\ handler[h].pc = "committed" /\ handler[h].pc \in Uncovered /\ Proceed(h)
      /\ UNCHANGED <<db, runtime, refresh, req, command, ghost>>
  BY DEF NoBarrier, Uncovered
<1>2. /\ Active(h) /\ handler' \in [Handlers -> Ended \union Working] /\ OnlyHandler(h)
      /\ \/ handler'[h].pc = "answered"
         \/ \E x \in {"dispatch", "refresh"} : Goes(h, x)
      /\ CommandInv'
  BY <1>1, ProceedEffects
<1>3. \A x \in {"dispatch", "refresh"} : x \in Stages \ {"published", "committed", "drawn"}
  BY DEF Stages
<1>4. FenceInv' /\ ghost'.age = ghost.age
  BY <1>1, <1>2, <1>3, HandlerFence
<1>5. LeaseInv'
  BY <1>1, <1>4, HandlerLease
<1> QED
  BY <1>1, <1>2, <1>4, <1>5 DEF Types

(* The epoch that is drawn is younger than every refresh under way.        *)
LEMMA DrawEpochInv ==
  ASSUME Types, LeaseInv, FenceInv, CommandInv, NEW h \in Handlers, DrawEpoch(h)
  PROVE  Types' /\ LeaseInv' /\ FenceInv' /\ CommandInv'
<1>1. /\ handler[h].pc = "committed"
      /\ runtime' = [runtime EXCEPT !.epoch = @ + 1]
      /\ handler' = [handler EXCEPT ![h].pc = "drawn", ![h].drawn = runtime.epoch + 1]
      /\ UNCHANGED <<db, refresh, req, command, ghost>>
  BY DEF DrawEpoch
<1>2. Active(h) /\ handler[h] \in Working
  BY <1>1, HandlerRecords DEF Active, Terminal
<1>3. /\ runtime' \in Runtimes /\ runtime'.auth = runtime.auth
      /\ runtime'.denied = runtime.denied
      /\ runtime'.epoch = runtime.epoch + 1 /\ runtime.epoch \in Nat
  BY <1>1 DEF Types, Runtimes
<1>4. /\ handler' \in [Handlers -> Ended \union Working] /\ OnlyHandler(h)
      /\ Goes(h, "drawn") /\ handler'[h].drawn = runtime.epoch + 1
      /\ handler'[h].op = handler[h].op
  <2>0. PICK n \in Nat : n = runtime.epoch + 1
    BY <1>3
  <2> DEFINE moved == [handler[h] EXCEPT !.pc = "drawn", !.drawn = n]
  <2>1. handler' = [handler EXCEPT ![h] = moved]
    BY <1>1, <2>0 DEF Types
  <2>2. moved.drawn = n /\ moved \in Working
    BY <1>2 DEF Working, Stages
  <2>3. /\ moved.pc = "drawn" /\ moved.op = handler[h].op
        /\ moved.subject = handler[h].subject
        /\ moved.stands = handler[h].stands /\ moved.failed = handler[h].failed
    BY <1>2 DEF Working
  <2> HIDE DEF moved
  <2> QED
    BY <2>0, <2>1, <2>2, <2>3 DEF Types, OnlyHandler, Goes
<1>5. refresh.pc # "idle" => refresh.generation \in Nat /\ refresh.generation <= runtime.epoch
  BY DEF Types, NoRefresh, Begun, Filled, FenceInv, RefreshInv
<1>6. Types'
  BY <1>1, <1>3, <1>4 DEF Types
<1>7. LeaseInv'
  BY <1>1, <1>3 DEF LeaseInv, Reads
<1>8. RefreshInv'
  BY <1>1, <1>3, <1>4, <1>5 DEF FenceInv, RefreshInv, OnlyHandler
<1>9. ASSUME NEW t \in Subjects PROVE SubjectInv(t)'
  BY <1>1, <1>3 DEF FenceInv, SubjectInv, Settled, Guarded, Reads
<1>10. ASSUME NEW g \in Handlers PROVE StandingInv(g)'
  <2>1. CASE g = h
    <3>1. handler'[h].pc = "drawn" /\ handler'[h].drawn # 0
      BY <1>3, <1>4 DEF Goes
    <3>2. ~(refresh.pc # "idle" /\ refresh.by # Ticker /\ refresh.by = h)
      BY <1>1 DEF FenceInv, RefreshInv
    <3>3. Reads => ~(refresh.generation >= handler'[h].drawn)
      BY <1>3, <1>4, <1>5 DEF Reads
    <3>4. handler'[h].stands => db'[handler'[h].subject] = "denied"
      BY <1>1, <1>2, <1>4 DEF FenceInv, StandingInv, Goes
    <3>5. handler'[h].op.pin # "none" => refresh'.pc = "idle"
      BY <1>1, <1>4 DEF FenceInv, StandingInv, Uncovered
    <3> QED
      BY <1>1, <2>1, <3>1, <3>2, <3>3, <3>4, <3>5 DEF StandingInv, Reads
  <2>2. CASE g # h
    BY <1>1, <1>3, <1>4, <2>2 DEF FenceInv, StandingInv, OnlyHandler, Active, Settled, Reads
  <2> QED
    BY <2>1, <2>2
<1>11. RequestInv'
  BY <1>1, <1>3 DEF FenceInv, RequestInv
<1>12. CommandInv'
  <2>1. \A g \in Handlers : Owns(g)' <=> Owns(g)
    BY <1>1, <1>2, <1>4 DEF Owns, OnlyHandler, Goes, Active, Uncovered, Terminal
  <2>2. \A g \in Handlers : handler'[g].pc = "dispatch" => handler'[g].op.command
    BY <1>4 DEF CommandInv, OnlyHandler, Goes
  <2>3. \A g \in Handlers : /\ handler'[g].pc \in Uncovered \union {"dispatch"} =>
                                 handler[g].pc \in Uncovered \union {"dispatch"}
                            /\ handler'[g].pc = "published" => handler[g].pc = "published"
    BY <1>1, <1>4 DEF OnlyHandler, Goes, Uncovered
  <2> QED
    BY <1>1, <2>1, <2>2, <2>3 DEF CommandInv
<1> QED
  BY <1>6, <1>7, <1>8, <1>9, <1>10, <1>11, <1>12 DEF FenceInv

(* What is stored may be older than what it replaces; then what was fenced *)
(* lapses, unless no read under way can clear the older one.               *)
LEMMA FenceStepInv ==
  ASSUME Types, LeaseInv, FenceInv, CommandInv, NEW h \in Handlers, Fence(h)
  PROVE  Types' /\ LeaseInv' /\ FenceInv' /\ CommandInv'
<1> DEFINE s == handler[h].subject
           d == handler[h].drawn
           mine == IF handler[h].stands THEN {s} ELSE {}
           lapsed == IF Lapses(s, d) THEN {s} ELSE {}
           left == (ghost.fenced \ lapsed) \union mine
           gates == IF handler[h].op.pin # "none" THEN ghost.gated \union mine ELSE ghost.gated
<1>1. /\ handler[h].pc = "drawn" /\ handler[h].pc \in Uncovered /\ Proceed(h)
      /\ UNCHANGED <<db, refresh, command>>
      /\ runtime' = [runtime EXCEPT !.denied[s] = d]
      /\ ghost' = [ghost EXCEPT !.fenced = left, !.gated = gates]
      /\ req' = IF req.pc = "loaded" /\ req.subject \in lapsed
                THEN [req EXCEPT !.fenced = FALSE] ELSE req
  BY DEF Fence, Uncovered
<1>2. /\ Active(h) /\ handler[h] \in Working
      /\ handler' \in [Handlers -> Ended \union Working] /\ OnlyHandler(h)
      /\ \/ handler'[h].pc = "answered"
         \/ \E x \in {"dispatch", "refresh"} : Goes(h, x)
      /\ CommandInv'
  BY <1>1, ProceedEffects
<1>3. s \in Subjects /\ d \in Nat /\ d # 0
  BY <1>1, <1>2 DEF Working, FenceInv, StandingInv
<1>4. /\ runtime' \in Runtimes /\ runtime'.auth = runtime.auth
      /\ runtime'.epoch = runtime.epoch
      /\ \A t \in Subjects : runtime'.denied[t] = IF t = s THEN d ELSE runtime.denied[t]
      /\ \A t \in Subjects : runtime.denied[t] \in Nat
  <2> DEFINE tombs == [runtime.denied EXCEPT ![s] = d]
             next == [auth |-> runtime.auth, epoch |-> runtime.epoch, denied |-> tombs]
  <2>1. runtime' = next
    BY <1>1 DEF Types, Runtimes
  <2>2. /\ runtime.epoch \in Nat /\ runtime.denied \in [Subjects -> Nat]
        /\ runtime.auth \in Snapshots
    BY DEF Types, Runtimes
  <2>3. /\ tombs \in [Subjects -> Nat]
        /\ \A t \in Subjects : tombs[t] = IF t = s THEN d ELSE runtime.denied[t]
    BY <1>3, <2>2
  <2> HIDE DEF tombs
  <2>4. next \in Runtimes /\ next.auth = runtime.auth /\ next.epoch = runtime.epoch
        /\ next.denied = tombs
    BY <2>2, <2>3 DEF Runtimes
  <2> HIDE DEF next
  <2> QED
    BY <2>1, <2>2, <2>3, <2>4
<1>5. /\ ghost' \in Ghosts /\ ghost'.acked = ghost.acked /\ ghost'.age = ghost.age
      /\ \A t \in Subjects : t \in ghost'.fenced =>
           \/ t = s /\ handler[h].stands
           \/ t \in ghost.fenced /\ t \notin lapsed
      /\ \A t \in Subjects : t \in ghost'.gated =>
           \/ t = s /\ handler[h].stands /\ handler[h].op.pin # "none"
           \/ t \in ghost.gated
  <2>1. left \in SUBSET Subjects /\ gates \in SUBSET Subjects
    BY <1>3 DEF Types, Ghosts
  <2>2. /\ \A t \in Subjects : t \in left => \/ t = s /\ handler[h].stands
                                             \/ t \in ghost.fenced /\ t \notin lapsed
        /\ \A t \in Subjects : t \in gates =>
             \/ t = s /\ handler[h].stands /\ handler[h].op.pin # "none"
             \/ t \in ghost.gated
    OBVIOUS
  <2> HIDE DEF left, gates
  <2>3. ghost' \in Ghosts /\ ghost'.acked = ghost.acked /\ ghost'.age = ghost.age
        /\ ghost'.fenced = left /\ ghost'.gated = gates
    BY <1>1, <2>1 DEF Types, Ghosts
  <2> QED
    BY <2>2, <2>3
<1>6. /\ refresh.pc # "idle" => refresh.generation \in Nat
      /\ Reads => refresh.data[s] \in {"permitted", "denied"}
  BY <1>3 DEF Types, NoRefresh, Begun, Filled, Reads, Either, Permit, Revoke
<1>7. /\ \A t : t \in lapsed => t = s
      /\ s \notin lapsed =>
           \/ s \in ghost.gated
           \/ ~(Reads /\ d <= refresh.generation /\ refresh.generation < runtime.denied[s]
                /\ refresh.data[s] = "permitted")
      /\ handler[h].stands => db[s] = "denied"
      /\ handler[h].stands /\ Reads /\ refresh.generation >= d => refresh.data[s] = "denied"
      /\ handler[h].op.pin # "none" => ~Reads
      /\ s \in ghost.gated /\ Reads => refresh.data[s] = "denied"
  <2>1. /\ \A t : t \in lapsed => t = s
        /\ s \notin lapsed => ~Lapses(s, d)
    OBVIOUS
  <2> HIDE DEF lapsed
  <2>2. ~Lapses(s, d) =>
           \/ s \in ghost.gated
           \/ ~(Reads /\ d <= refresh.generation /\ refresh.generation < runtime.denied[s]
                /\ refresh.data[s] = "permitted")
    BY <1>3, <1>4, <1>6 DEF Lapses, Reads
  <2>3. /\ handler[h].stands => db[s] = "denied"
        /\ handler[h].stands /\ Reads /\ refresh.generation >= d => refresh.data[s] = "denied"
        /\ handler[h].op.pin # "none" => ~Reads
    BY <1>1, <1>2 DEF Reads, FenceInv, StandingInv
  <2>4. s \in ghost.gated /\ Reads => refresh.data[s] = "denied"
    BY <1>3 DEF FenceInv, SubjectInv
  <2> QED
    BY <2>1, <2>2, <2>3, <2>4
<1> HIDE DEF lapsed, left, gates, mine
<1>8. /\ req' \in {NoRequest} \union Asked /\ req'.pc = req.pc
      /\ req.pc = "loaded" =>
           /\ req'.subject = req.subject /\ req'.acked = req.acked /\ req'.age = req.age
           /\ req'.overtaken = req.overtaken /\ req.subject \in Subjects
           /\ req'.fenced => req.fenced /\ req.subject \notin lapsed
  <2>1. CASE req.pc = "loaded"
    <3>1. req \in Asked
      BY <2>1 DEF Types, NoRequest
    <3> QED
      BY <1>1, <2>1, <3>1 DEF Asked
  <2>2. CASE req.pc # "loaded"
    BY <1>1, <2>2 DEF Types
  <2> QED
    BY <2>1, <2>2
<1>9. Types'
  BY <1>1, <1>2, <1>4, <1>5, <1>8 DEF Types
<1>10. LeaseInv'
  BY <1>1, <1>4, <1>5, <1>8 DEF LeaseInv, Reads
<1>11. RefreshInv'
  BY <1>1, <1>2, <1>4 DEF FenceInv, RefreshInv, OnlyHandler
<1>12. ASSUME NEW t \in Subjects PROVE SubjectInv(t)'
  <2>1. Settled(t)' <=> Settled(t)
    BY <1>1, <1>4 DEF Settled, Reads
  <2>2. t # s /\ Guarded(t) => Guarded(t)'
    BY <1>1, <1>4 DEF Guarded, Reads
  <2>3. t = s /\ Guarded(t) /\ s \notin lapsed => Guarded(t)'
    BY <1>1, <1>3, <1>4, <1>6, <1>7 DEF Guarded, Reads
  <2>4. t = s /\ handler[h].stands => Guarded(t)'
    BY <1>1, <1>3, <1>4, <1>6, <1>7 DEF Guarded, Reads
  <2>5. t \in ghost'.gated => db'[t] = "denied" /\ (Reads' => refresh'.data[t] = "denied")
    BY <1>1, <1>5, <1>7 DEF FenceInv, SubjectInv, Reads
  <2> QED
    BY <1>1, <1>5, <1>7, <2>1, <2>2, <2>3, <2>4, <2>5 DEF FenceInv, SubjectInv
<1>13. ASSUME NEW g \in Handlers PROVE StandingInv(g)'
  <2>1. CASE g = h
    BY <1>1, <1>2, <1>4, <2>1
       DEF FenceInv, StandingInv, Goes, Active, Terminal, Settled, Reads, Uncovered
  <2>2. CASE g # h
    BY <1>1, <1>2, <1>4, <2>2 DEF FenceInv, StandingInv, OnlyHandler, Active, Settled, Reads
  <2> QED
    BY <2>1, <2>2
<1>14. RequestInv'
  <2> SUFFICES ASSUME req.pc = "loaded" PROVE RequestInv'
    BY <1>8 DEF RequestInv
  <2>1. /\ ~req'.acked
        /\ ~req'.overtaken => runtime'.auth.facts[req'.subject] = "permitted"
    BY <1>4, <1>8 DEF FenceInv, RequestInv
  <2>2. ASSUME req'.fenced, ~req'.overtaken
        PROVE  /\ runtime'.denied[req'.subject] # 0
               /\ refresh.pc = "stored" => refresh.generation < runtime'.denied[req'.subject]
    <3>1. /\ runtime.denied[req.subject] # 0 /\ req'.subject = req.subject
          /\ refresh.pc = "stored" => refresh.generation < runtime.denied[req.subject]
      BY <1>8, <2>2 DEF FenceInv, RequestInv
    <3>2. CASE req.subject # s
      BY <1>4, <1>8, <3>1, <3>2
    <3>3. CASE req.subject = s
      <4>1. refresh.pc = "stored" => refresh.data[s] = "permitted" /\ Reads
        BY <1>8, <2>2, <3>3 DEF FenceInv, RequestInv, RefreshInv, Reads
      <4>2. s \notin lapsed
        BY <1>8, <2>2, <3>3
      <4>3. refresh.pc = "stored" => refresh.generation < d
        BY <1>3, <1>6, <1>7, <3>1, <3>3, <4>1, <4>2
      <4> QED
        BY <1>3, <1>4, <3>1, <3>3, <4>3
    <3> QED
      BY <3>2, <3>3
  <2> QED
    BY <1>1, <1>8, <2>1, <2>2 DEF RequestInv
<1> QED
  BY <1>2, <1>9, <1>10, <1>11, <1>12, <1>13, <1>14 DEF FenceInv

-----------------------------------------------------------------------------
(* The refresh.                                                            *)

(* What is known of a refresh that has read the database.                  *)
LEMMA FilledFacts ==
  ASSUME Types, Reads
  PROVE  refresh \in Filled /\ refresh.data \in [Subjects -> Either] /\ refresh.left \in 0 .. Lease
BY DEF Types, Reads, NoRefresh, Begun, Filled

(* The refresh ends: the handler it ran for moves, the ticker does not.    *)
LEMMA RefreshedEffects ==
  ASSUME Types, RefreshInv, refresh.pc # "idle", NEW x \in Stages, Refreshed(refresh.by, x)
  PROVE  /\ handler' \in [Handlers -> Ended \union Working]
         /\ OnlyHandler(refresh.by)
         /\ refresh.by = Ticker => handler' = handler
         /\ refresh.by # Ticker => /\ refresh.by \in Handlers /\ Active(refresh.by)
                                   /\ handler[refresh.by].pc = "refreshing"
                                   /\ Goes(refresh.by, x)
<1>1. CASE refresh.by = Ticker
  BY <1>1 DEF Refreshed, Types, OnlyHandler
<1>2. CASE refresh.by # Ticker
  <2>1. refresh.by \in Handlers /\ handler[refresh.by].pc = "refreshing" /\ Active(refresh.by)
    BY <1>2 DEF RefreshInv, Active, Terminal
  <2>2. handler' = [handler EXCEPT ![refresh.by].pc = x]
    BY <1>2 DEF Refreshed
  <2> QED
    BY <1>2, <2>1, <2>2, MoveEffects
<1> QED
  BY <1>1, <1>2

LEMMA RefreshBeginInv ==
  ASSUME Types, LeaseInv, FenceInv, CommandInv,
         NEW by \in Handlers \union {Ticker}, RefreshBegin(by)
  PROVE  Types' /\ LeaseInv' /\ FenceInv' /\ CommandInv'
<1>1. /\ refresh.pc = "idle" /\ ~ExclusivelyPinned
      /\ by # Ticker => by \in Handlers /\ handler[by].pc = "refresh"
      /\ refresh' = [pc |-> "reading", by |-> by, generation |-> runtime.epoch, left |-> Lease]
      /\ UNCHANGED <<db, runtime, req, command, ghost>>
  BY DEF RefreshBegin
<1>2. /\ handler' \in [Handlers -> Ended \union Working]
      /\ OnlyHandler(by)
      /\ by = Ticker => handler' = handler
      /\ by # Ticker => Active(by) /\ Goes(by, "refreshing")
  <2>1. CASE by = Ticker
    BY <2>1 DEF RefreshBegin, Refreshed, OnlyHandler, Types
  <2>2. CASE by # Ticker
    <3>1. handler' = [handler EXCEPT ![by].pc = "refreshing"]
      BY <2>2 DEF RefreshBegin, Refreshed
    <3>2. Active(by) /\ "refreshing" \in Stages
      BY <1>1, <2>2 DEF Active, Terminal, Stages
    <3> QED
      BY <1>1, <2>2, <3>1, <3>2, MoveEffects
  <2> QED
    BY <2>1, <2>2
<1>3. runtime.epoch \in Nat /\ Lease \in Nat
  BY RuntimeAssumption DEF Types, Runtimes
<1>4. refresh' \in Begun
  BY <1>1, <1>3 DEF Begun
<1>5. Types'
  BY <1>1, <1>2, <1>4 DEF Types
<1>6. ~Reads /\ ~Reads' /\ refresh'.pc = "reading"
  BY <1>1 DEF Reads
<1>7. LeaseInv'
  BY <1>1, <1>6 DEF LeaseInv
<1>8. FenceInv'
  <2>1. RefreshInv'
    BY <1>1, <1>2, <1>3 DEF RefreshInv, Goes
  <2>2. \A s \in Subjects : SubjectInv(s)'
    BY <1>1, <1>6 DEF FenceInv, SubjectInv, Settled, Guarded
  <2>3. ASSUME NEW g \in Handlers PROVE StandingInv(g)'
    <3>1. CASE handler'[g] = handler[g]
      BY <1>1, <1>6, <3>1 DEF FenceInv, StandingInv, Active, Settled, ExclusivelyPinned
    <3>2. CASE by # Ticker /\ g = by
      BY <1>1, <1>2, <1>6, <3>2 DEF FenceInv, StandingInv, Active, Goes, Uncovered
    <3> QED
      BY <1>2, <3>1, <3>2 DEF OnlyHandler
  <2>4. RequestInv'
    BY <1>1, <1>6 DEF FenceInv, RequestInv
  <2> QED
    BY <2>1, <2>2, <2>3, <2>4 DEF FenceInv
<1>9. CommandInv'
  <2>1. CASE by = Ticker
    BY <1>1, <1>2, <2>1 DEF CommandInv, Owns, Active
  <2>2. CASE by # Ticker
    BY <1>1, <1>2, <2>2, RowUntouched DEF Goes, Uncovered
  <2> QED
    BY <2>1, <2>2
<1> QED
  BY <1>5, <1>7, <1>8, <1>9

LEMMA RefreshReadInv ==
  ASSUME Types, LeaseInv, FenceInv, CommandInv, RefreshRead
  PROVE  Types' /\ LeaseInv' /\ FenceInv' /\ CommandInv'
<1>1. /\ refresh.pc = "reading"
      /\ refresh' = [pc |-> "read", by |-> refresh.by, generation |-> refresh.generation,
                     left |-> refresh.left, data |-> db]
      /\ UNCHANGED <<db, runtime, handler, req, command, ghost>>
  BY DEF RefreshRead
<1>2. refresh \in Begun
  BY <1>1 DEF Types, NoRefresh, Filled
<1>3. refresh' \in Filled
  BY <1>1, <1>2 DEF Begun, Filled, Types
<1>4. Types'
  BY <1>1, <1>3 DEF Types
<1>5. refresh.left \in 0 .. Lease /\ Lease \in Nat
  BY <1>2, RuntimeAssumption DEF Begun
<1>6. LeaseInv'
  BY <1>1, <1>5 DEF LeaseInv, Reads
<1>7. FenceInv'
  <2>1. RefreshInv'
    BY <1>1 DEF FenceInv, RefreshInv
  <2>2. \A s \in Subjects : SubjectInv(s)'
    BY <1>1 DEF FenceInv, SubjectInv, Settled, Guarded, Reads
  <2>3. \A g \in Handlers : StandingInv(g)'
    BY <1>1 DEF FenceInv, StandingInv, Active, Settled, Reads
  <2>4. RequestInv'
    BY <1>1 DEF FenceInv, RequestInv
  <2> QED
    BY <2>1, <2>2, <2>3, <2>4 DEF FenceInv
<1>8. CommandInv'
  BY <1>1 DEF CommandInv, Owns, Active
<1> QED
  BY <1>4, <1>6, <1>7, <1>8

LEMMA RefreshFailInv ==
  ASSUME Types, LeaseInv, FenceInv, CommandInv, RefreshFail
  PROVE  Types' /\ LeaseInv' /\ FenceInv' /\ CommandInv'
<1>1. /\ refresh.pc \in {"reading", "read"} /\ refresh' = NoRefresh
      /\ UNCHANGED <<db, runtime, req, command, ghost>>
  BY DEF RefreshFail
<1>2. /\ handler' \in [Handlers -> Ended \union Working]
      /\ OnlyHandler(refresh.by)
      /\ refresh.by = Ticker => handler' = handler
      /\ refresh.by # Ticker => /\ refresh.by \in Handlers /\ Active(refresh.by)
                                /\ handler[refresh.by].pc = "refreshing"
                                /\ Goes(refresh.by, "unpublished")
  BY <1>1, RefreshedEffects DEF RefreshFail, FenceInv, Stages
<1>3. Types'
  BY <1>1, <1>2 DEF Types
<1>4. ~Reads' /\ refresh'.pc = "idle"
  BY <1>1 DEF Reads, NoRefresh
<1>5. LeaseInv'
  BY <1>1, <1>4 DEF LeaseInv
<1>6. FenceInv'
  <2>1. RefreshInv' /\ RequestInv'
    BY <1>1, <1>4 DEF FenceInv, RefreshInv, RequestInv
  <2>2. \A s \in Subjects : SubjectInv(s)'
    BY <1>1, <1>4 DEF FenceInv, SubjectInv, Settled, Guarded
  <2>3. ASSUME NEW g \in Handlers PROVE StandingInv(g)'
    <3>1. CASE handler'[g] = handler[g]
      BY <1>1, <1>4, <3>1 DEF FenceInv, StandingInv, Active, Settled
    <3>2. CASE refresh.by # Ticker /\ g = refresh.by
      BY <1>1, <1>2, <1>4, <3>2 DEF FenceInv, StandingInv, Active, Goes, Uncovered
    <3> QED
      BY <1>2, <3>1, <3>2 DEF OnlyHandler
  <2> QED
    BY <2>1, <2>2, <2>3 DEF FenceInv
<1>7. CommandInv'
  <2>1. CASE refresh.by = Ticker
    BY <1>1, <1>2, <2>1 DEF CommandInv, Owns, Active
  <2>2. CASE refresh.by # Ticker
    BY <1>1, <1>2, <2>2, RowUntouched DEF Goes, Uncovered
  <2> QED
    BY <2>1, <2>2
<1> QED
  BY <1>3, <1>5, <1>6, <1>7

LEMMA RefreshStoreInv ==
  ASSUME Types, LeaseInv, FenceInv, CommandInv, RefreshStore
  PROVE  Types' /\ LeaseInv' /\ FenceInv' /\ CommandInv'
<1>1. /\ refresh.pc = "read"
      /\ runtime' = [runtime EXCEPT !.auth = [facts |-> refresh.data, left |-> refresh.left]]
      /\ refresh' = [refresh EXCEPT !.pc = "stored"]
      /\ req' = IF req.pc = "loaded" THEN [req EXCEPT !.overtaken = TRUE] ELSE req
      /\ UNCHANGED <<db, handler, command, ghost>>
  BY DEF RefreshStore, buildRuntimeAuthorization, LeaseLeft
<1>2. Reads /\ refresh \in Filled /\ refresh.data \in [Subjects -> Either]
      /\ refresh.left \in 0 .. Lease
  BY <1>1, FilledFacts DEF Reads
<1>3. /\ refresh' \in Filled /\ refresh'.pc = "stored" /\ refresh'.by = refresh.by
      /\ refresh'.generation = refresh.generation /\ refresh'.left = refresh.left
      /\ refresh'.data = refresh.data /\ Reads'
  BY <1>1, <1>2 DEF Filled, Reads
<1>4. /\ runtime' \in Runtimes /\ runtime'.epoch = runtime.epoch
      /\ runtime'.denied = runtime.denied
      /\ runtime'.auth.facts = refresh.data /\ runtime'.auth.left = refresh.left
  BY <1>1, <1>2 DEF Types, Runtimes, Snapshots
<1>5. /\ req' \in {NoRequest} \union Asked
      /\ req'.pc = req.pc
      /\ req.pc = "loaded" => /\ req'.overtaken = TRUE /\ req'.acked = req.acked
                              /\ req'.age = req.age
  <2>1. CASE req.pc = "loaded"
    <3>1. req \in Asked
      BY <2>1 DEF Types, NoRequest
    <3> QED
      BY <1>1, <2>1, <3>1 DEF Asked
  <2>2. CASE req.pc # "loaded"
    BY <1>1, <2>2 DEF Types
  <2> QED
    BY <2>1, <2>2
<1>6. Types'
  BY <1>1, <1>3, <1>4, <1>5 DEF Types
<1>7. LeaseInv'
  BY <1>1, <1>2, <1>3, <1>4, <1>5 DEF LeaseInv
<1>8. FenceInv'
  <2>1. RefreshInv' /\ RequestInv'
    BY <1>1, <1>3, <1>4, <1>5 DEF FenceInv, RefreshInv, RequestInv
  <2>2. \A s \in Subjects : SubjectInv(s)'
    BY <1>1, <1>2, <1>3, <1>4 DEF FenceInv, SubjectInv, Settled, Guarded
  <2>3. \A g \in Handlers : StandingInv(g)'
    BY <1>1, <1>2, <1>3, <1>4 DEF FenceInv, StandingInv, Active, Settled
  <2> QED
    BY <2>1, <2>2, <2>3 DEF FenceInv
<1>9. CommandInv'
  BY <1>1 DEF CommandInv, Owns, Active
<1> QED
  BY <1>6, <1>7, <1>8, <1>9

LEMMA RefreshClearInv ==
  ASSUME Types, LeaseInv, FenceInv, CommandInv, RefreshClear
  PROVE  Types' /\ LeaseInv' /\ FenceInv' /\ CommandInv'
<1> DEFINE tombs == clearRuntimeTombstones(refresh.generation)
           by == refresh.by
<1>1. /\ refresh.pc = "stored" /\ refresh' = NoRefresh
      /\ runtime' = [runtime EXCEPT !.denied = tombs]
      /\ UNCHANGED <<db, req, ghost>>
  BY DEF RefreshClear
<1>2. /\ Reads /\ refresh \in Filled /\ refresh.generation \in Nat
      /\ runtime.auth.facts = refresh.data
  <2>1. Reads
    BY <1>1 DEF Reads
  <2>2. refresh \in Filled
    BY <2>1, FilledFacts
  <2> QED
    BY <1>1, <2>1, <2>2 DEF Filled, FenceInv, RefreshInv
<1>3. /\ tombs \in [Subjects -> Nat]
      /\ \A s \in Subjects : tombs[s] = IF runtime.denied[s] <= refresh.generation
                                         THEN 0 ELSE runtime.denied[s]
  BY DEF Types, Runtimes, clearRuntimeTombstones
<1> HIDE DEF tombs
<1>4. /\ runtime' \in Runtimes /\ runtime'.epoch = runtime.epoch
      /\ runtime'.denied = tombs /\ runtime'.auth = runtime.auth
  BY <1>1, <1>3 DEF Types, Runtimes
<1>5. PICK x \in {"published", "unpublished"} :
        /\ Refreshed(by, x)
        /\ command' = IF x = "published" /\ by # Ticker /\ handler[by].op.command
                      THEN [command EXCEPT !.published = TRUE] ELSE command
  <2>1. CASE /\ Refreshed(by, "published")
             /\ command' = IF by # Ticker /\ handler[by].op.command
                           THEN [command EXCEPT !.published = TRUE] ELSE command
    BY <2>1
  <2>2. CASE Refreshed(by, "unpublished") /\ UNCHANGED command
    BY <2>2
  <2> QED
    BY <2>1, <2>2 DEF RefreshClear, buildRuntimeRoutes
<1>6. /\ handler' \in [Handlers -> Ended \union Working]
      /\ OnlyHandler(by)
      /\ by = Ticker => handler' = handler
      /\ by # Ticker => /\ by \in Handlers /\ Active(by)
                        /\ handler[by].pc = "refreshing" /\ Goes(by, x)
  BY <1>1, <1>5, RefreshedEffects DEF FenceInv, Stages
<1>7. /\ command' \in Rows /\ command'.outcome = command.outcome
      /\ command'.dispatches = command.dispatches
      /\ command.published => command'.published
      /\ x = "published" /\ by # Ticker /\ handler[by].op.command => command'.published
  BY <1>5 DEF Types, Rows
<1>8. Types'
  BY <1>1, <1>4, <1>6, <1>7 DEF Types
<1>9. ~Reads' /\ refresh'.pc = "idle"
  BY <1>1 DEF Reads, NoRefresh
<1>10. LeaseInv'
  BY <1>1, <1>4, <1>9 DEF LeaseInv
<1>11. FenceInv'
  <2>1. RefreshInv'
    BY <1>9 DEF RefreshInv
  <2>2. RequestInv'
    <3> SUFFICES ASSUME req.pc = "loaded" PROVE RequestInv'
      BY <1>1 DEF RequestInv
    <3>1. req.subject \in Subjects /\ runtime.denied[req.subject] \in Nat
      BY DEF Types, NoRequest, Asked, Runtimes
    <3> QED
      BY <1>1, <1>2, <1>3, <1>4, <1>9, <3>1 DEF FenceInv, RequestInv
  <2>3. ASSUME NEW s \in Subjects PROVE SubjectInv(s)'
    <3>1. runtime.denied[s] \in Nat
      BY DEF Types, Runtimes
    <3>2. Settled(s) => Settled(s)'
      BY <1>4, <1>9 DEF Settled
    <3>3. Guarded(s) => Settled(s)' \/ Guarded(s)'
      BY <1>2, <1>3, <1>4, <1>9, <3>1 DEF Settled, Guarded
    <3> QED
      BY <1>1, <1>9, <3>2, <3>3 DEF FenceInv, SubjectInv
  <2>4. ASSUME NEW g \in Handlers PROVE StandingInv(g)'
    <3>1. CASE handler'[g] = handler[g]
      BY <1>1, <1>4, <1>9, <3>1 DEF FenceInv, StandingInv, Active, Settled
    <3>2. CASE by # Ticker /\ g = by
      BY <1>1, <1>2, <1>4, <1>6, <1>9, <3>2 DEF FenceInv, StandingInv, Active, Goes, Settled, Uncovered
    <3> QED
      BY <1>6, <3>1, <3>2 DEF OnlyHandler
  <2> QED
    BY <2>1, <2>2, <2>3, <2>4 DEF FenceInv
<1>12. CommandInv'
  <2>1. CASE by = Ticker
    BY <1>6, <1>7, <2>1 DEF CommandInv, Owns, Active
  <2>2. CASE by # Ticker
    BY <1>6, <1>7, <2>2, RowUntouched DEF Goes, Uncovered
  <2> QED
    BY <2>1, <2>2
<1> QED
  BY <1>8, <1>10, <1>11, <1>12

-----------------------------------------------------------------------------
(* Requests, time and restarts.                                            *)

LEMMA LoadInv ==
  ASSUME Types, LeaseInv, FenceInv, CommandInv, NEW s \in Subjects, Load(s)
  PROVE  Types' /\ LeaseInv' /\ FenceInv' /\ CommandInv'
<1>1. /\ runtime.auth.left > 0 /\ runtime.auth.facts[s] = "permitted"
      /\ req' = [pc |-> "loaded", subject |-> s, fenced |-> s \in ghost.fenced,
                 acked |-> s \in ghost.acked, age |-> ghost.age[s], overtaken |-> FALSE]
      /\ UNCHANGED <<db, runtime, refresh, handler, command, ghost>>
  BY DEF Load
<1>2. ghost.age[s] \in Nat /\ runtime.auth.left \in Nat /\ Lease \in Nat
      /\ (refresh.pc # "idle" => refresh.generation \in Nat) /\ runtime.denied[s] \in Nat
  BY RuntimeAssumption DEF Types, Ghosts, Runtimes, Snapshots, NoRefresh, Begun, Filled
<1>3. Types'
  BY <1>1, <1>2 DEF Types, Asked
<1>4. LeaseInv'
  BY <1>1, <1>2 DEF LeaseInv, Reads
<1>5. s \notin ghost.acked
  BY <1>1 DEF FenceInv, SubjectInv, Settled
<1>6. s \in ghost.fenced => /\ runtime.denied[s] # 0
                            /\ refresh.pc = "stored" => refresh.generation < runtime.denied[s]
  BY <1>1, <1>2 DEF FenceInv, SubjectInv, RefreshInv, Settled, Guarded, Reads
<1>7. RequestInv'
  BY <1>1, <1>5, <1>6 DEF RequestInv
<1>8. FenceInv'
  BY <1>1, <1>7 DEF FenceInv, RefreshInv, SubjectInv, StandingInv, Active, Settled, Guarded, Reads
<1>9. CommandInv'
  BY <1>1 DEF CommandInv, Owns, Active
<1> QED
  BY <1>3, <1>4, <1>8, <1>9

LEMMA CheckInv ==
  ASSUME Types, LeaseInv, FenceInv, CommandInv, Check \/ UNCHANGED vars
  PROVE  Types' /\ LeaseInv' /\ FenceInv' /\ CommandInv'
<1>1. /\ req' = NoRequest \/ req' = req
      /\ UNCHANGED <<db, runtime, refresh, handler, command, ghost>>
  BY DEF Check, vars
<1>2. Types'
  BY <1>1 DEF Types
<1>3. LeaseInv'
  BY <1>1 DEF LeaseInv, Reads, NoRequest
<1>4. FenceInv'
  <2>1. RequestInv'
    BY <1>1 DEF FenceInv, RequestInv, NoRequest
  <2> QED
    BY <1>1, <2>1
       DEF FenceInv, RefreshInv, SubjectInv, StandingInv, Active, Settled, Guarded, Reads
<1>5. CommandInv'
  BY <1>1 DEF CommandInv, Owns, Active
<1> QED
  BY <1>2, <1>3, <1>4, <1>5

LEMMA RestartInv ==
  ASSUME Types, LeaseInv, FenceInv, CommandInv, Restart
  PROVE  Types' /\ LeaseInv' /\ FenceInv' /\ CommandInv'
<1>1. /\ runtime' = FreshRuntime /\ refresh' = NoRefresh /\ req' = NoRequest
      /\ handler' = [h \in Handlers |->
                       IF handler[h].pc \notin Terminal THEN [pc |-> "answered"] ELSE handler[h]]
      /\ UNCHANGED <<db, command, ghost>>
  BY DEF Restart
<1>2. /\ runtime' \in Runtimes /\ runtime'.auth.left = 0
      /\ \A s \in Subjects : runtime'.auth.facts[s] = "denied"
  BY <1>1, RuntimeAssumption DEF FreshRuntime, NoSnapshot, Runtimes, Snapshots, Either, Permit, Revoke
<1>3. \A h \in Handlers : handler'[h] \in Ended /\ ~Active(h)' /\ handler'[h].pc # "dispatch"
  <2>1. [pc |-> "answered"] \in Ended
    BY DEF Ended, Terminal
  <2> QED
    BY <1>1, <2>1, HandlerRecords DEF Active, Terminal, Ended, Working, Stages
<1>4. ~Reads' /\ refresh'.pc = "idle" /\ req'.pc = "idle"
  BY <1>1 DEF Reads, NoRefresh, NoRequest
<1>5. Types'
  BY <1>1, <1>2, <1>3 DEF Types
<1>6. LeaseInv'
  BY <1>1, <1>2, <1>4 DEF LeaseInv
<1>7. FenceInv'
  BY <1>1, <1>2, <1>3, <1>4 DEF FenceInv, RefreshInv, SubjectInv, StandingInv, RequestInv, Settled
<1>8. CommandInv'
  BY <1>1, <1>3 DEF CommandInv, Owns
<1> QED
  BY <1>5, <1>6, <1>7, <1>8

LEMMA TickInv ==
  ASSUME Types, LeaseInv, FenceInv, CommandInv, Tick
  PROVE  Types' /\ LeaseInv' /\ FenceInv' /\ CommandInv'
<1> DEFINE aged == [s \in Subjects |-> IF db[s] = "permitted" \/ ghost.age[s] = Lease
                                       THEN ghost.age[s] ELSE ghost.age[s] + 1]
<1>1. /\ runtime' = [runtime EXCEPT !.auth.left = Pred(@)]
      /\ refresh' = IF refresh.pc = "idle" THEN refresh ELSE [refresh EXCEPT !.left = Pred(@)]
      /\ ghost' = [ghost EXCEPT !.age = aged]
      /\ UNCHANGED <<db, handler, req, command>>
  BY DEF Tick
<1>2. Lease \in Nat /\ \A n \in 0 .. Lease : Pred(n) \in 0 .. Lease
  BY RuntimeAssumption DEF Pred
<1>3. aged \in [Subjects -> Nat]
  BY DEF Types, Ghosts
<1>4. ghost' \in Ghosts /\ ghost'.age = aged /\ ghost'.fenced = ghost.fenced
      /\ ghost'.acked = ghost.acked
  BY <1>1, <1>3 DEF Types, Ghosts
<1>5. /\ runtime' \in Runtimes /\ runtime'.epoch = runtime.epoch
      /\ runtime'.denied = runtime.denied /\ runtime'.auth.facts = runtime.auth.facts
      /\ runtime'.auth.left = Pred(runtime.auth.left) /\ runtime.auth.left \in 0 .. Lease
  <2>1. runtime.auth \in Snapshots
    BY DEF Types, Runtimes
  <2> DEFINE auth == [facts |-> runtime.auth.facts, left |-> Pred(runtime.auth.left)]
  <2>2. auth \in Snapshots
    BY <1>2, <2>1 DEF Snapshots
  <2>3. runtime' = [auth |-> auth, epoch |-> runtime.epoch, denied |-> runtime.denied]
    BY <1>1, <2>1 DEF Types, Runtimes, Snapshots
  <2>4. auth.facts = runtime.auth.facts /\ auth.left = Pred(runtime.auth.left)
    OBVIOUS
  <2> HIDE DEF auth
  <2> QED
    BY <2>1, <2>2, <2>3, <2>4 DEF Types, Runtimes, Snapshots
<1>6. /\ refresh' \in {NoRefresh} \union Begun \union Filled
      /\ refresh'.pc = refresh.pc
      /\ refresh.pc # "idle" => refresh'.by = refresh.by /\ refresh'.generation = refresh.generation
      /\ Reads => /\ refresh'.data = refresh.data /\ refresh'.left = Pred(refresh.left)
                  /\ refresh.left \in 0 .. Lease
  <2>1. CASE refresh = NoRefresh
    BY <1>1, <2>1 DEF NoRefresh, Reads
  <2>2. CASE refresh \in Begun
    BY <1>1, <1>2, <2>2 DEF Begun, Reads
  <2>3. CASE refresh \in Filled
    BY <1>1, <1>2, <2>3 DEF Filled, Reads
  <2> QED
    BY <2>1, <2>2, <2>3 DEF Types
<1>7. Types'
  BY <1>1, <1>4, <1>5, <1>6 DEF Types
<1>8. Reads' <=> Reads
  BY <1>6 DEF Reads
<1>9. LeaseInv'
  <2>1. ASSUME NEW s \in Subjects, NEW n \in 0 .. Lease, ghost.age[s] + n <= Lease
        PROVE  aged[s] + Pred(n) <= Lease
    <3>1. ghost.age[s] \in Nat /\ ghost.age[s] <= Lease
      BY DEF Types, Ghosts, LeaseInv
    <3>2. aged[s] = IF db[s] = "permitted" \/ ghost.age[s] = Lease
                    THEN ghost.age[s] ELSE ghost.age[s] + 1
      OBVIOUS
    <3> HIDE DEF aged
    <3> QED
      BY <1>2, <2>1, <3>1, <3>2 DEF Pred
  <2>2. ASSUME NEW s \in Subjects
        PROVE  aged[s] <= Lease /\ (db[s] = "permitted" => aged[s] = 0)
    <3>1. ghost.age[s] \in Nat /\ ghost.age[s] <= Lease
      BY DEF Types, Ghosts, LeaseInv
    <3> QED
      BY <1>2, <3>1 DEF LeaseInv
  <2> HIDE DEF aged
  <2> QED
    BY <1>1, <1>4, <1>5, <1>6, <1>8, <2>1, <2>2 DEF LeaseInv
<1>10. FenceInv'
  BY <1>1, <1>4, <1>5, <1>6, <1>8
     DEF FenceInv, RefreshInv, SubjectInv, StandingInv, RequestInv, Active, Settled, Guarded, Reads
<1>11. CommandInv'
  BY <1>1 DEF CommandInv, Owns, Active
<1> QED
  BY <1>7, <1>9, <1>10, <1>11

-----------------------------------------------------------------------------
(* The protocol.                                                           *)
RuntimeInv == Types /\ LeaseInv /\ FenceInv /\ CommandInv

(* Every step of a handler, of a refresh, of a request, of the clock and   *)
(* of another server preserves it.                                         *)
THEOREM RuntimeInvariance == Spec => []RuntimeInv
<1>1. RuntimeInv /\ [Next]_vars => RuntimeInv'
  <2> SUFFICES ASSUME RuntimeInv, [Next]_vars PROVE RuntimeInv'
    OBVIOUS
  <2> USE DEF RuntimeInv
  <2>1. CASE UNCHANGED vars
    BY <2>1, CheckInv
  <2>2. ASSUME NEW h \in Handlers, NEW op \in Operations[h], Refuse(h, op) \/ Receipt(h, op)
        PROVE  RuntimeInv'
    BY <2>2, ReplyInv
  <2>3. ASSUME NEW h \in Handlers, NEW op \in Operations[h], NEW s \in Subjects,
               NEW to \in Either \union Silent, NEW committed \in BOOLEAN, NEW known \in BOOLEAN,
               Commit(h, op, s, to, committed, known)
        PROVE  RuntimeInv'
    BY <2>3, CommitInv
  <2>4. ASSUME NEW h \in Handlers,
               \/ NoBarrier(h) \/ DrawEpoch(h) \/ Fence(h) \/ Dispatch(h)
               \/ RefreshUnavailable(h) \/ Answer(h) \/ Finalize(h)
        PROVE  RuntimeInv'
    BY <2>4, NoBarrierInv, DrawEpochInv, FenceStepInv, DispatchInv, UnavailableInv, ReplyInv, FinalizeInv
  <2>5. ASSUME NEW by \in Handlers \union {Ticker}, RefreshBegin(by)
        PROVE  RuntimeInv'
    BY <2>5, RefreshBeginInv
  <2>6. CASE RefreshRead \/ RefreshFail \/ RefreshStore \/ RefreshClear
    BY <2>6, RefreshReadInv, RefreshFailInv, RefreshStoreInv, RefreshClearInv
  <2>7. ASSUME NEW s \in Subjects, Load(s) \/ \E to \in Either : CommitElsewhere(s, to)
        PROVE  RuntimeInv'
    BY <2>7, LoadInv, CommitElsewhereInv
  <2>8. CASE Check \/ Restart \/ Tick
    BY <2>8, CheckInv, RestartInv, TickInv
  <2> QED
    BY <2>1, <2>2, <2>3, <2>4, <2>5, <2>6, <2>7, <2>8 DEF Next
<1> QED
  BY <1>1, InitInv, PTL DEF Spec, RuntimeInv

(* A reported revocation binds every later request of the server, and from *)
(* the barrier on no request is admitted on the snapshot that is still     *)
(* published (refreshRuntime, clearRuntimeTombstones), unless the barrier  *)
(* lapses, for every mixture of operations.                                *)
THEOREM RevocationHonouredAlways == Spec => []RevocationHonoured
<1>1. RuntimeInv => RevocationHonoured
  BY DEF RuntimeInv, FenceInv, RequestInv, RevocationHonoured, Admits, runtimeDenied
<1> QED
  BY <1>1, RuntimeInvariance, PTL

(* Whatever the lease, no request is admitted on facts that old: the lease *)
(* counts from before the database is read (loadRuntimeData).              *)
THEOREM StalenessBoundedAlways == Spec => []StalenessBounded
<1>1. RuntimeInv => StalenessBounded
  BY DEF RuntimeInv, LeaseInv, StalenessBounded, Admits
<1> QED
  BY <1>1, RuntimeInvariance, PTL

(* The claimed row of PublishRuntimeCommand is dispatched once and reports *)
(* success only for a refresh that this request ran to its end.            *)
THEOREM CommandOutcomeTrueAlways == Spec => []CommandOutcomeTrue
<1>1. RuntimeInv => CommandOutcomeTrue
  BY DEF RuntimeInv, CommandInv, CommandOutcomeTrue
<1> QED
  BY <1>1, RuntimeInvariance, PTL

-----------------------------------------------------------------------------
(* KeyDelivery: the inductive invariant.                                   *)
Deliveries == {None, "pending", "not_attempted", "unknown", "acknowledged"}
Identities == Processes \union {None}

CommandRow ==
    [delivery : Deliveries, claim : Identities, revoked : BOOLEAN,
     runtime : {"pending", "unknown", "confirmed"},
     review : BOOLEAN, secure : BOOLEAN, isolation : BOOLEAN, bound : BOOLEAN]

Issuing == [pc : {"prepared", "claimed", "written", "failed"}, at : Processes, claim : Identities]
Publishing == [pc : {"publish"}, at : Processes]

IssueTypes ==
    /\ commands \in [Requests -> CommandRow]
    /\ key \in [Requests -> {None, "pending", "active", "revoked"}]
    /\ stack \in [Requests -> {NoStack} \union Issuing \union Publishing]
    /\ vault \in [Requests -> {0, 1}]
    /\ serving \in [Processes -> SUBSET Requests]

(* Nothing is in the Vault before the command is claimed, and nothing is   *)
(* known of a command before it exists.                                    *)
ClaimedFirst(r) ==
    /\ commands[r].claim = None => vault[r] = 0
    /\ commands[r].delivery = None =>
         key[r] = None /\ commands[r].claim = None /\ ~commands[r].revoked /\ stack[r].pc = "idle"

(* Where the handler that created the command is, the claim and the Vault  *)
(* are as it left them.                                                    *)
StackInv(r) ==
    /\ stack[r].pc = "prepared" => commands[r].claim = None
    /\ stack[r].pc = "claimed" => vault[r] = 0 /\ commands[r].claim # None
    /\ stack[r].pc = "written" => vault[r] = 1 /\ commands[r].claim # None

(* The row tells the truth, and the Key follows the row.                   *)
RowInv(r) ==
    /\ commands[r].delivery = "not_attempted" => commands[r].claim = None
    /\ commands[r].delivery = "acknowledged" => vault[r] = 1 /\ commands[r].claim # None
    /\ commands[r].revoked => key[r] = "revoked"
    /\ key[r] = "active" => commands[r].delivery = "acknowledged"
    /\ key[r] = None => commands[r].delivery = None

Served == \A p \in Processes : \A r \in serving[p] : vault[r] = 1

DeliveryInv ==
    /\ IssueTypes
    /\ \A r \in Requests : ClaimedFirst(r) /\ StackInv(r) /\ RowInv(r)
    /\ Served

LEMMA DeliveryInit == IssueInit => DeliveryInv
<1> SUFFICES ASSUME IssueInit PROVE DeliveryInv
  OBVIOUS
<1>1. IssueTypes
  BY DEF IssueInit, IssueTypes, NoCommand, CommandRow, Deliveries, Identities, NoStack
<1>2. \A r \in Requests : ClaimedFirst(r) /\ StackInv(r) /\ RowInv(r)
  BY DEF IssueInit, ClaimedFirst, StackInv, RowInv, NoCommand, NoStack, None
<1>3. Served
  BY DEF IssueInit, Served
<1> QED
  BY <1>1, <1>2, <1>3 DEF DeliveryInv

(* A row that says the same of its delivery, whatever it says of reviews.  *)
Alike(c, d) == c.delivery = d.delivery /\ c.claim = d.claim /\ c.revoked = d.revoked

(* Changes of policy, template, approval, attestation and target only make *)
(* a command stale, and a process that does not write changes less.        *)
LEMMA StaleStep ==
  ASSUME DeliveryInv,
         commands' \in [Requests -> CommandRow],
         \A r \in Requests : Alike(commands'[r], commands[r]),
         UNCHANGED <<key, vault>>,
         stack' \in [Requests -> {NoStack} \union Issuing \union Publishing],
         \A r \in Requests : stack'[r].pc \in {stack[r].pc, "idle", "failed"},
         \A r \in Requests : stack'[r].pc # "idle" => stack[r].pc # "idle",
         serving' \in [Processes -> SUBSET Requests],
         \A p \in Processes : serving'[p] \subseteq serving[p]
  PROVE  DeliveryInv'
<1>1. IssueTypes'
  BY DEF DeliveryInv, IssueTypes
<1>2. ASSUME NEW r \in Requests PROVE ClaimedFirst(r)' /\ StackInv(r)' /\ RowInv(r)'
  BY DEF DeliveryInv, Alike, ClaimedFirst, StackInv, RowInv
<1>3. Served'
  BY DEF DeliveryInv, Served
<1> QED
  BY <1>1, <1>2, <1>3 DEF DeliveryInv

-----------------------------------------------------------------------------
(* The actions that only make commands stale, or only end a handler.       *)

LEMMA ConfigStep ==
  ASSUME DeliveryInv, UNCHANGED <<key, vault, stack, serving>>,
         \/ \E changed, managed \in BOOLEAN : SaveAPIKeyDeliveryPolicy(changed, managed)
         \/ SaveAPIKeyDeliveryIdentity
         \/ \E current \in BOOLEAN : SaveAPIKeyCallerTemplate(current)
         \/ VerifyAPIKeyDeliveryDependencies
         \/ ResolveAPIKeyDeliveryTarget
         \/ \E yes \in BOOLEAN :
              ApproveAPIKeyDeliveryPrincipal(yes) \/ AttestAPIKeyDeliveryIsolation(yes)
         \/ UNCHANGED commands
  PROVE  /\ DeliveryInv'
         /\ \A r \in Requests : Alike(commands'[r], commands[r])
         /\ \A r \in Requests : commands'[r].runtime = commands[r].runtime
<1>1. \/ commands' = Reviewed(commands) \/ commands' = Resecured(commands)
      \/ commands' = Retargeted(commands) \/ commands' = commands
      \/ commands' = [r \in Requests |-> [commands[r] EXCEPT !.isolation = FALSE, !.bound = FALSE]]
  BY DEF SaveAPIKeyDeliveryPolicy, SaveAPIKeyDeliveryIdentity, SaveAPIKeyCallerTemplate,
         VerifyAPIKeyDeliveryDependencies, ResolveAPIKeyDeliveryTarget,
         ApproveAPIKeyDeliveryPrincipal, AttestAPIKeyDeliveryIsolation
<1>2. commands \in [Requests -> CommandRow]
  BY DEF DeliveryInv, IssueTypes
<1>3. /\ commands' \in [Requests -> CommandRow]
      /\ \A r \in Requests : Alike(commands'[r], commands[r])
      /\ \A r \in Requests : commands'[r].runtime = commands[r].runtime
  <2>1. CASE commands' = Reviewed(commands)
    BY <1>2, <2>1 DEF Alike, Reviewed, CommandRow
  <2>2. CASE commands' = Resecured(commands)
    BY <1>2, <2>2 DEF Alike, Resecured, CommandRow
  <2>3. CASE commands' = Retargeted(commands)
    BY <1>2, <2>3 DEF Alike, Retargeted, CommandRow
  <2>4. CASE commands' = commands
    BY <1>2, <2>4 DEF Alike
  <2>5. CASE commands' = [r \in Requests |-> [commands[r] EXCEPT !.isolation = FALSE, !.bound = FALSE]]
    BY <1>2, <2>5 DEF Alike, CommandRow
  <2> QED
    BY <1>1, <2>1, <2>2, <2>3, <2>4, <2>5
<1>4. DeliveryInv'
  BY <1>3, StaleStep DEF DeliveryInv, IssueTypes
<1> QED
  BY <1>3, <1>4

LEMMA QuietStep ==
  ASSUME DeliveryInv, NEW r, NEW p,
         \/ NotAdmitted(r) \/ RecordFails(r) \/ PublishRefused(r)
         \/ Duplicate(r, p) \/ FinalizeAbandoned(r) \/ PublicationUnconfirmed(r) \/ Crash(p)
  PROVE  DeliveryInv' /\ UNCHANGED <<commands, key>>
<1>1. IssueTypes
  BY DEF DeliveryInv
<1>2. UNCHANGED <<commands, key, vault>>
  BY DEF NotAdmitted, RecordFails, PublishRefused, Duplicate, FinalizeAbandoned,
         PublicationUnconfirmed, Crash
<1>3. stack' \in [Requests -> {NoStack} \union Issuing \union Publishing]
  <2>1. CASE NotAdmitted(r)
    <3>1. CASE r \in Requests
      BY <1>1, <2>1, <3>1 DEF NotAdmitted, IssueTypes, Issuing, Publishing, NoStack
    <3>2. CASE r \notin Requests
      <4>1. stack' = stack
        BY <1>1, <2>1, <3>2 DEF NotAdmitted, IssueTypes
      <4> QED
        BY <1>1, <4>1 DEF IssueTypes
    <3> QED
      BY <3>1, <3>2
  <2>2. CASE RecordFails(r) \/ PublishRefused(r)
    BY <1>1, <2>2 DEF RecordFails, PublishRefused, IssueTypes
  <2>3. CASE Duplicate(r, p) \/ FinalizeAbandoned(r) \/ PublicationUnconfirmed(r)
    BY <1>1, <2>3 DEF Duplicate, FinalizeAbandoned, PublicationUnconfirmed, IssueTypes
  <2>4. CASE Crash(p)
    BY <1>1, <2>4 DEF Crash, IssueTypes
  <2> QED
    BY <2>1, <2>2, <2>3, <2>4
<1>4. \A q \in Requests : /\ stack'[q].pc \in {stack[q].pc, "idle", "failed"}
                          /\ stack'[q].pc # "idle" => stack[q].pc # "idle"
  <2>1. CASE NotAdmitted(r)
    BY <1>1, <2>1 DEF NotAdmitted, IssueTypes, Issuing, Publishing, NoStack
  <2>2. CASE RecordFails(r) \/ PublishRefused(r)
    BY <1>1, <2>2 DEF RecordFails, PublishRefused, IssueTypes, NoStack
  <2>3. CASE Duplicate(r, p) \/ FinalizeAbandoned(r) \/ PublicationUnconfirmed(r)
    BY <1>1, <2>3 DEF Duplicate, FinalizeAbandoned, PublicationUnconfirmed, IssueTypes
  <2>4. CASE Crash(p)
    BY <1>1, <2>4 DEF Crash, IssueTypes, NoStack
  <2> QED
    BY <2>1, <2>2, <2>3, <2>4
<1>5. /\ serving' \in [Processes -> SUBSET Requests]
      /\ \A q \in Processes : serving'[q] \subseteq serving[q]
  BY <1>1 DEF IssueTypes, NotAdmitted, RecordFails, PublishRefused, Duplicate, FinalizeAbandoned,
              PublicationUnconfirmed, Crash
<1>6. commands' \in [Requests -> CommandRow] /\ \A q \in Requests : Alike(commands'[q], commands[q])
  BY <1>1, <1>2 DEF IssueTypes, Alike
<1> QED
  BY <1>2, <1>3, <1>4, <1>5, <1>6, StaleStep

LEMMA ConfirmStep ==
  ASSUME DeliveryInv, NEW r \in Requests, Confirm(r)
  PROVE  /\ DeliveryInv'
         /\ UNCHANGED key
         /\ \A q \in Requests : Alike(commands'[q], commands[q])
         /\ \A q \in Requests : commands[q].revoked => commands'[q].runtime = commands[q].runtime
<1>1. IssueTypes
  BY DEF DeliveryInv
<1>2. /\ commands' \in [Requests -> CommandRow]
      /\ \A q \in Requests : Alike(commands'[q], commands[q])
      /\ \A q \in Requests : commands[q].revoked => commands'[q].runtime = commands[q].runtime
  BY <1>1 DEF IssueTypes, Confirm, Authorised, Alike, CommandRow
<1>3. DeliveryInv'
  BY <1>1, <1>2, StaleStep DEF Confirm, IssueTypes
<1> QED
  BY <1>2, <1>3 DEF Confirm

-----------------------------------------------------------------------------
(* Issue.                                                                  *)

LEMMA PrepareStep ==
  ASSUME DeliveryInv, NEW r \in Requests, NEW p \in Processes, Prepare(r, p)
  PROVE  DeliveryInv'
<1>1. IssueTypes
  BY DEF DeliveryInv
<1>2. IssueTypes'
  BY <1>1 DEF Prepare, IssueTypes, NoCommand, CommandRow, Deliveries, Identities, Issuing
<1>3. ASSUME NEW q \in Requests PROVE ClaimedFirst(q)' /\ StackInv(q)' /\ RowInv(q)'
  BY <1>1 DEF DeliveryInv, Prepare, IssueTypes, NoCommand, None, ClaimedFirst, StackInv, RowInv
<1>4. Served'
  BY DEF Prepare, DeliveryInv, Served
<1> QED
  BY <1>2, <1>3, <1>4 DEF DeliveryInv

LEMMA ClaimStep ==
  ASSUME DeliveryInv, NEW r \in Requests, NEW known \in BOOLEAN, Claim(r, known)
  PROVE  /\ DeliveryInv'
         /\ UNCHANGED key
         /\ \A q \in Requests : commands[q].revoked => commands'[q] = commands[q]
<1>1. IssueTypes
  BY DEF DeliveryInv
<1>2. stack[r] \in Issuing
  BY <1>1 DEF IssueTypes, Claim, NoStack, Publishing
<1>3. stack[r].at \in Processes /\ stack[r].at # None
  BY <1>2, DeliveryAssumption DEF Issuing, None
<1>4. IssueTypes'
  <2>1. commands' \in [Requests -> CommandRow]
    BY <1>1, <1>3 DEF IssueTypes, Claim, CommandRow, Identities
  <2>2. stack' \in [Requests -> {NoStack} \union Issuing \union Publishing]
    BY <1>1, <1>3 DEF IssueTypes, Claim, Issuing, Identities
  <2> QED
    BY <1>1, <2>1, <2>2 DEF IssueTypes, Claim
<1>5. ASSUME NEW q \in Requests PROVE ClaimedFirst(q)' /\ StackInv(q)' /\ RowInv(q)'
  BY <1>1, <1>3 DEF DeliveryInv, Claim, apiKeyDeliveryClaimable, IssueTypes, CommandRow, None,
                    ClaimedFirst, StackInv, RowInv
<1>6. Served'
  BY DEF Claim, DeliveryInv, Served
<1>7. \A q \in Requests : commands[q].revoked => commands'[q] = commands[q]
  BY <1>1 DEF Claim, apiKeyDeliveryClaimable, IssueTypes
<1> QED
  BY <1>4, <1>5, <1>6, <1>7 DEF DeliveryInv, Claim

LEMMA WriteStep ==
  ASSUME DeliveryInv, NEW r \in Requests, NEW stored \in BOOLEAN, NEW answered \in BOOLEAN,
         Write(r, stored, answered)
  PROVE  DeliveryInv' /\ UNCHANGED <<commands, key>>
<1>1. IssueTypes
  BY DEF DeliveryInv
<1>2. stack[r] \in Issuing
  BY <1>1 DEF IssueTypes, Write, NoStack, Publishing
<1>3. vault[r] = 0 /\ commands[r].claim # None
  BY DEF DeliveryInv, StackInv, Write
<1>4. IssueTypes'
  <2>1. stack' \in [Requests -> {NoStack} \union Issuing \union Publishing]
    BY <1>1, <1>2 DEF IssueTypes, Write, Issuing
  <2>2. vault' \in [Requests -> {0, 1}]
    BY <1>1, <1>3 DEF IssueTypes, Write
  <2> QED
    BY <1>1, <2>1, <2>2 DEF IssueTypes, Write
<1>5. \A q \in Requests : vault[q] = 1 => vault'[q] = 1
  BY <1>1, <1>3 DEF IssueTypes, Write
<1>6. \A q \in Requests : q # r => vault'[q] = vault[q] /\ stack'[q] = stack[q]
  BY <1>1 DEF IssueTypes, Write
<1>7. stack'[r].pc = (IF answered THEN "written" ELSE "failed") /\ (answered => vault'[r] = 1)
  BY <1>1, <1>2, <1>3 DEF IssueTypes, Write, Issuing
<1>8. ASSUME NEW q \in Requests PROVE ClaimedFirst(q)' /\ StackInv(q)' /\ RowInv(q)'
  <2>1. CASE q = r
    BY <1>1, <1>3, <1>7, <2>1 DEF DeliveryInv, Write, IssueTypes, ClaimedFirst, StackInv, RowInv
  <2>2. CASE q # r
    BY <1>6, <2>2 DEF DeliveryInv, Write, ClaimedFirst, StackInv, RowInv
  <2> QED
    BY <2>1, <2>2
<1>9. Served'
  BY <1>1, <1>5 DEF Write, DeliveryInv, Served, IssueTypes
<1> QED
  BY <1>4, <1>8, <1>9 DEF DeliveryInv, Write

(* The transaction that closes a row, whoever runs it: only the handler    *)
(* that heard from the Vault acknowledges.                                 *)
LEMMA OutcomeStep ==
  ASSUME DeliveryInv, NEW r \in Requests, NEW p, NEW ack \in BOOLEAN, NEW seen,
         apiKeyDeliveryRecordOutcome(r, p, ack, seen),
         ack => stack[r].pc = "written",
         UNCHANGED vault,
         stack' \in [Requests -> {NoStack} \union Issuing \union Publishing],
         \A q \in Requests : stack'[q].pc \in {stack[q].pc, "idle", "publish"},
         \A q \in Requests : stack'[q].pc # "idle" => stack[q].pc # "idle"
  PROVE  /\ DeliveryInv'
         /\ \A q \in Requests : key[q] = "revoked" => key'[q] = "revoked"
         /\ \A q \in Requests : commands[q].revoked => commands'[q] = commands[q]
<1>1. IssueTypes
  BY DEF DeliveryInv
<1>2. ack => vault[r] = 1 /\ commands[r].claim # None
  BY DEF DeliveryInv, StackInv
<1>3. CASE Ignored(r, ack, seen)
  <2>1. UNCHANGED <<commands, key>>
    BY <1>3 DEF apiKeyDeliveryRecordOutcome
  <2>2. /\ serving' \in [Processes -> SUBSET Requests]
        /\ \A q \in Processes : serving'[q] \subseteq serving[q]
    BY <1>1, <1>3 DEF apiKeyDeliveryRecordOutcome, IssueTypes
  <2>3. IssueTypes'
    BY <1>1, <2>1, <2>2 DEF IssueTypes
  <2>4. ASSUME NEW q \in Requests PROVE ClaimedFirst(q)' /\ StackInv(q)' /\ RowInv(q)'
    BY <2>1 DEF DeliveryInv, ClaimedFirst, StackInv, RowInv
  <2>5. Served'
    BY <2>2 DEF DeliveryInv, Served
  <2> QED
    BY <2>1, <2>3, <2>4, <2>5 DEF DeliveryInv
<1>4. CASE ~Ignored(r, ack, seen)
  <2> DEFINE eligible == apiKeyDeliveryPostWriteCurrent(r)
  <2>1. commands[r].delivery = "pending" /\ ~commands[r].revoked
    BY <1>4 DEF Ignored
  <2>2. /\ commands' = IF ack THEN apiKeyDeliveryApplyAcknowledgement(r, eligible) ELSE Revoked(r)
        /\ key' = IF ~ack \/ ~eligible THEN [key EXCEPT ![r] = "revoked"] ELSE key
        /\ serving' = IF ~ack \/ ~eligible THEN [serving EXCEPT ![p] = @ \ {r}] ELSE serving
    BY <1>4 DEF apiKeyDeliveryRecordOutcome
  <2>3. eligible \in BOOLEAN
    BY DEF apiKeyDeliveryPostWriteCurrent
  <2>4. eligible => key[r] = "pending"
    BY DEF apiKeyDeliveryPostWriteCurrent
  <2> HIDE DEF eligible
  <2>5. /\ commands' \in [Requests -> CommandRow]
        /\ \A q \in Requests : q # r => commands'[q] = commands[q]
        /\ commands'[r].claim = commands[r].claim
        /\ commands'[r].delivery = IF ack THEN "acknowledged"
                                  ELSE IF commands[r].claim = None THEN "not_attempted" ELSE "unknown"
        /\ commands'[r].revoked => ~ack \/ ~eligible
    <3>0. commands \in [Requests -> CommandRow] /\ commands[r] \in CommandRow
      BY <1>1 DEF IssueTypes
    <3>1. CASE ack
      <4> DEFINE row == [commands[r] EXCEPT !.delivery = "acknowledged", !.revoked = ~eligible,
                                           !.runtime = IF eligible THEN @ ELSE "unknown"]
      <4>1. commands' = [commands EXCEPT ![r] = row]
        BY <2>2, <3>0, <3>1 DEF apiKeyDeliveryApplyAcknowledgement
      <4>2. /\ row \in CommandRow /\ row.claim = commands[r].claim
            /\ row.delivery = "acknowledged" /\ row.revoked = ~eligible
        BY <2>3, <3>0 DEF CommandRow, Deliveries
      <4> QED
        BY <3>0, <3>1, <4>1, <4>2
    <3>2. CASE ~ack
      <4> DEFINE row == [commands[r] EXCEPT
                           !.delivery = IF commands[r].claim = None THEN "not_attempted" ELSE "unknown",
                           !.runtime = "unknown", !.revoked = TRUE]
      <4>1. commands' = [commands EXCEPT ![r] = row]
        BY <2>2, <3>0, <3>2 DEF Revoked
      <4>2. /\ row \in CommandRow /\ row.claim = commands[r].claim
            /\ row.delivery = IF commands[r].claim = None THEN "not_attempted" ELSE "unknown"
        BY <3>0 DEF CommandRow, Deliveries
      <4> QED
        BY <3>0, <3>2, <4>1, <4>2
    <3> QED
      BY <3>1, <3>2
  <2>6. /\ serving' \in [Processes -> SUBSET Requests]
        /\ \A q \in Processes : serving'[q] \subseteq serving[q]
    BY <1>1, <2>2 DEF IssueTypes
  <2>7. /\ key' \in [Requests -> {None, "pending", "active", "revoked"}]
        /\ \A q \in Requests : q # r => key'[q] = key[q]
        /\ (~ack \/ ~eligible) => key'[r] = "revoked"
        /\ ack /\ eligible => key'[r] = "pending"
    BY <1>1, <2>2, <2>4 DEF IssueTypes
  <2>8. IssueTypes'
    BY <1>1, <2>5, <2>6, <2>7 DEF IssueTypes
  <2>9. ASSUME NEW q \in Requests PROVE ClaimedFirst(q)' /\ StackInv(q)' /\ RowInv(q)'
    <3>1. CASE q = r
      BY <1>2, <2>1, <2>5, <2>7, <3>1 DEF DeliveryInv, ClaimedFirst, StackInv, RowInv, None
    <3>2. CASE q # r
      BY <2>5, <2>7, <3>2 DEF DeliveryInv, ClaimedFirst, StackInv, RowInv
    <3> QED
      BY <3>1, <3>2
  <2>10. Served'
    BY <2>6 DEF DeliveryInv, Served
  <2>11. \A q \in Requests : key[q] = "revoked" => key'[q] = "revoked"
    BY <2>4, <2>7
  <2> QED
    BY <2>1, <2>5, <2>8, <2>9, <2>10, <2>11 DEF DeliveryInv
<1> QED
  BY <1>3, <1>4

LEMMA RecordStep ==
  ASSUME DeliveryInv, NEW r \in Requests, Record(r)
  PROVE  /\ DeliveryInv'
         /\ \A q \in Requests : key[q] = "revoked" => key'[q] = "revoked"
         /\ \A q \in Requests : commands[q].revoked => commands'[q] = commands[q]
<1>1. IssueTypes
  BY DEF DeliveryInv
<1>2. stack[r] \in Issuing
  BY <1>1 DEF IssueTypes, Record, NoStack, Publishing
<1>3. stack[r].at \in Processes
  BY <1>2 DEF Issuing
<1> DEFINE ack == stack[r].pc = "written"
<1>4. /\ apiKeyDeliveryRecordOutcome(r, stack[r].at, ack, stack[r].claim)
      /\ stack' = [stack EXCEPT ![r] = IF ack THEN [pc |-> "publish", at |-> stack[r].at] ELSE NoStack]
      /\ UNCHANGED vault
  BY DEF Record
<1>5. stack' \in [Requests -> {NoStack} \union Issuing \union Publishing]
  BY <1>1, <1>3, <1>4 DEF IssueTypes, Publishing
<1>6. /\ \A q \in Requests : stack'[q].pc \in {stack[q].pc, "idle", "publish"}
      /\ \A q \in Requests : stack'[q].pc # "idle" => stack[q].pc # "idle"
  BY <1>1, <1>4 DEF IssueTypes, NoStack
<1>7. ack \in BOOLEAN /\ (ack => stack[r].pc = "written")
  OBVIOUS
<1> QED
  BY <1>4, <1>5, <1>6, <1>7, OutcomeStep

LEMMA AbandonStep ==
  ASSUME DeliveryInv, NEW r \in Requests, Abandon(r)
  PROVE  /\ DeliveryInv'
         /\ \A q \in Requests : key[q] = "revoked" => key'[q] = "revoked"
         /\ \A q \in Requests : commands[q].revoked => commands'[q] = commands[q]
<1>1. /\ apiKeyDeliveryRecordOutcome(r, dup[r].at, FALSE, dup[r].claim)
      /\ UNCHANGED <<stack, vault>>
  BY DEF Abandon
<1>2. stack \in [Requests -> {NoStack} \union Issuing \union Publishing]
  BY DEF DeliveryInv, IssueTypes
<1> QED
  BY <1>1, <1>2, OutcomeStep

-----------------------------------------------------------------------------
(* Publication.                                                            *)

LEMMA PublishStep ==
  ASSUME DeliveryInv, NEW r \in Requests,
         \/ PublishIssued(r)
         \/ \E p \in Processes : ReconcileAPIKeyDeliveryPublication(r, p)
  PROVE  /\ DeliveryInv'
         /\ \A q \in Requests : key[q] = "revoked" => key'[q] = "revoked"
         /\ \A q \in Requests : commands[q].revoked => commands'[q] = commands[q]
<1>1. IssueTypes
  BY DEF DeliveryInv
<1>2. commands[r].delivery = "acknowledged" /\ ~commands[r].revoked /\ key[r] # "revoked"
  BY DEF PublishIssued, ReconcileAPIKeyDeliveryPublication, Publish, Authorised
<1>3. /\ key' = [key EXCEPT ![r] = "active"]
      /\ commands' = [commands EXCEPT ![r].runtime = "unknown"]
      /\ UNCHANGED <<vault, serving>>
  BY DEF PublishIssued, ReconcileAPIKeyDeliveryPublication, Publish
<1>4. stack' = stack \/ stack' = [stack EXCEPT ![r] = NoStack]
  BY DEF PublishIssued, ReconcileAPIKeyDeliveryPublication
<1>5. /\ commands' \in [Requests -> CommandRow]
      /\ \A q \in Requests : Alike(commands'[q], commands[q])
      /\ \A q \in Requests : q # r => commands'[q] = commands[q]
  BY <1>1, <1>3 DEF IssueTypes, CommandRow, Alike
<1>6. /\ stack' \in [Requests -> {NoStack} \union Issuing \union Publishing]
      /\ \A q \in Requests : stack'[q].pc \in {stack[q].pc, "idle"}
  BY <1>1, <1>4 DEF IssueTypes, NoStack
<1>7. IssueTypes'
  BY <1>1, <1>3, <1>5, <1>6 DEF IssueTypes
<1>8. ASSUME NEW q \in Requests PROVE ClaimedFirst(q)' /\ StackInv(q)' /\ RowInv(q)'
  <2>1. CASE q = r
    BY <1>1, <1>2, <1>3, <1>5, <1>6, <2>1
       DEF DeliveryInv, IssueTypes, Alike, None, ClaimedFirst, StackInv, RowInv
  <2>2. CASE q # r
    BY <1>1, <1>3, <1>5, <1>6, <2>2 DEF DeliveryInv, IssueTypes, ClaimedFirst, StackInv, RowInv
  <2> QED
    BY <2>1, <2>2
<1>9. Served'
  BY <1>3 DEF DeliveryInv, Served
<1> QED
  BY <1>1, <1>2, <1>3, <1>5, <1>7, <1>8, <1>9 DEF DeliveryInv, IssueTypes

LEMMA RefreshStep ==
  ASSUME DeliveryInv, NEW p \in Processes, Refresh(p)
  PROVE  DeliveryInv' /\ UNCHANGED <<commands, key>>
<1>1. \A r \in filterAPIKeyDeliveryRuntime : r \in Requests /\ vault[r] = 1
  BY DEF DeliveryInv, RowInv, filterAPIKeyDeliveryRuntime, apiKeyDeliveryAcknowledged
<1>2. /\ serving' = [serving EXCEPT ![p] = filterAPIKeyDeliveryRuntime]
      /\ UNCHANGED <<commands, key, stack, vault>>
  BY DEF Refresh
<1>3. IssueTypes'
  BY <1>1, <1>2 DEF DeliveryInv, IssueTypes
<1>4. Served'
  BY <1>1, <1>2 DEF DeliveryInv, IssueTypes, Served
<1>5. ASSUME NEW q \in Requests PROVE ClaimedFirst(q)' /\ StackInv(q)' /\ RowInv(q)'
  BY <1>2 DEF DeliveryInv, ClaimedFirst, StackInv, RowInv
<1> QED
  BY <1>2, <1>3, <1>4, <1>5 DEF DeliveryInv

-----------------------------------------------------------------------------
(* Revocation of one Key, or of all of them.                               *)

LEMMA RevokeStep ==
  ASSUME DeliveryInv, NEW rs \in SUBSET Requests,
         commands' = apiKeyDeliveryRevokeCommands(rs),
         key' \in [Requests -> {None, "pending", "active", "revoked"}],
         \A q \in rs : key'[q] = IF key[q] = None THEN None ELSE "revoked",
         \A q \in Requests \ rs : key'[q] = key[q],
         serving' \in [Processes -> SUBSET Requests],
         \A p \in Processes : serving'[p] \subseteq serving[p],
         UNCHANGED <<stack, vault>>
  PROVE  /\ DeliveryInv'
         /\ \A q \in Requests : key[q] = "revoked" => key'[q] = "revoked"
         /\ \A q \in Requests : commands[q].revoked => commands'[q] = commands[q]
<1>1. IssueTypes
  BY DEF DeliveryInv
<1> DEFINE closed(q) == q \in rs /\ commands[q].delivery # None /\ ~commands[q].revoked
<1>2. ASSUME NEW q \in Requests
      PROVE  /\ commands'[q] \in CommandRow
             /\ commands'[q].claim = commands[q].claim
             /\ ~closed(q) => commands'[q] = commands[q]
             /\ closed(q) => commands'[q].delivery =
                  IF commands[q].delivery = "acknowledged" THEN "acknowledged"
                  ELSE IF commands[q].claim # None THEN "unknown" ELSE "not_attempted"
  <2>1. commands[q] \in CommandRow
    BY <1>1 DEF IssueTypes
  <2>2. CASE ~closed(q)
    BY <2>1, <2>2 DEF apiKeyDeliveryRevokeCommands
  <2>3. CASE closed(q)
    <3> DEFINE row == [commands[q] EXCEPT
                         !.delivery = IF @ = "acknowledged" THEN @
                                      ELSE IF commands[q].claim # None THEN "unknown" ELSE "not_attempted",
                         !.runtime = "unknown", !.revoked = TRUE]
    <3>1. commands'[q] = row
      BY <2>3 DEF apiKeyDeliveryRevokeCommands
    <3>2. /\ row \in CommandRow /\ row.claim = commands[q].claim
          /\ row.delivery = IF commands[q].delivery = "acknowledged" THEN "acknowledged"
                            ELSE IF commands[q].claim # None THEN "unknown" ELSE "not_attempted"
      BY <2>1 DEF CommandRow, Deliveries
    <3> QED
      BY <2>3, <3>1, <3>2
  <2> QED
    BY <2>2, <2>3
<1>3. IssueTypes'
  <2>1. commands' \in [Requests -> CommandRow]
    BY <1>2 DEF apiKeyDeliveryRevokeCommands
  <2> QED
    BY <1>1, <2>1 DEF IssueTypes
<1>4. ASSUME NEW q \in Requests PROVE ClaimedFirst(q)' /\ StackInv(q)' /\ RowInv(q)'
  <2>1. ClaimedFirst(q) /\ StackInv(q) /\ RowInv(q)
    BY DEF DeliveryInv
  <2>2. vault'[q] = vault[q] /\ stack'[q] = stack[q]
    OBVIOUS
  <2>3. key'[q] = key[q] \/ (key[q] # None /\ key'[q] = "revoked")
    OBVIOUS
  <2>4. CASE ~closed(q)
    <3>1. commands'[q] = commands[q]
      BY <1>2, <2>4
    <3>2. key'[q] = "revoked" => commands[q].delivery # None
      BY <2>1, <2>3 DEF ClaimedFirst, None
    <3> QED
      BY <2>1, <2>2, <2>3, <3>1, <3>2 DEF ClaimedFirst, StackInv, RowInv, None
  <2>5. CASE closed(q)
    <3>1. key'[q] = "revoked"
      BY <2>1, <2>5 DEF RowInv
    <3> QED
      BY <1>2, <2>1, <2>2, <2>5, <3>1 DEF ClaimedFirst, StackInv, RowInv, None
  <2> QED
    BY <2>4, <2>5
<1>5. Served'
  BY DEF DeliveryInv, Served
<1>6. \A q \in Requests : key[q] = "revoked" => key'[q] = "revoked"
  BY DEF None
<1>7. \A q \in Requests : commands[q].revoked => commands'[q] = commands[q]
  BY <1>2
<1> QED
  BY <1>3, <1>4, <1>5, <1>6, <1>7 DEF DeliveryInv

LEMMA RevokeKeyStep ==
  ASSUME DeliveryInv, NEW r \in Requests, NEW p \in Processes, RevokeKey(r, p)
  PROVE  /\ DeliveryInv'
         /\ \A q \in Requests : key[q] = "revoked" => key'[q] = "revoked"
         /\ \A q \in Requests : commands[q].revoked => commands'[q] = commands[q]
<1>1. IssueTypes
  BY DEF DeliveryInv
<1>2. /\ key' \in [Requests -> {None, "pending", "active", "revoked"}]
      /\ \A q \in {r} : key'[q] = IF key[q] = None THEN None ELSE "revoked"
      /\ \A q \in Requests \ {r} : key'[q] = key[q]
  BY <1>1 DEF IssueTypes, RevokeKey, None
<1>3. /\ serving' \in [Processes -> SUBSET Requests]
      /\ \A q \in Processes : serving'[q] \subseteq serving[q]
  BY <1>1 DEF IssueTypes, RevokeKey
<1>4. commands' = apiKeyDeliveryRevokeCommands({r}) /\ UNCHANGED <<stack, vault>>
  BY DEF RevokeKey
<1>5. {r} \in SUBSET Requests
  OBVIOUS
<1> QED
  BY <1>2, <1>3, <1>4, <1>5, RevokeStep

LEMMA OffboardingStep ==
  ASSUME DeliveryInv, NEW p \in Processes, apiKeyDeliveryOffboarding(p)
  PROVE  /\ DeliveryInv'
         /\ \A q \in Requests : key[q] = "revoked" => key'[q] = "revoked"
         /\ \A q \in Requests : commands[q].revoked => commands'[q] = commands[q]
<1>1. IssueTypes
  BY DEF DeliveryInv
<1>2. /\ key' \in [Requests -> {None, "pending", "active", "revoked"}]
      /\ \A q \in Requests : key'[q] = IF key[q] = None THEN None ELSE "revoked"
      /\ \A q \in Requests \ Requests : key'[q] = key[q]
  BY <1>1 DEF IssueTypes, apiKeyDeliveryOffboarding
<1>3. /\ serving' \in [Processes -> SUBSET Requests]
      /\ \A q \in Processes : serving'[q] \subseteq serving[q]
  BY <1>1 DEF IssueTypes, apiKeyDeliveryOffboarding
<1>4. commands' = apiKeyDeliveryRevokeCommands(Requests) /\ UNCHANGED <<stack, vault>>
  BY DEF apiKeyDeliveryOffboarding
<1>5. Requests \in SUBSET Requests
  OBVIOUS
<1> QED
  BY <1>2, <1>3, <1>4, <1>5, RevokeStep

-----------------------------------------------------------------------------
(* What is final.                                                          *)
StaysRevoked(r) ==
    /\ key[r] = "revoked" => key'[r] = "revoked"
    /\ commands[r].revoked => commands'[r].revoked /\ commands'[r].delivery = commands[r].delivery
                             /\ commands'[r].runtime = commands[r].runtime

LEMMA DeliveryStep ==
  ASSUME DeliveryInv, IssueNext
  PROVE  DeliveryInv' /\ \A r \in Requests : StaysRevoked(r)
<1>1. CASE \/ \E changed, managed \in BOOLEAN : SaveAPIKeyDeliveryPolicy(changed, managed)
           \/ SaveAPIKeyDeliveryIdentity
           \/ \E current \in BOOLEAN : SaveAPIKeyCallerTemplate(current)
           \/ VerifyAPIKeyDeliveryDependencies
           \/ ResolveAPIKeyDeliveryTarget
  <2>1. UNCHANGED <<key, vault, stack, serving>>
    BY <1>1 DEF SaveAPIKeyDeliveryPolicy, SaveAPIKeyDeliveryIdentity, SaveAPIKeyCallerTemplate,
                VerifyAPIKeyDeliveryDependencies, ResolveAPIKeyDeliveryTarget, Rest
  <2> QED
    BY <1>1, <2>1, ConfigStep DEF StaysRevoked, Alike
<1>2. CASE \E yes \in BOOLEAN :
             ApproveAPIKeyDeliveryPrincipal(yes) \/ AttestAPIKeyDeliveryIsolation(yes)
  <2>1. UNCHANGED <<key, vault, stack, serving>>
    BY <1>2 DEF ApproveAPIKeyDeliveryPrincipal, AttestAPIKeyDeliveryIsolation,
                apiKeyDeliveryAttestAction
  <2> QED
    BY <1>2, <2>1, ConfigStep DEF StaysRevoked, Alike
<1>3. CASE \/ \E reconciled \in BOOLEAN : ReconcileEnd(reconciled)
           \/ \E p \in Processes : ReconcileBegin(p)
  <2>1. UNCHANGED <<key, vault, stack, serving, commands>>
    BY <1>3 DEF ReconcileEnd, ReconcileBegin
  <2> QED
    BY <2>1, ConfigStep DEF StaysRevoked, Alike
<1>4. ASSUME NEW p \in Processes, Refresh(p) \/ apiKeyDeliveryOffboarding(p)
      PROVE  DeliveryInv' /\ \A r \in Requests : StaysRevoked(r)
  BY <1>4, RefreshStep, OffboardingStep DEF StaysRevoked
<1>5. ASSUME NEW r \in Requests, NEW yes \in BOOLEAN, Claim(r, yes)
      PROVE  DeliveryInv' /\ \A q \in Requests : StaysRevoked(q)
  BY <1>5, ClaimStep DEF StaysRevoked
<1>6. ASSUME NEW r \in Requests, NEW stored \in BOOLEAN, NEW answered \in BOOLEAN,
             Write(r, stored, answered)
      PROVE  DeliveryInv' /\ \A q \in Requests : StaysRevoked(q)
  BY <1>6, WriteStep DEF StaysRevoked
<1>7. ASSUME NEW r \in Requests, Record(r) \/ Abandon(r)
      PROVE  DeliveryInv' /\ \A q \in Requests : StaysRevoked(q)
  BY <1>7, RecordStep, AbandonStep DEF StaysRevoked
<1>8. ASSUME NEW r, NEW p,
             \/ NotAdmitted(r) \/ RecordFails(r) \/ PublishRefused(r)
             \/ Duplicate(r, p) \/ FinalizeAbandoned(r) \/ PublicationUnconfirmed(r) \/ Crash(p)
      PROVE  DeliveryInv' /\ \A q \in Requests : StaysRevoked(q)
  BY <1>8, QuietStep DEF StaysRevoked
<1>9. ASSUME NEW r \in Requests, Confirm(r)
      PROVE  DeliveryInv' /\ \A q \in Requests : StaysRevoked(q)
  BY <1>9, ConfirmStep DEF StaysRevoked, Alike
<1>10. ASSUME NEW r \in Requests, NEW p \in Processes, Prepare(r, p)
       PROVE  DeliveryInv' /\ \A q \in Requests : StaysRevoked(q)
  <2>1. key[r] = None /\ ~commands[r].revoked
    BY <1>10 DEF Prepare, DeliveryInv, ClaimedFirst
  <2>2. \A q \in Requests : q # r => key'[q] = key[q] /\ commands'[q] = commands[q]
    BY <1>10 DEF Prepare, DeliveryInv, IssueTypes
  <2> QED
    BY <1>10, <2>1, <2>2, PrepareStep DEF StaysRevoked, None
<1>11. ASSUME NEW r \in Requests, NEW p \in Processes, RevokeKey(r, p)
       PROVE  DeliveryInv' /\ \A q \in Requests : StaysRevoked(q)
  BY <1>11, RevokeKeyStep DEF StaysRevoked
<1>12. ASSUME NEW r \in Requests,
              \/ PublishIssued(r)
              \/ \E p \in Processes : ReconcileAPIKeyDeliveryPublication(r, p)
       PROVE  DeliveryInv' /\ \A q \in Requests : StaysRevoked(q)
  BY <1>12, PublishStep DEF StaysRevoked
<1> QED
  BY <1>1, <1>2, <1>3, <1>4, <1>5, <1>6, <1>7, <1>8, <1>9, <1>10, <1>11, <1>12 DEF IssueNext

LEMMA DeliveryStutter ==
  ASSUME DeliveryInv, UNCHANGED issueVars
  PROVE  DeliveryInv'
BY DEF issueVars, DeliveryInv, IssueTypes, ClaimedFirst, StackInv, RowInv, Served

(* The inductive invariant holds however many requests and processes there *)
(* are, and wherever they are interrupted.                                 *)
THEOREM DeliveryInvariance == IssueSpec => []DeliveryInv
<1>1. DeliveryInv /\ [IssueNext]_issueVars => DeliveryInv'
  BY DeliveryStep, DeliveryStutter
<1> QED
  BY <1>1, DeliveryInit, PTL DEF IssueSpec

(* No gateway serves a Key whose secret is not known to be in the Vault    *)
(* (filterAPIKeyDeliveryRuntime), and a given-up Key is not active.        *)
THEOREM ServedWasDeliveredAlways == IssueSpec => []ServedWasDelivered
<1>1. DeliveryInv => ServedWasDelivered
  BY DEF DeliveryInv, Served, RowInv, ServedWasDelivered
<1> QED
  BY <1>1, DeliveryInvariance, PTL

(* What apiKeyDeliveryRecordOutcome and apiKeyDeliveryRevokeCommands leave *)
(* in the row is true of the Vault, and nobody writes a second version.    *)
THEOREM OutcomeTrueAlways == IssueSpec => []OutcomeTrue
<1>1. DeliveryInv => OutcomeTrue
  BY DEF DeliveryInv, IssueTypes, ClaimedFirst, RowInv, OutcomeTrue
<1> QED
  BY <1>1, DeliveryInvariance, PTL

(* No late answer, duplicate, confirmation or publication revives a        *)
(* revoked Key or rewrites the outcome of its command.                     *)
THEOREM OutcomeIsFinalAlways == IssueSpec => OutcomeIsFinal
<1>1. DeliveryInv /\ [IssueNext]_issueVars =>
        [\A r \in Requests :
           /\ key[r] = "revoked" => key'[r] = "revoked"
           /\ commands[r].revoked => commands'[r].revoked /\ commands'[r].delivery = commands[r].delivery
                                    /\ commands'[r].runtime = commands[r].runtime]_issueVars
  BY DeliveryStep DEF StaysRevoked
<1> QED
  BY <1>1, DeliveryInvariance, PTL DEF IssueSpec, OutcomeIsFinal
=============================================================================
