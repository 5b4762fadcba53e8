-------------------------- MODULE RuntimeOperations --------------------------
(***************************************************************************)
(* The control-plane writes that change what the gateway may serve, each   *)
(* reduced to the part it plays in the publication protocol:               *)
(*   pin      the exclusive publication gate: waited for ("lock"), only    *)
(*            tried ("try"), or not taken ("none");                        *)
(*   effects  whether the write can leave its subject permitted, denied,   *)
(*            either, or as it was;                                        *)
(*   barrier  when it puts a tombstone in the memory of its own server     *)
(*            after the commit: whenever its target is denied, only when   *)
(*            the row really changed to denied ("reduced"), only when it   *)
(*            changed ("changed"), "always", or never ("none");            *)
(*   refresh  the publication that follows: waited for, and its failure    *)
(*            reported ("must"); only tried ("try"); or its result dropped *)
(*            ("ignored");                                                 *)
(*   confirm  what is read again before the answer;                        *)
(*   careful  the barrier also follows a commit with an unknown outcome;   *)
(*   command  the publication itself is claimed in a durable row.          *)
(* RuntimeSnapshot runs them; writes with the same part are the same there.*)
(***************************************************************************)
Operation(pin, effects, barrier, refresh) ==
    [pin |-> pin, effects |-> effects, barrier |-> barrier, refresh |-> refresh,
     confirm |-> "none", careful |-> FALSE, command |-> FALSE]
Confirmed(op, how) == [op EXCEPT !.confirm = how]
Careful(op) == [op EXCEPT !.careful = TRUE]

Permit == {"permitted"}
Revoke == {"denied"}
Either == Permit \union Revoke
Silent == {"same"}    \* nothing the gateway may serve changes by it

-----------------------------------------------------------------------------
(* Personal and project Keys.  Writers of personal Keys take the gate.     *)
CreatePersonalKey           == Operation("lock", Silent, "none",   "must")
RotatePersonalKey           == Operation("lock", Silent, "none",   "must")
CreateProjectKey            == Operation("none", Silent, "none",   "must")
RotateProjectKey            == Operation("none", Silent, "none",   "must")
ConfirmKeyDelivery          == Operation("lock", Permit,  "none",   "must")
UpdatePersonalKey           == Operation("lock", Either, "denied", "must")
RevokePersonalKey           == Operation("lock", Revoke,  "denied", "must")
CompletePersonalKeyRotation == Operation("lock", Revoke,  "denied", "must")
DisableMemberKey            == Confirmed(Operation("lock", Revoke, "denied", "must"), "published")
ConfirmProjectKey           == Operation("none", Permit,  "none",   "must")
UpdateProjectKey            == Operation("none", Either, "denied", "must")
RevokeProjectKey            == Operation("none", Revoke,  "denied", "must")
CompleteProjectKeyRotation  == Operation("none", Revoke,  "denied", "must")

(* Members: account state, approval, grants and offboarding.               *)
SetReviewedMemberState == Confirmed(Operation("lock", Either, "reduced", "must"), "published")
updateMemberLegacy     == Operation("lock", Either, "reduced", "must")
SetMemberApproval      == Confirmed(Operation("lock", Either, "none", "must"), "published")
SetMemberModels        == Confirmed(Operation("lock", Either, "reduced", "must"), "published")
SetModelGrants         == Operation("lock", Either, "reduced", "must")
CompleteOffboarding    == Operation("lock", Revoke,  "denied",  "must")
EmergencyOffboarding   == Operation("lock", Revoke,  "denied",  "must")
RegisterWithApproval   == Operation("none", Permit,  "none",    "must")
CreateMember           == Operation("none", Permit,  "none",    "must")
DecidePersonalModelRequest == Operation("lock", Permit, "none", "ignored")

(* Teams and Projects.                                                     *)
UpdateProject        == Operation("none", Either, "denied",  "must")
UpdateTeam           == Operation("none", Either, "always",  "must")
SetTeamMembers       == Operation("none", Either, "reduced", "must")
SetProjectManagers   == Operation("none", Either, "none",    "must")
SetResourceModels    == Operation("none", Either, "reduced", "must")
DecideProjectRequest == Operation("none", Permit,  "none",    "must")
CreateTeamWithInitialLimits ==
    Confirmed(Operation("none", Permit, "none", "must"), "published")
CreateProjectWithInitialResources ==
    Confirmed(Operation("none", Permit, "none", "must"), "published")
DecideTeamModelRequest == Operation("none", Permit, "none", "ignored")

(* Models and their names and weights.                                     *)
CreateModel             == Operation("lock", Permit,  "none",   "must")
CreateModelBatch        == Operation("none", Permit,  "none",   "must")
AddModelBinding         == Operation("none", Permit,  "none",   "must")
AddReviewedModelBinding == Operation("none", Permit,  "none",   "must")
SetModelLifecycle       == Confirmed(Operation("try", Either, "denied", "try"), "current")
SetModelWeights         == Operation("none", Either, "always", "must")
RenameModel             == Operation("none", Either, "always", "must")
RetireModelAlias        == Operation("none", Revoke,  "always", "must")
RollbackModelWeights    == Operation("lock", Either, "changed", "ignored")

(* Credentials, connections and providers.                                 *)
CreateProvider           == Operation("none", Permit,  "none",   "must")
CreateConnection         == Operation("none", Permit,  "none",   "must")
CreateCredential         == Operation("none", Permit,  "none",   "must")
CreateProviderModel      == Operation("none", Permit,  "none",   "must")
WriteConnectionMetadata  == Confirmed(Operation("none", Silent, "none", "must"), "published")
WriteCredentialMetadata  == Operation("none", Silent, "none", "must")
WriteProviderMetadata    == Confirmed(Operation("lock", Silent, "none", "must"), "published")
SetCredentialEnabled     == Operation("none", Either, "denied", "must")
VerifyCredential         == Operation("none", Either, "always", "must")
DeleteCredential         == Operation("none", Revoke,  "denied", "must")
RetireCredential         == Operation("try",  Revoke,  "denied", "ignored")
WriteDeploymentCoverage  == Confirmed(Operation("lock", Either, "changed", "must"), "published")
WriteConnectionStatus    == Confirmed(Operation("lock", Either, "denied", "must"), "published")
writeConnectionTransport == Careful(Confirmed(Operation("lock", Either, "always", "must"), "published"))
WriteProviderStatus      == Confirmed(Operation("lock", Either, "denied", "must"), "published")
UpdateProviderModel      == Careful(Confirmed(Operation("lock", Either, "changed", "must"), "published"))
WriteReservationBound    == Careful(Confirmed(Operation("lock", Either, "always", "must"), "published"))

(* Egress: the generation that every route carries is a tombstone of all   *)
(* of them, lifted by a refresh that begins after it.                      *)
WriteEgress         == Operation("none", Either, "always", "must")
SetEgressDefault    == Operation("none", Either, "always", "must")
SetConnectionEgress == Operation("none", Either, "always", "must")

(* Prices.                                                                 *)
WritePrices           == Operation("none", Silent, "none", "must")
WritePricingCurrency  == Operation("none", Silent, "none", "must")
commitPriceDocument   == Operation("none", Silent, "none", "must")
ApplyRepositoryPrices == Operation("none", Silent, "none", "ignored")

(* Sessions and sign-in: the answer confirms the durable change only.      *)
Logout                  == Operation("none", Revoke, "denied", "ignored")
RevokeAccountSession    == Operation("none", Revoke, "denied", "ignored")
changePassword          == Operation("lock", Revoke, "denied", "ignored")
EnableMFA               == Operation("none", Revoke, "denied", "ignored")
ChangeMFA               == Operation("none", Revoke, "denied", "ignored")
UnlinkOIDC              == Operation("none", Revoke, "denied", "ignored")
UnlinkOAuth             == Operation("none", Revoke, "denied", "ignored")
UnlinkSAML              == Operation("none", Revoke, "denied", "ignored")
UnlinkLDAP              == Operation("none", Revoke, "denied", "ignored")
unlinkNamedIdentity     == Operation("none", Revoke, "denied", "ignored")
(* A provider whose policy changed: the sessions of the old revision end.  *)
SaveOIDCProvider          == Operation("none", Revoke, "changed", "ignored")
SetOIDCEnabled            == Operation("none", Revoke, "changed", "ignored")
SaveOAuthProvider         == Operation("none", Revoke, "changed", "ignored")
SetOAuthEnabled           == Operation("none", Revoke, "changed", "ignored")
SaveSAML                  == Operation("none", Revoke, "changed", "ignored")
SetSAMLStatus             == Operation("none", Revoke, "changed", "ignored")
SaveLDAPProvider          == Operation("none", Revoke, "changed", "ignored")
SetLDAPEnabled            == Operation("none", Revoke, "changed", "ignored")
saveNamedIdentityProvider == Operation("none", Revoke, "changed", "ignored")
setNamedIdentityEnabled   == Operation("none", Revoke, "changed", "ignored")

(* Limits and quota: a scope with a new policy is closed until published.  *)
SetResourceLimit            == Operation("none", Either, "always", "must")
SetTeamResourceLimit        == Confirmed(Operation("none", Either, "always", "must"), "published")
ResetResourceLimitToDefault == Confirmed(Operation("none", Either, "always", "must"), "current")
WriteQuotaSettings          == Operation("none", Either, "always", "must")
decideProjectLimitRequest   == Operation("none", Either, "always", "must")
DecideTeamQuotaRequest      == Operation("none", Either, "always", "ignored")

(* A publication asked for by an administrator, alone or with the archived *)
(* routing that it restores.                                               *)
PublishRuntimeCommand  == [Operation("none", Silent, "none", "must") EXCEPT !.command = TRUE]
RollbackRuntimeArchive == [Careful(Operation("try", Either, "always", "try")) EXCEPT !.command = TRUE]

AllOperations ==
    {CreatePersonalKey, RotatePersonalKey, CreateProjectKey, RotateProjectKey,
     ConfirmKeyDelivery, UpdatePersonalKey, RevokePersonalKey,
     CompletePersonalKeyRotation, DisableMemberKey, ConfirmProjectKey, UpdateProjectKey,
     RevokeProjectKey, CompleteProjectKeyRotation, SetReviewedMemberState,
     updateMemberLegacy, SetMemberApproval, SetMemberModels, SetModelGrants,
     CompleteOffboarding, EmergencyOffboarding, RegisterWithApproval, CreateMember,
     DecidePersonalModelRequest, UpdateProject, UpdateTeam, SetTeamMembers,
     SetProjectManagers, SetResourceModels, DecideProjectRequest,
     CreateTeamWithInitialLimits, CreateProjectWithInitialResources,
     DecideTeamModelRequest, CreateModel, CreateModelBatch, AddModelBinding,
     AddReviewedModelBinding, SetModelLifecycle, SetModelWeights, RenameModel,
     RetireModelAlias, RollbackModelWeights, CreateProvider, CreateConnection,
     CreateCredential, CreateProviderModel, WriteConnectionMetadata,
     WriteCredentialMetadata, WriteProviderMetadata, SetCredentialEnabled,
     VerifyCredential, DeleteCredential, RetireCredential, WriteDeploymentCoverage,
     WriteConnectionStatus, writeConnectionTransport, WriteProviderStatus,
     UpdateProviderModel, WriteReservationBound, WriteEgress, SetEgressDefault,
     SetConnectionEgress, WritePrices, WritePricingCurrency, commitPriceDocument,
     ApplyRepositoryPrices, Logout, RevokeAccountSession, changePassword, EnableMFA,
     ChangeMFA, UnlinkOIDC, UnlinkOAuth, UnlinkSAML, UnlinkLDAP, unlinkNamedIdentity,
     SaveOIDCProvider, SetOIDCEnabled, SaveOAuthProvider, SetOAuthEnabled, SaveSAML,
     SetSAMLStatus, SaveLDAPProvider, SetLDAPEnabled, saveNamedIdentityProvider,
     setNamedIdentityEnabled, SetResourceLimit, SetTeamResourceLimit,
     ResetResourceLimitToDefault, WriteQuotaSettings, decideProjectLimitRequest,
     DecideTeamQuotaRequest, PublishRuntimeCommand, RollbackRuntimeArchive}
=============================================================================
