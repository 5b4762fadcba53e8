----------------------------- MODULE KeyDelivery -----------------------------
(***************************************************************************)
(* Managed delivery of API Keys (service/api_key_delivery_*.go): a Key     *)
(* whose secret is written to the owner's Vault and shown to nobody.       *)
(*                                                                         *)
(* An issue request prepares a pending Key and a command row, validates    *)
(* the machine identities, claims the command for its process, writes the  *)
(* secret once, records the outcome and publishes the Key.  Between these  *)
(* steps the process may stop, a duplicate of the request may arrive at    *)
(* this or another process, the Key may be revoked, its owner offboarded,  *)
(* and the policy, the caller template or the target may change.           *)
(*                                                                         *)
(* A revision that a row remembers is kept as the question whether it is   *)
(* still the current one.  One owner has one target; every process has the *)
(* Keys its gateway serves, replaced by a refresh (RuntimeSnapshot has the *)
(* detail).                                                                *)
(***************************************************************************)
EXTENDS Naturals, FiniteSets

CONSTANTS Requests,     \* issue requests, each with its Key and its command
          Processes     \* processes, a restarted one under a new name

\* A process has an identity, which no row confuses with the absent one.
ASSUME DeliveryAssumption == "none" \notin Processes

VARIABLES policy,       \* configured, verified, managed
          target,       \* the access profile with its principal and attestation
          owner,        \* may still act: session, membership and ownership
          commands,      \* per request: the command row
          key,          \* per request: the status of its Key
          stack,        \* per request: the handler that created the command
          dup,          \* per request: a handler that found the command
          pub,          \* per request: a handler in apiKeyDeliveryPublish
          vault,        \* per request: versions the Vault stores (external)
          serving,      \* per process: Keys its gateway serves
          up,           \* processes that run
          reconcile     \* the handler in ReconcileAPIKeyDeliveryTarget

issueVars == <<policy, target, owner, commands, key, stack, dup, pub, vault, serving, up, reconcile>>

None == "none"
NoStack == [pc |-> "idle"]
NoCommand ==
    [delivery |-> None, claim |-> None, revoked |-> FALSE, runtime |-> "pending",
     review |-> TRUE, secure |-> TRUE, isolation |-> TRUE, bound |-> TRUE]

IssueInit ==
    /\ policy = [configured |-> FALSE, verified |-> FALSE, managed |-> FALSE]
    /\ target = [exists |-> FALSE, current |-> TRUE, enabled |-> TRUE, approved |-> FALSE,
                 isolation |-> "missing", ready |-> FALSE]
    /\ owner = TRUE
    /\ commands = [r \in Requests |-> NoCommand]
    /\ key = [r \in Requests |-> None]
    /\ stack = [r \in Requests |-> NoStack]
    /\ dup = [r \in Requests |-> NoStack]
    /\ pub = [r \in Requests |-> NoStack]
    /\ vault = [r \in Requests |-> 0]
    /\ serving = [p \in Processes |-> {}]
    /\ up = Processes
    /\ reconcile = NoStack

KeyTypeOK ==
    /\ \A r \in Requests :
         /\ commands[r].delivery \in {None, "pending", "not_attempted", "unknown", "acknowledged"}
         /\ commands[r].claim \in Processes \union {None}
         /\ commands[r].runtime \in {"pending", "unknown", "confirmed"}
         /\ key[r] \in {None, "pending", "active", "revoked"}
         /\ vault[r] \in Nat
    /\ serving \in [Processes -> SUBSET Requests]

-----------------------------------------------------------------------------
(* Policy, identities, template and target.                                *)

(* A new review revision of the policy, or a new security revision.        *)
Reviewed(cs) == [r \in Requests |-> [cs[r] EXCEPT !.review = FALSE]]
Resecured(cs) == [r \in Requests |-> [cs[r] EXCEPT !.review = FALSE, !.secure = FALSE]]
Retargeted(cs) == [r \in Requests |-> [cs[r] EXCEPT !.bound = FALSE]]

(* The session, the membership and the ownership are still current.        *)
apiKeyDeliveryOwnerCurrent == owner

Rest == <<owner, key, stack, dup, pub, vault, serving, up, reconcile>>

apiKeyDeliverySnapshot(verified) == policy.configured /\ (verified => policy.verified)

(* The integration and the identities: managed delivery can only be        *)
(* switched on for the configuration that was verified.                    *)
SaveAPIKeyDeliveryPolicy(changed, managed) ==
    /\ changed \/ policy.configured
    /\ managed => ~changed /\ policy.verified
    /\ policy' = [configured |-> TRUE, verified |-> policy.verified /\ ~changed,
                  managed |-> managed]
    /\ \E current \in BOOLEAN :
         /\ ~changed => current = target.current
         /\ (changed /\ target.exists /\ target.current) => ~current
         /\ target' = [target EXCEPT !.current = current]
    /\ commands' = IF changed THEN Resecured(commands)
                  ELSE IF managed # policy.managed THEN Reviewed(commands) ELSE commands
    /\ UNCHANGED Rest

SaveAPIKeyDeliveryIdentity ==
    /\ commands' = Reviewed(commands)
    /\ UNCHANGED <<policy, target>> /\ UNCHANGED Rest

(* The caller template: a changed one takes the policy's verification and  *)
(* makes a target of the old one stale; one changed back makes it current. *)
SaveAPIKeyCallerTemplate(current) ==
    /\ policy.configured
    /\ (target.exists /\ target.current) => ~current
    /\ policy' = [policy EXCEPT !.verified = FALSE]
    /\ target' = [target EXCEPT !.current = current]
    /\ commands' = Resecured(commands)
    /\ UNCHANGED Rest

(* Both machine identities answered for the configuration that is still    *)
(* the current one.                                                        *)
VerifyAPIKeyDeliveryDependencies ==
    /\ apiKeyDeliverySnapshot(FALSE)
    /\ policy' = [policy EXCEPT !.verified = TRUE]
    /\ commands' = Reviewed(commands)
    /\ UNCHANGED target /\ UNCHANGED Rest

ResolveAPIKeyDeliveryTarget ==
    /\ apiKeyDeliveryOwnerCurrent /\ apiKeyDeliverySnapshot(TRUE) /\ ~target.exists
    /\ target' = [target EXCEPT !.exists = TRUE, !.current = TRUE]
    /\ UNCHANGED <<policy, commands>> /\ UNCHANGED Rest

apiKeyDeliveryIsolation == target.isolation = "attested"

(* The target was made from what the policy and the template say now.      *)
apiKeyDeliveryTargetCurrent == target.exists /\ target.current

(* A review of the target: it is not ready any more, and a reconciliation  *)
(* under way is out of date.                                               *)
apiKeyDeliveryAttestAction(reviewed) ==
    /\ apiKeyDeliverySnapshot(FALSE) /\ apiKeyDeliveryTargetCurrent
    /\ target' = [reviewed EXCEPT !.ready = FALSE]
    /\ reconcile' = IF reconcile.pc = "idle" THEN reconcile ELSE [reconcile EXCEPT !.fresh = FALSE]
    /\ UNCHANGED <<policy, owner, key, stack, dup, pub, vault, serving, up>>

(* An approval changes the tuple that was attested.                        *)
ApproveAPIKeyDeliveryPrincipal(approved) ==
    /\ apiKeyDeliveryAttestAction([target EXCEPT !.approved = approved,
                                     !.isolation = IF @ = "attested" THEN "stale" ELSE @])
    /\ commands' = Retargeted(commands)

AttestAPIKeyDeliveryIsolation(isolated) ==
    /\ apiKeyDeliveryAttestAction(
         [target EXCEPT !.isolation = IF isolated THEN "attested" ELSE "revoked"])
    /\ commands' = [r \in Requests |-> [commands[r] EXCEPT !.isolation = FALSE, !.bound = FALSE]]

(* Reconciliation leaves the target pending while it provisions the Vault, *)
(* and makes it ready only if nothing was reviewed in between.             *)
Reconcilable ==
    /\ apiKeyDeliverySnapshot(TRUE)
    /\ apiKeyDeliveryTargetCurrent /\ target.enabled /\ target.approved
    /\ apiKeyDeliveryIsolation

ReconcileBegin(p) ==
    /\ p \in up /\ reconcile.pc = "idle" /\ Reconcilable
    /\ target' = [target EXCEPT !.ready = FALSE]
    /\ reconcile' = [pc |-> "provisioning", at |-> p, fresh |-> TRUE]
    /\ UNCHANGED <<policy, owner, commands, key, stack, dup, pub, vault, serving, up>>

ReconcileEnd(reconciled) ==
    /\ reconcile.pc = "provisioning"
    /\ target' = IF reconciled /\ reconcile.fresh /\ Reconcilable
                 THEN [target EXCEPT !.ready = TRUE] ELSE target
    /\ reconcile' = NoStack
    /\ UNCHANGED <<policy, owner, commands, key, stack, dup, pub, vault, serving, up>>

apiKeyDeliveryReady ==
    /\ apiKeyDeliveryIsolation
    /\ apiKeyDeliveryTargetCurrent /\ target.enabled /\ target.approved /\ target.ready

-----------------------------------------------------------------------------
(* Issue.                                                                  *)
Config == <<policy, target, owner, reconcile>>

(* The binding of the Key to the target, its principal and its attestation *)
apiKeyDeliveryBindingCurrent(r) == commands[r].bound

(* First transaction of issueManagedAPIKey, for a request not seen before: *)
(* the pending Key, its binding and its command.                           *)
Prepare(r, p) ==
    /\ p \in up /\ commands[r].delivery = None /\ apiKeyDeliveryOwnerCurrent /\ policy.managed
    /\ apiKeyDeliverySnapshot(TRUE) /\ apiKeyDeliveryReady
    /\ \A q \in Requests : commands[q].delivery # "pending" \/ commands[q].revoked
    /\ key' = [key EXCEPT ![r] = "pending"]
    /\ commands' = [commands EXCEPT ![r] = [NoCommand EXCEPT !.delivery = "pending"]]
    /\ stack' = [stack EXCEPT ![r] = [pc |-> "prepared", at |-> p, claim |-> None]]
    /\ UNCHANGED <<dup, pub, vault, serving, up>> /\ UNCHANGED Config

(* The identities could not be validated, the process has no identity, or  *)
(* the second transaction failed before it claimed.                        *)
NotAdmitted(r) ==
    /\ stack[r].pc = "prepared"
    /\ stack' = [stack EXCEPT ![r].pc = "failed"]
    /\ UNCHANGED <<commands, key, dup, pub, vault, serving, up>> /\ UNCHANGED Config

apiKeyDeliveryClaimable(r) ==
    commands[r].delivery = "pending" /\ commands[r].claim = None /\ ~commands[r].revoked

(* Second transaction: the sole permission to use the secret.  known is    *)
(* FALSE when it commits and its answer is lost.                           *)
Claim(r, known) ==
    /\ stack[r].pc = "prepared"
    /\ apiKeyDeliveryOwnerCurrent /\ apiKeyDeliverySnapshot(TRUE) /\ apiKeyDeliveryReady /\ policy.managed
    /\ apiKeyDeliveryClaimable(r)
    /\ commands[r].review /\ commands[r].secure /\ apiKeyDeliveryBindingCurrent(r)
    /\ key[r] = "pending"
    /\ commands' = [commands EXCEPT ![r].claim = stack[r].at]
    /\ stack' = [stack EXCEPT ![r] =
         [pc |-> IF known THEN "claimed" ELSE "failed", at |-> @.at, claim |-> @.at]]
    /\ UNCHANGED <<key, dup, pub, vault, serving, up>> /\ UNCHANGED Config

(* The write: create-only version 1, refused by a Vault that has a version *)
(* already.  Its answer may be lost, and it may be lost itself.            *)
Write(r, stored, answered) ==
    /\ stack[r].pc = "claimed" /\ (answered => stored) /\ (stored => vault[r] = 0)
    /\ vault' = IF stored THEN [vault EXCEPT ![r] = @ + 1] ELSE vault
    /\ stack' = [stack EXCEPT ![r].pc = IF answered THEN "written" ELSE "failed"]
    /\ UNCHANGED <<commands, key, dup, pub, serving, up>> /\ UNCHANGED Config

(* apiKeyDeliveryPostWriteCurrent: the issuer and everything the command   *)
(* was prepared with are still current.                                    *)
apiKeyDeliveryPostWriteCurrent(r) ==
    /\ apiKeyDeliveryOwnerCurrent /\ policy.managed /\ commands[r].secure /\ commands[r].review
    /\ apiKeyDeliverySnapshot(TRUE) /\ apiKeyDeliveryReady
    /\ apiKeyDeliveryBindingCurrent(r) /\ commands[r].isolation
    /\ key[r] = "pending"

(* The transaction of apiKeyDeliveryRecordOutcome.  seen is the claim in   *)
(* the row the caller holds.                                               *)
(* Mutant: an outcome that is there already is written again.              *)
Ignored_Unfinished(r, ack, seen) ==
    ~ack /\ seen = None /\ commands[r].claim # None

Ignored(r, ack, seen) ==
    \/ commands[r].revoked \/ commands[r].delivery # "pending"
    \/ ~ack /\ seen = None /\ commands[r].claim # None

Revoked(r) ==
    [commands EXCEPT ![r].delivery = IF commands[r].claim = None THEN "not_attempted" ELSE "unknown",
                    ![r].runtime = "unknown", ![r].revoked = TRUE]

(* The secret arrived: the row says so even when the Key is refused.       *)
apiKeyDeliveryApplyAcknowledgement(r, eligible) ==
    [commands EXCEPT ![r].delivery = "acknowledged", ![r].revoked = ~eligible,
                    ![r].runtime = IF eligible THEN @ ELSE "unknown"]

apiKeyDeliveryRecordOutcome(r, p, ack, seen) ==
    LET eligible == apiKeyDeliveryPostWriteCurrent(r)
        revokes == ~ack \/ ~eligible
    IN IF Ignored(r, ack, seen)
       THEN /\ UNCHANGED <<commands, key>>
            /\ serving' = IF ack THEN serving ELSE [serving EXCEPT ![p] = @ \ {r}]
       ELSE /\ commands' = IF ack
                          THEN apiKeyDeliveryApplyAcknowledgement(r, eligible) ELSE Revoked(r)
            /\ key' = IF revokes THEN [key EXCEPT ![r] = "revoked"] ELSE key
            /\ serving' = IF revokes THEN [serving EXCEPT ![p] = @ \ {r}] ELSE serving

(* The handler records what it knows.                                      *)
Record(r) ==
    /\ stack[r].pc \in {"written", "failed"}
    /\ LET ack == stack[r].pc = "written"
       IN /\ ack => commands[r].claim = stack[r].claim \/ Ignored(r, ack, stack[r].claim)
          /\ apiKeyDeliveryRecordOutcome(r, stack[r].at, ack, stack[r].claim)
          /\ stack' = [stack EXCEPT ![r] = IF ack THEN [pc |-> "publish", at |-> @.at] ELSE NoStack]
    /\ UNCHANGED <<dup, pub, vault, up>> /\ UNCHANGED Config

(* The outcome cannot be recorded: the deadline passed, or no database.    *)
RecordFails(r) ==
    /\ stack[r].pc \in {"written", "failed"}
    /\ stack' = [stack EXCEPT ![r] = NoStack]
    /\ UNCHANGED <<commands, key, dup, pub, vault, serving, up>> /\ UNCHANGED Config

-----------------------------------------------------------------------------
(* The same request again, at any process.                                 *)
Duplicate(r, p) ==
    /\ p \in up /\ dup[r].pc = "idle" /\ apiKeyDeliveryOwnerCurrent /\ commands[r].delivery = "pending"
    /\ dup' = [dup EXCEPT ![r] = [pc |-> "found", at |-> p, claim |-> commands[r].claim]]
    /\ UNCHANGED <<commands, key, stack, pub, vault, serving, up>> /\ UNCHANGED Config

(* apiKeyDeliveryFinalizeAbandoned: a command claimed by this very process *)
(* is left alone; any other is read again and given up.                    *)
FinalizeAbandoned(r) ==
    /\ dup[r].pc = "found"
    /\ dup' = [dup EXCEPT ![r] =
         IF dup[r].claim = dup[r].at \/ ~apiKeyDeliveryOwnerCurrent THEN NoStack
         ELSE [@ EXCEPT !.pc = "abandon", !.claim = commands[r].claim]]
    /\ UNCHANGED <<commands, key, stack, pub, vault, serving, up>> /\ UNCHANGED Config

Abandon(r) ==
    /\ dup[r].pc = "abandon"
    /\ apiKeyDeliveryRecordOutcome(r, dup[r].at, FALSE, dup[r].claim)
    /\ dup' = [dup EXCEPT ![r] = NoStack]
    /\ UNCHANGED <<stack, pub, vault, up>> /\ UNCHANGED Config

-----------------------------------------------------------------------------
(* Publication, by the issuing handler or by one that reconciles it.       *)
(* Mutant: any command that was not revoked is published.                  *)
Authorised_Unacknowledged(r) ==
    /\ apiKeyDeliveryOwnerCurrent /\ apiKeyDeliverySnapshot(TRUE) /\ apiKeyDeliveryReady
    /\ commands[r].delivery # None /\ ~commands[r].revoked
    /\ commands[r].secure /\ commands[r].isolation /\ apiKeyDeliveryBindingCurrent(r)

Authorised(r) ==
    /\ apiKeyDeliveryOwnerCurrent /\ apiKeyDeliverySnapshot(TRUE) /\ apiKeyDeliveryReady
    /\ commands[r].delivery = "acknowledged" /\ ~commands[r].revoked
    /\ commands[r].secure /\ commands[r].isolation /\ apiKeyDeliveryBindingCurrent(r)

Publish(r, p) ==
    /\ pub[r].pc = "idle" /\ Authorised(r) /\ key[r] # "revoked"
    /\ key' = [key EXCEPT ![r] = "active"]
    /\ commands' = [commands EXCEPT ![r].runtime = "unknown"]
    /\ pub' = [pub EXCEPT ![r] = [pc |-> "activated", at |-> p]]
    /\ UNCHANGED <<dup, vault, serving, up>> /\ UNCHANGED Config

PublishIssued(r) ==
    /\ stack[r].pc = "publish"
    /\ Publish(r, stack[r].at)
    /\ stack' = [stack EXCEPT ![r] = NoStack]

PublishRefused(r) ==
    /\ stack[r].pc = "publish" /\ ~(Authorised(r) /\ key[r] # "revoked")
    /\ stack' = [stack EXCEPT ![r] = NoStack]
    /\ UNCHANGED <<commands, key, dup, pub, vault, serving, up>> /\ UNCHANGED Config

ReconcileAPIKeyDeliveryPublication(r, p) ==
    p \in up /\ Publish(r, p) /\ UNCHANGED stack

(* filterAPIKeyDeliveryRuntime: of the active Keys, a refresh publishes    *)
(* the acknowledged ones.                                                  *)
apiKeyDeliveryAcknowledged(r) ==
    /\ commands[r].delivery = "acknowledged" /\ commands[r].claim # None /\ ~commands[r].revoked
filterAPIKeyDeliveryRuntime ==
    {r \in Requests : key[r] = "active" /\ apiKeyDeliveryAcknowledged(r)}

Refresh(p) ==
    /\ p \in up
    /\ serving' = [serving EXCEPT ![p] = filterAPIKeyDeliveryRuntime]
    /\ pub' = [r \in Requests |-> IF pub[r].pc = "activated" /\ pub[r].at = p
                                  THEN [pub[r] EXCEPT !.pc = "refreshed"] ELSE pub[r]]
    /\ UNCHANGED <<commands, key, stack, dup, vault, up>> /\ UNCHANGED Config

(* Everything is checked again after the publication.                      *)
Confirm(r) ==
    /\ pub[r].pc = "refreshed"
    /\ commands' = IF Authorised(r) /\ r \in serving[pub[r].at]
                  THEN [commands EXCEPT ![r].runtime = "confirmed"] ELSE commands
    /\ pub' = [pub EXCEPT ![r] = NoStack]
    /\ UNCHANGED <<key, stack, dup, vault, serving, up>> /\ UNCHANGED Config

-----------------------------------------------------------------------------
(* RevokePersonalKey, RevokeProjectKey with apiKeyDeliveryRevokeCommands:  *)
(* the Key and its command in one transaction, history kept.               *)
(* Mutant: a claim is not looked at.                                       *)
apiKeyDeliveryRevokeCommands_Pending(rs) ==
    [r \in Requests |->
       IF r \notin rs \/ commands[r].delivery = None \/ commands[r].revoked THEN commands[r]
       ELSE [commands[r] EXCEPT !.delivery = IF @ = "acknowledged" THEN @ ELSE "not_attempted",
                               !.runtime = "unknown", !.revoked = TRUE]]

apiKeyDeliveryRevokeCommands(rs) ==
    [r \in Requests |->
       IF r \notin rs \/ commands[r].delivery = None \/ commands[r].revoked THEN commands[r]
       ELSE [commands[r] EXCEPT
               !.delivery = IF @ = "acknowledged" THEN @
                            ELSE IF commands[r].claim # None THEN "unknown" ELSE "not_attempted",
               !.runtime = "unknown", !.revoked = TRUE]]

RevokeKey(r, p) ==
    /\ p \in up /\ key[r] \in {"pending", "active"}
    /\ key' = [key EXCEPT ![r] = "revoked"]
    /\ commands' = apiKeyDeliveryRevokeCommands({r})
    /\ serving' = [serving EXCEPT ![p] = @ \ {r}]
    /\ UNCHANGED <<stack, dup, pub, vault, up>> /\ UNCHANGED Config

(* Offboarding takes the owner's sessions, Keys, profile and commands.     *)
apiKeyDeliveryOffboarding(p) ==
    /\ p \in up /\ owner
    /\ owner' = FALSE
    /\ target' = [target EXCEPT !.enabled = FALSE, !.ready = FALSE]
    /\ key' = [r \in Requests |-> IF key[r] = None THEN None ELSE "revoked"]
    /\ commands' = apiKeyDeliveryRevokeCommands(Requests)
    /\ serving' = [serving EXCEPT ![p] = {}]
    /\ UNCHANGED <<policy, stack, dup, pub, vault, up, reconcile>>

(* The refresh failed, or it did not publish the Key: the row keeps        *)
(* "unknown" and ReconcileAPIKeyDeliveryPublication may try again.         *)
PublicationUnconfirmed(r) ==
    /\ pub[r].pc = "activated"
    /\ pub' = [pub EXCEPT ![r] = NoStack]
    /\ UNCHANGED <<commands, key, stack, dup, vault, serving, up>> /\ UNCHANGED Config

(* The process stops: its handlers end where they are.                     *)
Crash(p) ==
    /\ p \in up
    /\ up' = up \ {p}
    /\ serving' = [serving EXCEPT ![p] = {}]
    /\ stack' = [r \in Requests |-> IF stack[r].pc # "idle" /\ stack[r].at = p THEN NoStack ELSE stack[r]]
    /\ dup' = [r \in Requests |-> IF dup[r].pc # "idle" /\ dup[r].at = p THEN NoStack ELSE dup[r]]
    /\ pub' = [r \in Requests |-> IF pub[r].pc # "idle" /\ pub[r].at = p THEN NoStack ELSE pub[r]]
    /\ reconcile' = IF reconcile.pc # "idle" /\ reconcile.at = p THEN NoStack ELSE reconcile
    /\ UNCHANGED <<policy, target, owner, commands, key, vault>>

IssueNext ==
    \/ \E changed, managed \in BOOLEAN : SaveAPIKeyDeliveryPolicy(changed, managed)
    \/ SaveAPIKeyDeliveryIdentity
    \/ \E current \in BOOLEAN : SaveAPIKeyCallerTemplate(current)
    \/ VerifyAPIKeyDeliveryDependencies \/ ResolveAPIKeyDeliveryTarget
    \/ \E yes \in BOOLEAN : ApproveAPIKeyDeliveryPrincipal(yes) \/ AttestAPIKeyDeliveryIsolation(yes)
    \/ \E reconciled \in BOOLEAN : ReconcileEnd(reconciled)
    \/ \E p \in Processes :
         ReconcileBegin(p) \/ Refresh(p) \/ apiKeyDeliveryOffboarding(p) \/ Crash(p)
    \/ \E r \in Requests :
         \/ NotAdmitted(r) \/ Record(r) \/ RecordFails(r)
         \/ \E yes \in BOOLEAN : Claim(r, yes)
         \/ \E stored, answered \in BOOLEAN : Write(r, stored, answered)
         \/ FinalizeAbandoned(r) \/ Abandon(r)
         \/ PublishIssued(r) \/ PublishRefused(r) \/ Confirm(r) \/ PublicationUnconfirmed(r)
         \/ \E p \in Processes :
              \/ Prepare(r, p) \/ Duplicate(r, p) \/ RevokeKey(r, p)
              \/ ReconcileAPIKeyDeliveryPublication(r, p)

IssueSpec == IssueInit /\ [][IssueNext]_issueVars

-----------------------------------------------------------------------------
(* No gateway serves a Key before its secret is known to be in the Vault,  *)
(* whatever was lost, repeated or interrupted on the way; and a Key whose  *)
(* command was given up is not active, so that no refresh can serve it.    *)
ServedWasDelivered ==
    /\ \A p \in Processes : \A r \in serving[p] : vault[r] = 1
    /\ \A r \in Requests : commands[r].revoked => key[r] = "revoked"
    /\ \A r \in Requests : key[r] = "active" => commands[r].delivery = "acknowledged"

(* What the row tells the owner of the secret is true: one that was        *)
(* "not_attempted" is not in the Vault, an "acknowledged" one is, and no   *)
(* duplicate, restart or lost answer ever writes a second version.         *)
OutcomeTrue ==
    \A r \in Requests :
      /\ vault[r] <= 1
      /\ commands[r].delivery = "not_attempted" => vault[r] = 0
      /\ commands[r].delivery = "acknowledged" => vault[r] = 1

(* What was revoked stays revoked, and what the row says of the delivery   *)
(* is final: a late answer of the Vault, a late duplicate or a late        *)
(* publication neither revives the Key nor rewrites the outcome.           *)
OutcomeIsFinal ==
    [][\A r \in Requests :
         /\ key[r] = "revoked" => key'[r] = "revoked"
         /\ commands[r].revoked => commands'[r].revoked /\ commands'[r].delivery = commands[r].delivery
                                  /\ commands'[r].runtime = commands[r].runtime]_issueVars

(* apiKeyDeliveryFinalizeAbandoned says that duplicates in the same        *)
(* process "cannot stop an active original stack".                         *)
DuplicateCannotStop ==
    [][\A r \in Requests :
         (dup[r].pc = "abandon" /\ dup'[r].pc = "idle" /\ dup[r].at \in up')
           => ~(stack[r].pc = "claimed" /\ stack[r].at = dup[r].at
                /\ ~commands[r].revoked /\ commands'[r].revoked)]_issueVars
=============================================================================
