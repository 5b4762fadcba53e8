------------------------------- MODULE Notices -------------------------------
(***************************************************************************)
(* Notices of every kind and the people who get them: the operators' alert *)
(* board and inbox, the quota warnings of the holders of an account, and   *)
(* the mail that follows an alert.                                         *)
(*                                                                         *)
(* A behaviour follows one source: a group of the board, one quota account *)
(* ("quota"), whose warnings are never mailed, or a test mail ("test").    *)
(***************************************************************************)
EXTENDS AlertBoard, QuotaWarnings

CONSTANT MaxChanges   \* bound, per kind: changes of people

ASSUME NoticesAssumption == MaxChanges \in [Sources -> Nat]

vars == <<mailVars, boardVars, warningVars>>

OfQuota == source = "quota"

(* The other groups are followed with SMTP switched off: what becomes of a *)
(* mail does not depend on the fact it tells of.                           *)
Mailed == {"fact", "offboarding", "test"}

Init ==
    /\ BoardInit
    /\ MailInit(source \in Mailed, MaxChanges[source])
    /\ WarningInit
    /\ OfQuota \/ <<account, limit.cap>> = <<<<"user", "monthly">>, 0>>

(***************************************************************************)
(* The inbox, under the governance lock: one notice, or all of them.  That *)
(* a quota notice has been read changes nothing else and is left out.      *)
(***************************************************************************)
MarkNotificationRead(r) ==
    /\ Readable(r)
    /\ MarkBoardRead(r)
    /\ UNCHANGED <<mailVars, source, isolation, open, sourceVars, view, warningVars>>

MarkAllNotificationsRead(r) ==
    /\ Admitted(r)
    /\ MarkBoardRead(r)
    /\ UNCHANGED <<mailVars, source, isolation, open, sourceVars, view, warningVars>>

(***************************************************************************)
(* All steps.                                                              *)
(***************************************************************************)
People ==
    /\ \E r \in Recipients :
         \/ tx = NoTx /\ \E to \in {"operator", "member", "gone"} : ChangeRole(r, to)
         \/ WriteNotificationSettings(r)
    /\ UNCHANGED <<boardVars, warningVars>>

Worker(w) ==
    /\ \/ executeNotificationDelivery(w, source = "offboarding")
       \/ NotSent(w) \/ Data(w) \/ Answered(w) \/ Unanswered(w)
       \/ finishNotificationDelivery(w)
    /\ UNCHANGED <<boardVars, warningVars>>

Claim(w) ==
    /\ \E i \in DOMAIN intent : claimNotificationDelivery(w, i)
    /\ UNCHANGED <<boardVars, warningVars>>

Expire ==
    /\ \E i \in DOMAIN intent : ExpireLease(i)
    /\ UNCHANGED <<boardVars, warningVars>>

TestMail ==
    /\ source = "test"
    /\ \/ TestSMTP \/ TestDone
       \/ NotSent(Handler) \/ Data(Handler) \/ Answered(Handler) \/ Unanswered(Handler)
    /\ UNCHANGED <<boardVars, warningVars>>

Surroundings ==
    /\ \/ \E m \in wire : RelayAccepts(m) \/ RelayDrops(m)
       \/ \E s \in Senders : Stop(s)
       \/ \E enabled \in BOOLEAN : WriteSMTPSettings(enabled)
       \/ WriteSMTPSender
    /\ UNCHANGED <<boardVars, warningVars>>

Reconcile(t) ==
    \/ reconcileFacts(t) \/ reconcileProviderQualityNotifications(t)
    \/ reconcileCredentialInferenceFailures(t)
    \/ \E state \in {Enabled, Off} : WriteProviderQualityPolicy(t, state)

Board ==
    /\ \/ \E t \in Places : BecomesDurable(t)
       \/ readFacts \/ readProviderQuality \/ readEpisodes \/ readPolicy
       \/ \E t \in open : Ends(t) \/ Reconcile(t)
       \/ \E w \in Places, state \in AllStates : evaluateProviderQualityPolicy(w, state)
       \/ \E result \in {"unknown", "success", "error"} : observeCredentialInferenceFailures(result)
       \/ \E to \in SUBSET Recipients : publishOffboardingCompletion(to)
       \/ ListOperationalAlerts
       \/ \E state \in States : UpdateOperationalAlertState(state)
    /\ UNCHANGED warningVars

Resource ==
    /\ OfQuota
    /\ Changes
    /\ \E on \in BOOLEAN, hs \in SUBSET Recipients : ChangeResource(on, hs)
    /\ UNCHANGED <<role, wants, smtp, intent, test, sender, wire, mailed, crashes, boardVars>>

Quota ==
    /\ OfQuota
    /\ \/ ReconcileMonthlyQuotaNotifications
       \/ RollBack
       \/ \E cap \in Caps, reviewed \in BOOLEAN : SaveLimit(cap, reviewed)
       \/ \E r \in Recipients : Deny(r)
       \/ Lapse
       \/ Refresh
    /\ UNCHANGED <<mailVars, boardVars>>

Inbox == \E r \in Recipients : MarkNotificationRead(r) \/ MarkAllNotificationsRead(r)

Next ==
    \/ People \/ TestMail \/ Surroundings \/ Board \/ Resource \/ Quota \/ Inbox \/ Expire
    \/ \E w \in Workers : Worker(w) \/ Claim(w)

(* The workers of a running server go on, and look again every interval    *)
(* for due intents and for leases that have run out.                       *)
Fairness ==
    /\ WF_vars(Expire)
    /\ \A w \in Workers : WF_vars(Worker(w)) /\ WF_vars(Claim(w))

Spec == Init /\ [][Next]_vars /\ Fairness

(***************************************************************************)
(* Properties.                                                             *)
(***************************************************************************)
(* Every mail is settled: whatever is refused, retried, changed meanwhile  *)
(* or interrupted, an intent comes to a final status.                      *)
DeliverySettles ==
    \A o \in Places, r \in Recipients :
      <<o, r>> \in DOMAIN intent
        ~> <<o, r>> \in DOMAIN intent /\ intent[<<o, r>>].status \in Terminal
=============================================================================
