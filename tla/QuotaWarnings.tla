---------------------------- MODULE QuotaWarnings ----------------------------
(***************************************************************************)
(* Warnings that a quota account comes near its limit, and notices that it *)
(* is used up (service/*quota_warnings*.go, *quota_notifications*.go).     *)
(*                                                                         *)
(* A server's worker observes one account after the other: in a            *)
(* transaction under the governance lock it checks that the saved limit is *)
(* the one its runtime has published, samples the settled use from the     *)
(* journal, writes what is new, checks the publication again and rolls     *)
(* back when it has changed.  Clocks of servers differ, samples of an      *)
(* account come in any order of their times.                               *)
(*                                                                         *)
(* One account of a scope and one family of notices are followed: near and *)
(* critical warnings of a month or of a rolling window, and exhaustion of  *)
(* a month.  What an account has used is decided elsewhere: a sample is    *)
(* any amount.  The two dimensions and the two rolling windows of a policy *)
(* are accounts of their own.                                              *)
(***************************************************************************)
EXTENDS MailDelivery, Sequences

CONSTANTS Accounts,      \* scope and family of the accounts followed
          Times,         \* sample times
          Months,        \* months a sample may fall into
          Caps,          \* limits that may be saved
          Amounts,       \* settled use
          MaxRevisions   \* bound: saves of the limit

ASSUME WarningAssumption ==
    /\ Times \subseteq Nat \ {0} /\ Caps \subseteq Nat /\ Amounts \subseteq Nat
    /\ MaxRevisions \in Nat /\ Recipients # {}

VARIABLES account,     \* <<scope, family>>
          active,      \* the resource is active
          holders,     \* members of the team or managers of the project
          denied,      \* users tombstoned in the server's runtime
          limit,       \* the saved policy: cap, revision, default-reset review
          published,   \* what the runtime has of it, and of the holders
          tx,          \* the observation under way
          warned,      \* notices written
          rolling,     \* the state row of the rolling window
          trail        \* samples that reached the state row (history)

warningVars == <<account, active, holders, denied, limit, published, tx, warned, rolling, trail>>
resourceVars == <<account, active, holders, limit>>
noticeVars == <<warned, rolling, trail>>

NoTx == [open |-> FALSE, to |-> {}, same |-> TRUE]
NoState == [known |-> FALSE, cap |-> 0, reset |-> 0, at |-> 0, near |-> FALSE, critical |-> FALSE]
Owner == CHOOSE r \in Recipients : TRUE

WarningInit ==
    /\ account \in Accounts
    /\ active = TRUE
    /\ holders = Recipients
    /\ denied = {}
    /\ limit \in {[cap |-> c, revision |-> 1, reset |-> 0] : c \in Caps}
    /\ published = [revision |-> 1, valid |-> TRUE, holders |-> Recipients]
    /\ tx = NoTx
    /\ warned = {}
    /\ rolling = NoState
    /\ trail = <<>>

(***************************************************************************)
(* What is observed.                                                       *)
(***************************************************************************)
quotaWarningLevel(used, cap) ==
    IF cap = 0 \/ used >= cap THEN ""
    ELSE IF used * 100 >= cap * 90 THEN "critical"
    ELSE IF used * 100 >= cap * 80 THEN "near"
    ELSE ""

personalRollingWarningLevel(used, cap) ==
    IF cap > 0 /\ used >= cap THEN "critical" ELSE quotaWarningLevel(used, cap)

(* Of a month, the time of a sample tells only the month.                  *)
Sample ==
    [at : IF account[2] = "rolling" THEN Times ELSE {0},
     month : IF account[2] = "rolling" THEN {0} ELSE Months,
     used : Amounts, known : BOOLEAN]

(* The notices of a sample: none of use that is unknown or not covered.    *)
Levels(s, level) ==
    {[level |-> l, month |-> s.month, revision |-> limit.revision] :
       l \in {l \in {level} : s.known /\ l # ""}}
monthlyQuotaWarnings(s) == Levels(s, quotaWarningLevel(s.used, limit.cap))
monthlyTeamQuotaWarnings(s) == monthlyQuotaWarnings(s)
monthlyProjectQuotaWarnings(s) == monthlyQuotaWarnings(s)
monthlyTeamMemberQuotaWarnings(s) == monthlyQuotaWarnings(s)
personalKeyMonthlyWarnings(s) == monthlyQuotaWarnings(s)
projectKeyMonthlyWarnings(s) == monthlyQuotaWarnings(s)
monthlyQuotaSettledObservations(s) ==
    Levels(s, IF s.used >= limit.cap THEN "exhausted" ELSE "")
teamMemberMonthlyQuotaObservations(s) == monthlyQuotaSettledObservations(s)

(***************************************************************************)
(* Publication: the observer trusts only a limit its own runtime applies.  *)
(***************************************************************************)
Unmoved == tx.same
Admitted(r) == role[r] # "gone"
quotaNotificationApplied == published.valid /\ published.revision = limit.revision
quotaWarningApplied == quotaNotificationApplied /\ Admitted(Owner) /\ Owner \notin denied
teamQuotaWarningApplied == quotaNotificationApplied /\ active
projectQuotaWarningApplied == quotaNotificationApplied /\ active
teamRollingWarningApplied == teamQuotaWarningApplied /\ Unmoved
projectRollingWarningApplied == projectQuotaWarningApplied /\ Unmoved
teamMemberQuotaNotificationApplied ==
    /\ quotaNotificationApplied /\ active /\ Admitted(Owner)
    /\ Owner \in (holders \intersect published.holders) \ denied
teamMemberQuotaWarningApplied == teamMemberQuotaNotificationApplied /\ Unmoved
personalKeyWarningApplied == quotaWarningApplied /\ active /\ Unmoved
projectKeyWarningApplied == quotaNotificationApplied /\ active /\ Unmoved

(***************************************************************************)
(* Recipients.                                                             *)
(***************************************************************************)
teamQuotaWarningRecipients ==
    {r \in (holders \intersect published.holders) \ denied : Admitted(r)}
projectQuotaWarningRecipients == teamQuotaWarningRecipients
quotaTeamRecipients == {r \in holders : Admitted(r)}
quotaNotificationRecipients ==
    IF account[1] = "user" THEN {r \in {Owner} : Admitted(r)} ELSE quotaTeamRecipients

(***************************************************************************)
(* What is written: a month's notice once per level and revision, to the   *)
(* recipients of the first time; a shared one only if there are any.       *)
(***************************************************************************)
Same(a, b) == a.level = b.level /\ a.month = b.month /\ a.revision = b.revision

persistQuotaNotification(os, to) ==
    /\ warned' = warned \union
         {[level |-> o.level, month |-> o.month, revision |-> o.revision, to |-> to] :
            o \in {o \in os : to # {} /\ ~ \E w \in warned : Same(w, o)}}
    /\ UNCHANGED <<rolling, trail>>

persistQuotaWarning(os, to) == persistQuotaNotification(os, to)
persistTeamQuotaWarning(os, to) == persistQuotaNotification(os, to)
persistProjectQuotaWarning(os, to) == persistQuotaNotification(os, to)
persistTeamMemberQuotaWarning(os, to) == persistQuotaNotification(os, to)
persistPersonalKeyQuotaWarning(os, to) == persistQuotaNotification(os, to)
persistProjectKeyQuotaWarning(os, to) == persistQuotaNotification(os, to)

NewReview_Always(st, s) == s.reset # 0
NewReview(st, s) == s.reset # 0 /\ s.reset # st.reset

(* The episode after a sample, and the warning that it sends.  A new limit *)
(* or a new default-reset review begins an episode, a sample below the     *)
(* lower threshold ends it, and each level is sent once.                   *)
advancePersonalRollingWarning(st, s) ==
    LET changed == ~ st.known \/ st.cap # s.cap \/ NewReview(st, s)
        level == personalRollingWarningLevel(s.used, s.cap)
        over == changed \/ (s.cap > 0 /\ level = "")
        near == st.near /\ ~ over
        critical == st.critical /\ ~ over
        sent == IF (level = "near" /\ near) \/ (level = "critical" /\ critical) THEN "" ELSE level
    IN [sent |-> sent,
        state |-> [known |-> TRUE, cap |-> s.cap, at |-> s.at,
                   reset |-> IF s.reset # 0 THEN s.reset ELSE st.reset,
                   near |-> near \/ sent # "", critical |-> critical \/ sent = "critical"]]

personalRollingWarningSamples(s) ==
    {[at |-> s.at, used |-> s.used, cap |-> limit.cap, reset |-> limit.reset] :
       x \in {x \in {s} : x.known}}

(* A sample that is not newer than the last one changes nothing.           *)
Newer(s) == s.at > rolling.at

persistPersonalRollingWarning(ss, to) ==
    \/ /\ \E s \in ss : Newer(s) /\ to # {}
       /\ LET s == CHOOSE s \in ss : TRUE
              next == advancePersonalRollingWarning(rolling, s)
          IN /\ rolling' = next.state
             /\ trail' = Append(trail, [at |-> s.at, cap |-> s.cap, reset |-> s.reset, sent |-> next.sent,
                                        level |-> personalRollingWarningLevel(s.used, s.cap)])
             /\ warned' = IF next.sent = "" THEN warned
                          ELSE warned \union {[level |-> next.sent, month |-> 0,
                                               revision |-> limit.revision, to |-> to]}
    \/ /\ ~ \E s \in ss : Newer(s) /\ to # {}
       /\ UNCHANGED noticeVars

persistPersonalKeyRollingWarning(ss, to) == persistPersonalRollingWarning(ss, to)
persistTeamRollingWarning(ss, to) == persistPersonalRollingWarning(ss, to)
persistProjectRollingWarning(ss, to) == persistPersonalRollingWarning(ss, to)
persistProjectKeyRollingWarning(ss, to) == persistPersonalRollingWarning(ss, to)

(* A limit of a project is never one that a default was reset to.          *)
teamRollingWarningSamples(s) == personalRollingWarningSamples(s)
personalKeyRollingWarningSamples(s) == personalRollingWarningSamples(s)
projectRollingWarningSamples(s) == {x \in personalRollingWarningSamples(s) : x.reset = 0}
projectKeyRollingWarningSamples(s) == projectRollingWarningSamples(s)

(***************************************************************************)
(* An observation: begun, then committed, or rolled back by the second     *)
(* look at the publication, an error or the end of the server.             *)
(***************************************************************************)
Begin(applied, to) ==
    /\ tx = NoTx
    /\ account[1] = "user" => Admitted(Owner)
    /\ account[1] # "user" => active
    /\ applied
    /\ tx' = [open |-> TRUE, to |-> to, same |-> TRUE]
    /\ UNCHANGED <<resourceVars, denied, published, noticeVars>>

Commit(applied, shared, persisted) ==
    /\ tx # NoTx
    /\ applied
    /\ shared => tx.same /\ tx.to \intersect denied = {}
    /\ persisted
    /\ tx' = NoTx
    /\ UNCHANGED <<resourceVars, denied, published>>

RollBack ==
    /\ tx # NoTx
    /\ tx' = NoTx
    /\ UNCHANGED <<resourceVars, denied, published, noticeVars>>

Observe(scope, family, applied, to, shared, persisted) ==
    /\ account = <<scope, family>>
    /\ Begin(applied, to) \/ Commit(applied, shared, persisted)

observeMonthlyQuotaNotification ==
    \E scope \in {"user", "team", "project"} :
      Observe(scope, "exhausted", quotaNotificationApplied, quotaNotificationRecipients, FALSE,
              \E s \in Sample : persistQuotaNotification(monthlyQuotaSettledObservations(s), tx.to))
observeTeamMemberMonthlyQuotaNotification ==
    Observe("member", "exhausted", teamMemberQuotaNotificationApplied, {Owner}, FALSE,
            \E s \in Sample : persistQuotaNotification(teamMemberMonthlyQuotaObservations(s), tx.to))
observeMonthlyQuotaWarning ==
    Observe("user", "monthly", quotaWarningApplied, {Owner}, FALSE,
            \E s \in Sample : persistQuotaWarning(monthlyQuotaWarnings(s), tx.to))
observeMonthlyTeamQuotaWarning ==
    Observe("team", "monthly", teamQuotaWarningApplied, teamQuotaWarningRecipients, TRUE,
            \E s \in Sample : persistTeamQuotaWarning(monthlyTeamQuotaWarnings(s), tx.to))
observeMonthlyProjectQuotaWarning ==
    Observe("project", "monthly", projectQuotaWarningApplied, projectQuotaWarningRecipients, TRUE,
            \E s \in Sample : persistProjectQuotaWarning(monthlyProjectQuotaWarnings(s), tx.to))
observeMonthlyTeamMemberQuotaWarning ==
    Observe("member", "monthly", teamMemberQuotaWarningApplied, {Owner}, FALSE,
            \E s \in Sample : persistTeamMemberQuotaWarning(monthlyTeamMemberQuotaWarnings(s), tx.to))
observeMonthlyPersonalKeyQuotaWarning ==
    Observe("key", "monthly", personalKeyWarningApplied, {Owner}, FALSE,
            \E s \in Sample : persistPersonalKeyQuotaWarning(personalKeyMonthlyWarnings(s), tx.to))
observeMonthlyProjectKeyQuotaWarning ==
    Observe("project_key", "monthly", projectKeyWarningApplied, projectQuotaWarningRecipients, TRUE,
            \E s \in Sample : persistProjectKeyQuotaWarning(projectKeyMonthlyWarnings(s), tx.to))
observePersonalRollingQuotaWarnings ==
    Observe("user", "rolling", quotaWarningApplied, {Owner}, FALSE,
            \E s \in Sample : persistPersonalRollingWarning(personalRollingWarningSamples(s), tx.to))
observePersonalKeyRollingQuotaWarnings ==
    Observe("key", "rolling", personalKeyWarningApplied, {Owner}, FALSE,
            \E s \in Sample : persistPersonalKeyRollingWarning(personalKeyRollingWarningSamples(s), tx.to))
observeTeamRollingQuotaWarnings ==
    Observe("team", "rolling", teamRollingWarningApplied, teamQuotaWarningRecipients, TRUE,
            \E s \in Sample : persistTeamRollingWarning(teamRollingWarningSamples(s), tx.to))
observeProjectRollingQuotaWarnings ==
    Observe("project", "rolling", projectRollingWarningApplied, projectQuotaWarningRecipients, TRUE,
            \E s \in Sample : persistProjectRollingWarning(projectRollingWarningSamples(s), tx.to))
observeProjectKeyRollingQuotaWarnings ==
    Observe("project_key", "rolling", projectKeyWarningApplied, projectQuotaWarningRecipients, TRUE,
            \E s \in Sample : persistProjectKeyRollingWarning(projectKeyRollingWarningSamples(s), tx.to))

(* One cycle of StartQuotaNotifications, in any order of the accounts.     *)
ReconcileMonthlyQuotaNotifications ==
    \/ observeMonthlyQuotaNotification
    \/ observeTeamMemberMonthlyQuotaNotification
    \/ observeMonthlyQuotaWarning
    \/ observePersonalRollingQuotaWarnings
    \/ observeMonthlyTeamQuotaWarning
    \/ observeMonthlyProjectQuotaWarning
    \/ observeMonthlyTeamMemberQuotaWarning
    \/ observeMonthlyPersonalKeyQuotaWarning
    \/ observePersonalKeyRollingQuotaWarnings
    \/ observeProjectRollingQuotaWarnings
    \/ observeTeamRollingQuotaWarnings
    \/ observeMonthlyProjectKeyQuotaWarning
    \/ observeProjectKeyRollingQuotaWarnings

(***************************************************************************)
(* Around it.  Writers of the limit, the resource and its holders wait for *)
(* the governance lock; publication does not.                              *)
(***************************************************************************)
SaveLimit(cap, reviewed) ==
    /\ tx = NoTx
    /\ limit.revision <= MaxRevisions
    /\ reviewed => account[1] \in {"user", "team"}
    /\ limit' = [cap |-> cap, revision |-> limit.revision + 1,
                 reset |-> IF reviewed THEN limit.revision + 1 ELSE 0]
    /\ UNCHANGED <<account, active, holders, denied, published, tx, noticeVars>>

ChangeResource(on, hs) ==
    /\ tx = NoTx
    /\ active' = on
    /\ holders' = hs
    /\ UNCHANGED <<account, denied, limit, published, tx, noticeVars>>

Deny(r) ==
    /\ denied' = denied \union {r}
    /\ UNCHANGED <<resourceVars, published, tx, noticeVars>>

Lapse ==
    /\ published.valid
    /\ published' = [published EXCEPT !.valid = FALSE]
    /\ UNCHANGED <<resourceVars, denied, tx, noticeVars>>

Refresh ==
    /\ published' = [revision |-> limit.revision, valid |-> TRUE, holders |-> holders]
    /\ denied' = {}
    /\ tx' = IF tx = NoTx THEN tx ELSE [tx EXCEPT !.same = FALSE]
    /\ UNCHANGED <<resourceVars, noticeVars>>

(***************************************************************************)
(* Properties.                                                             *)
(***************************************************************************)
(* The sample at k begins a new episode: the first one, one below the      *)
(* lower threshold, a changed limit or a review not seen before.           *)
Rearmed(k) ==
    \/ k = 1
    \/ trail[k].level = ""
    \/ trail[k].cap # trail[k - 1].cap
    \/ trail[k].reset # 0 /\ \A j \in 1 .. k - 1 : trail[j].reset # trail[k].reset
OneEpisode(i, j) == \A k \in i + 1 .. j : ~ Rearmed(k)

(* Every level is announced once per episode, however the samples of the   *)
(* servers are delayed and whatever is saved and rolled back meanwhile: no *)
(* older sample reaches the state row, a sample at a level has been        *)
(* announced in its episode, at that level or above it, and no level, nor  *)
(* a lower one after a higher one, twice.  A month has one notice per      *)
(* level and revision of the limit.                                        *)
WarnedOnce ==
    /\ \A i, j \in DOMAIN trail : i < j =>
         /\ trail[i].at < trail[j].at
         /\ OneEpisode(i, j) => trail[j].sent \notin {trail[i].sent} \ {""}
         /\ OneEpisode(i, j) /\ trail[i].sent = "critical" => trail[j].sent # "near"
    /\ \A j \in DOMAIN trail : trail[j].level # "" =>
         \E i \in 1 .. j : trail[i].sent \in {trail[j].level, "critical"} /\ OneEpisode(i, j)
    /\ account[2] # "rolling" => \A v, w \in warned : Same(v, w) => v = w
=============================================================================
