----------------------------- MODULE AlertBoard -----------------------------
(***************************************************************************)
(* Operational alerts and the notices they leave in the operators' inboxes *)
(* (service/notification_events.go, notification.go,                       *)
(* credential_inference_failures.go, provider_quality_evaluation.go,       *)
(* model_discovery_notices.go, offboarding_notifications.go).              *)
(*                                                                         *)
(* A durable fact (a failed job, a failed verification, a degraded window  *)
(* of a provider, a run of failed calls of a credential, models recorded   *)
(* for the first time, a completed offboarding) becomes one occurrence of  *)
(* the alert of its group, by a reconciliation that any server runs at any *)
(* time and that takes the facts in batches.  Facts become durable late    *)
(* and out of order, an operator edits the alert and reads the notice at   *)
(* the same time, and a provider or credential recovers.                   *)
(*                                                                         *)
(* One group is followed, of the kind "source".  An occurrence is named by *)
(* its place: the time of the fact, the end of the window or the           *)
(* acceptance sequence of the failure that completed the run.              *)
(*                                                                         *)
(* A reconciliation is a transaction of two steps: it reads what there is  *)
(* to do without a lock, and later, having waited for the locks it takes,  *)
(* writes and commits.  In between others commit.  What it reads after the *)
(* wait is what is committed by then ("committed", the default of          *)
(* PostgreSQL) or still what was there at its first read ("snapshot", the  *)
(* default of MySQL), but for rows it reads by locking them.  Whom a       *)
(* notice goes to is read at the write.                                    *)
(***************************************************************************)
EXTENDS MailDelivery, SequencesExt

CONSTANTS Sources,      \* kinds of groups followed
          Isolations,   \* per kind, the isolation levels of the database
          Places,       \* times and window ends
          Batch,        \* facts of one reconciliation (100)
          Threshold,    \* credentialInferenceFailureThreshold (5)
          FactPlaces,   \* bound, per plain kind: the places of its facts
          MaxOpen,      \* bound: readings that open transactions rest on
          MaxCalls,     \* bound: calls of the credential
          MaxPolicies   \* bound: revisions of the quality policy

ASSUME BoardAssumption ==
    /\ Places \subseteq Nat \ {0} /\ IsFiniteSet(Places)
    /\ Batch \in Nat \ {0} /\ Threshold \in Nat \ {0} /\ MaxPolicies \in Nat
    /\ MaxOpen \in Nat /\ MaxCalls \in Nat
    /\ FactPlaces \in [{"fact", "discovery"} -> SUBSET Places]
    /\ Isolations \in [Sources -> SUBSET {"committed", "snapshot"}]

VARIABLES source,     \* the kind of the group
          isolation,  \* that of the database
          open,       \* what the open transactions have read
          facts,      \* places of plain facts that are durable
          quality,    \* the policy, its windows and the state row
          infer,      \* the failure state of the credential
          episodes,   \* the episodes: acceptance sequence and last success
          board,      \* the alert, its occurrences and its notices
          view        \* how many occurrences the operator has seen

boardVars == <<source, isolation, open, facts, quality, infer, episodes, board, view>>
sourceVars == <<facts, quality, infer, episodes>>

None == "none"
Plain == {"fact", "discovery"}
Enabled == "enabled"
Off == "disabled"

BoardInit ==
    /\ source \in Sources
    /\ isolation \in Isolations[source]
    /\ open = {}
    /\ facts = {}
    /\ quality = [policy |-> Enabled, etag |-> 1, windows |-> <<>>, last |-> 0, state |-> None]
    /\ infer = [seq |-> 0, fails |-> 0, latched |-> FALSE, success |-> 0, trigger |-> 0]
    /\ episodes = {}
    /\ board = [alert |-> None, shown |-> FALSE, count |-> 0, latest |-> 0, occ |-> {},
                notice |-> <<>>]   \* shown: the row's ETag is the one the operator holds
    /\ view = 0

(***************************************************************************)
(* Transactions.                                                           *)
(***************************************************************************)
Greatest(S) == CHOOSE x \in S : \A y \in S : y <= x
Least(S) == CHOOSE x \in S : \A y \in S : x <= y

(* What a snapshot keeps of the first read, nobody reads again otherwise.  *)
Kept(read, otherwise) == IF isolation = "snapshot" THEN read ELSE otherwise

LatestRead == Kept(Greatest(board.occ \union {0}), 0)

Reads(t) ==
    /\ Cardinality(open) < MaxOpen
    /\ open' = open \union {t}
    /\ UNCHANGED <<source, isolation, facts, quality, infer, episodes, board, view>>
    /\ UNCHANGED mailVars

(* It fails, the server stops, or by now there is nothing left to write.   *)
Ends(t) ==
    /\ open' = open \ {t}
    /\ UNCHANGED <<source, isolation, facts, quality, infer, episodes, board, view>>
    /\ UNCHANGED mailVars

(***************************************************************************)
(* The projection of one occurrence.                                       *)
(***************************************************************************)
(* The failure that an occurrence tells of is still going on.              *)
credentialInferenceEpisodeActive(s, e) ==
    s.latched /\ s.trigger = e.seq /\ s.success = e.success
Episode(o) == CHOOSE e \in episodes : e.seq = o
Projected(newest) ==
    IF source = "inference" /\ ~ credentialInferenceEpisodeActive(infer, Episode(newest))
      THEN "resolved"
      ELSE "open"

Operators == {r \in Recipients : role[r] = "operator"}

(* The inbox row of r after occurrence o, when the newest one read is      *)
(* newest: inserted, or updated in place.                                  *)
NoticeOf(b, r, o, newest, reset) ==
    IF r \notin DOMAIN b.notice THEN [count |-> b.count, latest |-> newest, read |-> FALSE]
    ELSE [count |-> b.count,
          latest |-> IF newest = o THEN o ELSE b.notice[r].latest,
          read |-> b.notice[r].read /\ ~ reset]

publishOperationalAlert(b, o, newest, reset) ==
    [b EXCEPT !.notice = [r \in Operators \union DOMAIN b.notice |->
                            IF r \in Operators THEN NoticeOf(b, r, o, newest, reset) ELSE b.notice[r]]]

(* One intent per occurrence and recipient; a low severity is never mailed. *)
Intents(os, rs) ==
    {<<o, r>> : o \in os, r \in {r \in rs : Addressed(r) /\ source # "discovery"}}
WithIntents(ids) ==
    [i \in DOMAIN intent \union ids |-> IF i \in DOMAIN intent THEN intent[i] ELSE NewIntent]

(* A transaction finds every occurrence recorded before its own: of a      *)
(* credential always, since it locks what it reads.                        *)
FindsAll == ~ (isolation = "snapshot" /\ source # "inference")

(* What t compares its occurrence with to see whether it is the newest; of *)
(* its own it has recorded only older ones.                                *)
Found(b, t) == IF FindsAll THEN b.occ ELSE {t.latest}

(* The alert is created, or only counts an occurrence that is not its      *)
(* newest, or takes the newest one over, opens again and unreads.  The row *)
(* is locked and gets a fresh ETag.                                        *)
recordOperationalAlertOccurrenceProjection(b, o, t) ==
    LET newest == Greatest(Found(b, t) \union {o})
        isLatest == newest = o
        next == [b EXCEPT !.alert = IF isLatest THEN Projected(newest) ELSE @,
                          !.shown = FALSE, !.count = @ + 1,
                          !.latest = IF isLatest THEN o ELSE @,
                          !.occ = @ \union {o}]
    IN IF o \in b.occ THEN b
       ELSE publishOperationalAlert(next, o, newest, isLatest /\ Projected(newest) = "open")

Recorded(t) ==
    FoldLeft(LAMBDA b, o : recordOperationalAlertOccurrenceProjection(b, o, t), board, t.todo)

Project(b) ==
    /\ board' = b
    /\ intent' = WithIntents(Intents(b.occ \ board.occ, Operators))
    /\ UNCHANGED <<role, wants, smtp, test, sender, wire, mailed, crashes, changes>>

(* Transaction t writes the board and commits; another one may have read   *)
(* the same and still be open.                                             *)
Writes(t, b) ==
    /\ Project(b)
    /\ open' \in {open, open \ {t}}
    /\ UNCHANGED <<source, isolation, facts, infer, episodes, view>>

Facts == /\ UNCHANGED <<source, isolation, open, board, view>>
         /\ UNCHANGED mailVars

(***************************************************************************)
(* Failed jobs and verifications, unavailable routes, first recordings.    *)
(***************************************************************************)
BecomesDurable(t) ==
    /\ source \in Plain
    /\ t \in FactPlaces[source] \ facts
    /\ facts' = facts \union {t}
    /\ UNCHANGED <<quality, infer, episodes>>
    /\ Facts

(* A batch: so many of the places S, each once, in some order.              *)
Orders(S, n) == {q \in [1 .. n -> S] : \A x, y \in 1 .. n : q[x] = q[y] => x = y}
Size(S) == IF Cardinality(S) < Batch THEN Cardinality(S) ELSE Batch
(* The oldest first: before each one come exactly those below it.          *)
OldestFirst(S, q) ==
    \A x \in DOMAIN q, p \in S : p < q[x] <=> \E y \in 1 .. x - 1 : q[y] = p

readFacts ==
    LET todo == facts \ board.occ
    IN /\ source \in Plain
       /\ todo # {}
       /\ \E taken \in Orders(todo, Size(todo)) :
            /\ OldestFirst(todo, taken)
            /\ Reads([kind |-> "facts", todo |-> taken, latest |-> LatestRead])

reconcileFacts(t) ==
    /\ t.kind = "facts"
    /\ Writes(t, Recorded(t))
    /\ UNCHANGED quality

(***************************************************************************)
(* The quality of a provider.                                              *)
(***************************************************************************)
(* A window closes under the policy that was read for it, or not at all; a *)
(* window that is older than the last one still counts.                    *)
evaluateProviderQualityPolicy(w, state) ==
    /\ source = "quality"
    /\ quality.policy = Enabled
    /\ w \notin DOMAIN quality.windows
    /\ quality' =
         [quality EXCEPT !.windows = [v \in DOMAIN @ \union {w} |->
                           IF v = w THEN [state |-> state, etag |-> quality.etag] ELSE @[v]],
                         !.last = IF w > @ THEN w ELSE @,
                         !.state = IF w > quality.last THEN state ELSE @]
    /\ UNCHANGED <<facts, infer, episodes>>
    /\ Facts

(* The alert is read without a lock and written by its id: as it was found *)
(* when the transaction began or, with committed reads, a moment ago.      *)
Looks(t) == {t.alert} \union IF isolation = "snapshot" THEN {} ELSE {board.alert}
resolveOperationalAlertGroup(b, found) ==
    IF found \in {None, "resolved"} THEN b
    ELSE [b EXCEPT !.alert = "resolved", !.shown = FALSE,
                   !.notice = [r \in DOMAIN @ |-> [@[r] EXCEPT !.read = TRUE]]]

(* A revision of the policy, compared by its ETag, closes the incident of  *)
(* the one before.                                                         *)
readPolicy ==
    /\ source = "quality"
    /\ quality.etag <= MaxPolicies
    /\ Reads([kind |-> "policy", etag |-> quality.etag, alert |-> board.alert])

WriteProviderQualityPolicy(t, state) ==
    /\ t.kind = "policy"
    /\ quality.etag = t.etag
    /\ quality' = [quality EXCEPT !.policy = state, !.etag = @ + 1,
                                  !.state = IF quality.last = 0 THEN @ ELSE "insufficient"]
    /\ \E found \in Looks(t) : Writes(t, resolveOperationalAlertGroup(board, found))

Windows(state) ==
    {w \in DOMAIN quality.windows :
       quality.windows[w].etag = quality.etag /\ quality.windows[w].state \in state}
AllStates == {"healthy", "degraded", "insufficient"}
Current == Greatest(Windows(AllStates))

(* The incident is known: an occurrence with no recovery after it.         *)
Known == \E o \in board.occ \intersect Windows(AllStates) :
           ~ \E w \in Windows({"healthy"}) : o < w /\ w <= Current

(* The first degraded window since the last healthy one.                   *)
Transition ==
    LET recovered == {w \in Windows({"healthy"}) : w < Current} IN
    Least({w \in Windows({"degraded"}) : \A h \in recovered : h < w})

reconcileProviderQualityPolicyNotification(t) ==
    \/ isolation = "snapshot" /\ Writes(t, Recorded(t))
    \/ /\ isolation = "committed" /\ Current \in Windows({"healthy"})
       /\ \E found \in Looks(t) : Writes(t, resolveOperationalAlertGroup(board, found))
    \/ /\ isolation = "committed" /\ Current \in Windows({"degraded"})
       /\ Writes(t, recordOperationalAlertOccurrenceProjection(board, Transition, t))

readProviderQuality ==
    /\ source = "quality"
    /\ quality.policy = Enabled
    /\ Windows(AllStates) # {}
    /\ \/ /\ Current \in Windows({"healthy"})
          /\ board.alert \notin {None, "resolved"}
          /\ Reads([kind |-> "recovered", alert |-> board.alert])
       \/ /\ Current \in Windows({"degraded"})
          /\ ~ Known
          /\ Reads([kind |-> "degraded", etag |-> quality.etag, alert |-> Kept(None, board.alert),
                      todo |-> Kept(<<Transition>>, <<>>), latest |-> LatestRead])

(* A recovery takes no lock before it writes.  An incident is recorded     *)
(* under the lock of the policy, and for the windows seen then; whether it *)
(* is known by then is not asked again.                                    *)
reconcileProviderQualityNotifications(t) ==
    /\ \/ /\ t.kind = "recovered"
          /\ \E found \in Looks(t) : Writes(t, resolveOperationalAlertGroup(board, found))
       \/ /\ t.kind = "degraded"
          /\ quality.policy = Enabled /\ quality.etag = t.etag
          /\ reconcileProviderQualityPolicyNotification(t)
    /\ UNCHANGED quality

(***************************************************************************)
(* Runs of failed calls of a credential.                                   *)
(***************************************************************************)
(* Only a success ends an episode; an unknown result only breaks the run.  *)
advanceCredentialInferenceFailure(s, result) ==
    LET next == [s EXCEPT !.seq = @ + 1]
        fails == IF s.fails < Threshold THEN s.fails + 1 ELSE s.fails
    IN CASE result = "unknown" -> [next EXCEPT !.fails = 0]
         [] result = "success" -> [next EXCEPT !.fails = 0, !.latched = FALSE,
                                               !.success = next.seq, !.trigger = 0]
         [] result = "error" ->
              IF s.latched \/ fails # Threshold THEN [next EXCEPT !.fails = fails]
              ELSE [next EXCEPT !.fails = fails, !.latched = TRUE, !.trigger = next.seq]

Begun(s, next) ==
    IF next.latched /\ ~ s.latched THEN {[seq |-> next.seq, success |-> next.success]} ELSE {}

resolveCredentialInferenceAlert(b, s) ==
    IF b.alert \in {None, "resolved"} THEN b
    ELSE IF credentialInferenceEpisodeActive(s, Episode(Greatest(b.occ))) THEN b
    ELSE [b EXCEPT !.alert = "resolved", !.shown = FALSE]

(* In the transaction that stores the call's record.                       *)
observeCredentialInferenceFailures(result) ==
    LET next == advanceCredentialInferenceFailure(infer, result) IN
    /\ source = "inference"
    /\ next.seq <= MaxCalls
    /\ infer' = next
    /\ episodes' = episodes \union Begun(infer, next)
    /\ Project(resolveCredentialInferenceAlert(board, next))
    /\ UNCHANGED <<source, isolation, open, facts, quality, view>>

(* The recorded times were taken before the row was locked: episodes come  *)
(* in any order.                                                           *)
readEpisodes ==
    LET todo == {e.seq : e \in episodes} \ board.occ
    IN /\ source = "inference"
       /\ todo # {} \/ (~ infer.latched /\ board.alert \notin {None, "resolved"})
       /\ \E taken \in Orders(todo, Size(todo)) : Reads([kind |-> "episodes", todo |-> taken])

(* The failure state is locked first and then the alert.                   *)
reconcileCredentialInferenceFailures(t) ==
    /\ t.kind = "episodes"
    /\ Writes(t, resolveCredentialInferenceAlert(Recorded(t), infer))
    /\ UNCHANGED quality

(***************************************************************************)
(* A completed offboarding: nothing to handle, one notice per successor.   *)
(***************************************************************************)
publishOffboardingCompletion(to) ==
    LET admitted == {r \in to : role[r] # "gone"} IN
    /\ source = "offboarding"
    /\ board.occ = {}
    /\ board' = [alert |-> "resolved", shown |-> FALSE, count |-> 1, latest |-> 1, occ |-> {1},
                 notice |-> [r \in admitted |-> [count |-> 1, latest |-> 1, read |-> FALSE]]]
    /\ intent' = WithIntents(Intents({1}, admitted))
    /\ UNCHANGED <<source, isolation, open, view, facts, quality, infer, episodes>>
    /\ UNCHANGED <<role, wants, smtp, test, sender, wire, mailed, crashes, changes>>

(***************************************************************************)
(* The operator and the reader.                                            *)
(***************************************************************************)
ListOperationalAlerts ==
    /\ board.alert # None /\ source # "offboarding"
    /\ board' = [board EXCEPT !.shown = TRUE]
    /\ view' = board.count
    /\ UNCHANGED <<source, isolation, open, facts, quality, infer, episodes>>
    /\ UNCHANGED mailVars

SameAlert_Any == view > 0
SameAlert == board.shown

UpdateOperationalAlertState(state) ==
    /\ SameAlert
    /\ Operators # {}
    /\ board' = [board EXCEPT !.alert = state, !.shown = FALSE]
    /\ UNCHANGED <<source, isolation, open, facts, quality, infer, episodes, view>>
    /\ UNCHANGED mailVars

Readable(r) ==
    /\ r \in DOMAIN board.notice
    /\ role[r] \in {"operator"} \union IF source = "offboarding" THEN {"member"} ELSE {}

MarkBoardRead(r) ==
    board' = IF Readable(r) THEN [board EXCEPT !.notice[r].read = TRUE] ELSE board

(***************************************************************************)
(* Properties.                                                             *)
(***************************************************************************)
States == {"open", "handling", "resolved"}
Decision == \E state \in States : UpdateOperationalAlertState(state)
Opened == board'.alert \in {"open", "handling"} \ {board.alert}
Unread(r) == board.notice[r].read /\ ~ board'.notice[r].read

(* The failure that the alert shows goes on.                               *)
GoingOn ==
    CASE source = "quality" -> Current \in Windows({"degraded"})
      [] source = "inference" -> infer.latched /\ infer.trigger = board.latest
      [] OTHER -> TRUE

(* Between every earlier occurrence and the newest one lies a recovery.    *)
AfterRecovery ==
    /\ source = "quality" =>
         \A o \in board.occ :
           quality.windows[o].etag = quality.etag =>
             o = board.latest \/ \E h \in Windows({"healthy"}) : o < h /\ h < board.latest
    /\ source = "inference" => \A d, e \in episodes : d.success = e.success => d = e

(* The board tells the truth about its facts, in whatever order they and   *)
(* the recoveries come in and however many servers reconcile at once: it   *)
(* counts each once, only a fact not counted before opens the alert        *)
(* without an operator or makes a notice unread, and whatever an operator  *)
(* decides, she has seen every occurrence.  Where a transaction finds what *)
(* others have recorded, the board shows the newest occurrence, and a      *)
(* server opens the alert or unreads a notice only for one that is newer   *)
(* than all before it, whose failure is still going on and that a recovery *)
(* parts from every earlier one.                                           *)
AlertsTrue ==
    [][/\ board'.count = Cardinality(board'.occ)
       /\ Decision => view = board.count
       /\ Opened => Decision \/ board'.occ # board.occ
       /\ \A r \in DOMAIN board.notice : Unread(r) => board'.occ # board.occ
       /\ FindsAll =>
            /\ board'.occ # {} => board'.latest = Greatest(board'.occ)
            /\ Opened => Decision \/ (board'.latest > board.latest /\ (GoingOn /\ AfterRecovery)')
            /\ \A r \in DOMAIN board.notice : Unread(r) => board'.latest > board.latest]_board
=============================================================================
