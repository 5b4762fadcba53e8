---------------------------- MODULE NoticesProofs ----------------------------
(***************************************************************************)
(* Mail, quota warnings and the alert board for any recipients, workers,   *)
(* attempts, accounts, limits, facts and batches.                          *)
(*                                                                         *)
(* Mail.  A row that may still be claimed has nothing under way: its only  *)
(* sender gave up before the content went out (JobInv, RowInv).  So there  *)
(* is one send at most of each mail (OneSend), although leases run out     *)
(* under workers that go on.                                               *)
(*                                                                         *)
(* Warnings.  The state row has two marks and the last review; the samples *)
(* it has seen are gone.  The marks say exactly what was announced since   *)
(* the last sample that began an episode (EpisodeInv), and reviews are     *)
(* seen in the order of their revisions (ReviewInv), so that remembering   *)
(* the last one is enough.                                                 *)
(*                                                                         *)
(* The board.  A server takes any number of facts in one transaction; what *)
(* they may have made of the board (Grown) is kept by each of them, so by  *)
(* a batch of any length.  What an open transaction has read may be old,   *)
(* but facts, windows and episodes stay what they were (OpenTrue).  The    *)
(* first degraded window since a recovery lies after that recovery, and so *)
(* does no earlier occurrence (TransitionNew); an episode of a credential  *)
(* is the only one since its last success (EpisodesTrue).                  *)
(***************************************************************************)
EXTENDS Notices, FiniteSetTheorems, SequenceTheorems, WellFoundedInduction, TLAPS

-----------------------------------------------------------------------------
(* Mail: the inductive invariant.                                          *)
Status == {"pending", "retry", "sending"} \union Terminal
Row == [status : Status, attempts : Nat, etag : Nat]
Job == [step : {"check", "send", "data", "retry"} \union Terminal,
        id : DOMAIN intent, attempt : Nat]
TestJob == [step : {"send", "data"} \union Terminal, id : {Test}, attempt : {1}]

MailTypes ==
    /\ smtp \in [enabled : BOOLEAN, etag : Nat]
    /\ intent \in [DOMAIN intent -> Row]
    /\ Test \notin DOMAIN intent
    /\ test \in {"none", "pending"} \union Terminal
    /\ sender = [s \in Senders |-> sender[s]]
    /\ \A w \in Workers : sender[w] \in {Idle} \union Job
    /\ sender[Handler] \in {Idle} \union TestJob
    /\ wire \subseteq (DOMAIN intent \union {Test}) \X Nat
    /\ mailed \subseteq (DOMAIN intent \union {Test}) \X Nat

Busy(s) == sender[s].step # "idle"
Unsent(i) == \A m \in wire \union mailed : m[1] # i
Arrived(i) == \E m \in mailed : m[1] = i

\* A mail is sent once, by one worker.
OneSend == \A m, n \in wire \union mailed : m[1] = n[1] => m = n
OneWorker ==
    \A v, w \in Workers : Busy(v) /\ Busy(w) /\ sender[v].id = sender[w].id => v = w

\* What a worker has in hand was claimed, and its step tells what went out.
JobTrue(w) ==
    /\ intent[sender[w].id].status \in {"sending", "unknown"}
    /\ sender[w].step \in {"check", "send", "retry", "failed"} => Unsent(sender[w].id)
    /\ sender[w].step = "accepted" => Arrived(sender[w].id)
JobInv == \A w \in Workers : Busy(w) => JobTrue(w)

\* What a row says of its mail is true.
RowInv ==
    \A i \in DOMAIN intent :
      /\ intent[i].status \in {"pending", "retry", "failed"} => Unsent(i)
      /\ intent[i].status = "accepted" => Arrived(i)

\* The test mail has one handler, which wrote the row.
TestInv ==
    /\ test # "pending" => ~Busy(Handler)
    /\ test \in {"none", "failed"} => Unsent(Test)
    /\ test = "accepted" => Arrived(Test)
    /\ sender[Handler].step \in {"send", "failed"} => Unsent(Test)
    /\ sender[Handler].step = "accepted" => Arrived(Test)

MailInv == MailTypes /\ OneSend /\ OneWorker /\ JobInv /\ RowInv /\ TestInv

-----------------------------------------------------------------------------
(* Warnings: the inductive invariant.                                      *)
Marks == {"", "near", "critical"}
Seen == [at : Nat, cap : Nat, reset : Nat, sent : Marks, level : Marks]

WarningTypes ==
    /\ limit \in [cap : Nat, revision : Nat, reset : Nat]
    /\ rolling \in [known : BOOLEAN, cap : Nat, reset : Nat, at : Nat,
                    near : BOOLEAN, critical : BOOLEAN]
    /\ trail \in Seq(Seen)

\* The row is the one of the last sample.
LastInv ==
    /\ rolling.known <=> trail # <<>>
    /\ rolling.known => /\ rolling.at = trail[Len(trail)].at
                        /\ rolling.cap = trail[Len(trail)].cap
    /\ ~rolling.known => rolling = NoState

\* Reviews are revisions of the limit and come in their order.
ReviewInv ==
    /\ limit.reset \in {0, limit.revision}
    /\ rolling.reset <= limit.revision
    /\ \A k \in 1 .. Len(trail) : trail[k].reset <= rolling.reset
    /\ rolling.reset # 0 => \E k \in 1 .. Len(trail) : trail[k].reset = rolling.reset

\* The marks are what was announced in the episode that goes on.
EpisodeInv ==
    /\ rolling.near <=> \E i \in 1 .. Len(trail) : trail[i].sent # "" /\ OneEpisode(i, Len(trail))
    /\ rolling.critical <=>
         \E i \in 1 .. Len(trail) : trail[i].sent = "critical" /\ OneEpisode(i, Len(trail))
    /\ rolling.cap = 0 => ~rolling.near /\ ~rolling.critical

WarningInv == WarningTypes /\ LastInv /\ ReviewInv /\ EpisodeInv /\ WarnedOnce

-----------------------------------------------------------------------------
(* Mail: the steps.                                                        *)
LEMMA MailStart ==
  ASSUME NEW enabled \in BOOLEAN, NEW bound, MailInit(enabled, bound)
  PROVE  MailInv
<1>1. /\ wire = {} /\ mailed = {} /\ intent = <<>> /\ test = "none"
      /\ sender = [s \in Senders |-> Idle]
  BY DEF MailInit
<1>2. DOMAIN intent = {}
  BY <1>1
<1>3. \A s \in Senders : sender[s] = Idle /\ ~Busy(s)
  BY <1>1 DEF Busy, Idle
<1>4. /\ Workers \subseteq Senders /\ Handler \in Senders
  BY DEF Senders
<1>5. smtp \in [enabled : BOOLEAN, etag : Nat]
  BY MailAssumption DEF MailInit
<1>6. MailTypes
  BY <1>1, <1>2, <1>3, <1>4, <1>5 DEF MailTypes
<1>7. OneSend /\ OneWorker /\ JobInv /\ RowInv
  BY <1>1, <1>2, <1>3, <1>4 DEF OneSend, OneWorker, JobInv, RowInv
<1>8. TestInv
  BY <1>1, <1>3, <1>4 DEF TestInv, Unsent, Idle
<1>9. QED
  BY <1>6, <1>7, <1>8 DEF MailInv

\* A step that neither sends nor writes a row nor moves a sender.
LEMMA QuietStep ==
  ASSUME MailInv, UNCHANGED <<intent, test, sender, wire, mailed>>,
         smtp' \in [enabled : BOOLEAN, etag : Nat]
  PROVE  MailInv'
<1>1. MailTypes'
  BY DEF MailInv, MailTypes, Job
<1>2. OneSend' /\ OneWorker' /\ TestInv'
  BY DEF MailInv, OneSend, OneWorker, TestInv, Busy, Unsent, Arrived
<1>3. JobInv' /\ RowInv'
  BY DEF MailInv, JobInv, JobTrue, RowInv, Busy, Unsent, Arrived
<1>4. QED
  BY <1>1, <1>2, <1>3 DEF MailInv

\* New rows of other mails than the test (recordOperationalAlertOccurrence).
LEMMA IntentStep ==
  ASSUME MailInv, UNCHANGED <<smtp, test, sender, wire, mailed>>,
         NEW ids, Test \notin ids, intent' = WithIntents(ids)
  PROVE  MailInv'
<1>1. MailTypes /\ OneSend /\ OneWorker /\ JobInv /\ RowInv /\ TestInv
  BY DEF MailInv
<1>2. /\ DOMAIN intent' = DOMAIN intent \union ids
      /\ \A i \in DOMAIN intent : intent'[i] = intent[i]
      /\ \A i \in ids \ DOMAIN intent : intent'[i] = NewIntent
  BY DEF WithIntents
<1>3. NewIntent \in Row
  BY <1>1 DEF MailTypes, NewIntent, Row, Status
<1>4. \A i \in DOMAIN intent : intent[i] \in Row
  BY <1>1 DEF MailTypes
<1>5. intent' \in [DOMAIN intent' -> Row]
  BY <1>2, <1>3, <1>4 DEF WithIntents
<1>6. \A w \in Workers : sender[w] \in {Idle} \union Job'
  BY <1>1, <1>2 DEF MailTypes, Job
<1>7. MailTypes'
  BY <1>1, <1>2, <1>5, <1>6 DEF MailTypes
<1>8. OneSend' /\ OneWorker' /\ TestInv'
  BY <1>1 DEF OneSend, OneWorker, TestInv, Busy, Unsent, Arrived
<1>9. \A w \in Workers : Busy(w) => sender[w].id \in DOMAIN intent
  BY <1>1 DEF MailTypes, Busy, Idle, Job
<1>10. JobInv'
  BY <1>1, <1>2, <1>9 DEF JobInv, JobTrue, Busy, Unsent, Arrived
<1>11. \A i \in ids \ DOMAIN intent : Unsent(i)
  BY <1>1 DEF MailTypes, Unsent
<1>12. RowInv'
  BY <1>1, <1>2, <1>11 DEF RowInv, Unsent, Arrived, NewIntent
<1>13. QED
  BY <1>7, <1>8, <1>10, <1>12 DEF MailInv

\* claimNotificationDelivery: nobody had the row, and nothing of it was sent.
LEMMA ClaimStep ==
  ASSUME MailInv, NEW w \in Workers, NEW i \in DOMAIN intent, claimNotificationDelivery(w, i)
  PROVE  MailInv'
<1>1. MailTypes /\ OneSend /\ OneWorker /\ JobInv /\ RowInv /\ TestInv
  BY DEF MailInv
<1>2. /\ UNCHANGED <<smtp, test, wire, mailed>>
      /\ intent' = [intent EXCEPT ![i].status = "sending", ![i].attempts = @ + 1]
      /\ sender' = [sender EXCEPT ![w] = [step |-> "check", id |-> i, attempt |-> intent[i].attempts + 1]]
      /\ intent[i].status \in {"pending", "retry"}
  BY DEF claimNotificationDelivery, Due
<1>3. intent[i] \in Row
  BY <1>1 DEF MailTypes
<1>4. /\ DOMAIN intent' = DOMAIN intent
      /\ \A j \in DOMAIN intent : j # i => intent'[j] = intent[j]
      /\ intent'[i].status = "sending"
      /\ intent' \in [DOMAIN intent -> Row]
  <2>1. intent \in [DOMAIN intent -> Row]
    BY <1>1 DEF MailTypes
  <2>2. QED
    BY <1>2, <2>1 DEF Row, Status
<1>5. /\ w \in Senders /\ w # Handler /\ Handler \in Senders /\ Workers \subseteq Senders
  BY MailAssumption DEF Senders, Handler
<1>6. /\ sender'[w] = [step |-> "check", id |-> i, attempt |-> intent[i].attempts + 1]
      /\ \A s \in Senders : s # w => sender'[s] = sender[s]
      /\ sender' = [s \in Senders |-> sender'[s]]
  BY <1>1, <1>2, <1>5 DEF MailTypes
<1>7. sender'[w] \in Job'
  BY <1>3, <1>4, <1>6 DEF Job, Row
<1>8. MailTypes'
  <2>1. \A v \in Workers : sender'[v] \in {Idle} \union Job'
    BY <1>1, <1>4, <1>5, <1>6, <1>7 DEF MailTypes, Job
  <2>2. sender'[Handler] \in {Idle} \union TestJob
    BY <1>1, <1>5, <1>6 DEF MailTypes
  <2>3. QED
    BY <1>1, <1>2, <1>4, <1>6, <2>1, <2>2 DEF MailTypes
<1>9. \A v \in Workers : v # w /\ Busy(v) => sender[v].id # i
  BY <1>1, <1>2 DEF JobInv, JobTrue
<1>10. OneWorker'
  BY <1>1, <1>5, <1>6, <1>9 DEF OneWorker, Busy
<1>11. Unsent(i)
  BY <1>1, <1>2 DEF RowInv
<1>12. \A v \in Workers : Busy(v) => sender[v].id \in DOMAIN intent
  BY <1>1 DEF MailTypes, Busy, Idle, Job
<1>13. JobInv'
  <2> SUFFICES ASSUME NEW v \in Workers, Busy(v)' PROVE JobTrue(v)'
    BY DEF JobInv
  <2>1. CASE v = w
    BY <1>2, <1>4, <1>6, <1>11, <2>1 DEF JobTrue, Unsent
  <2>2. CASE v # w
    BY <1>1, <1>2, <1>4, <1>5, <1>6, <1>9, <1>12, <2>2 DEF JobInv, JobTrue, Busy, Unsent, Arrived
  <2>3. QED
    BY <2>1, <2>2
<1>14. RowInv'
  BY <1>1, <1>2, <1>4 DEF RowInv, Unsent, Arrived
<1>15. TestInv' /\ OneSend'
  BY <1>1, <1>2, <1>5, <1>6 DEF TestInv, OneSend, Busy, Unsent, Arrived
<1>16. QED
  BY <1>8, <1>10, <1>13, <1>14, <1>15 DEF MailInv

\* Who sends what: a worker a row, the handler the test.
LEMMA Holding ==
  ASSUME MailTypes
  PROVE  /\ Workers \subseteq Senders /\ Handler \in Senders /\ Handler \notin Workers
         /\ \A w \in Workers : Busy(w) =>
              /\ sender[w] \in Job /\ sender[w].id \in DOMAIN intent /\ sender[w].id # Test
         /\ Busy(Handler) => sender[Handler] \in TestJob /\ sender[Handler].id = Test
<1>1. /\ Workers \subseteq Senders /\ Handler \in Senders /\ Handler \notin Workers
  BY MailAssumption DEF Senders, Handler
<1>2. ASSUME NEW w \in Workers, Busy(w)
      PROVE  sender[w] \in Job /\ sender[w].id \in DOMAIN intent /\ sender[w].id # Test
  BY <1>2 DEF MailTypes, Busy, Idle, Job
<1>3. Busy(Handler) => sender[Handler] \in TestJob /\ sender[Handler].id = Test
  BY DEF MailTypes, Busy, Idle, TestJob
<1>4. QED
  BY <1>1, <1>2, <1>3

\* A sender goes on to a step that what it sent so far allows.
LEMMA SenderStep ==
  ASSUME MailInv, NEW s \in Senders, Busy(s), NEW step, sender' = Step(s, step),
         UNCHANGED <<smtp, intent, test, wire, mailed>>,
         step \in {"send", "data"} \union Terminal \/ (step = "retry" /\ s # Handler),
         step \in {"send", "retry", "failed"} => Unsent(sender[s].id),
         step = "accepted" => Arrived(sender[s].id)
  PROVE  MailInv'
<1>1. MailTypes /\ OneSend /\ OneWorker /\ JobInv /\ RowInv /\ TestInv
  BY DEF MailInv
<1>2. /\ Workers \subseteq Senders /\ Handler \in Senders /\ Handler \notin Workers
      /\ s \in Workers => sender[s] \in Job
      /\ s = Handler => sender[s] \in TestJob
      /\ s \in Workers \/ s = Handler
  BY <1>1, Holding DEF Senders
<1>3. sender = [t \in Senders |-> sender[t]]
  BY <1>1 DEF MailTypes
<1>4. sender'[s] = [sender[s] EXCEPT !.step = step] /\ \A t \in Senders : t # s => sender'[t] = sender[t]
  BY <1>3 DEF Step
<1>5. sender' = [t \in Senders |-> sender'[t]]
  BY <1>3 DEF Step
<1>6. step \in {"check", "send", "data", "retry"} \union Terminal /\ step # "idle" /\ step # "check"
  BY DEF Terminal
<1>7. /\ sender'[s].step = step /\ sender'[s].id = sender[s].id
      /\ s \in Workers => sender'[s] \in Job
      /\ s = Handler => sender'[s] \in TestJob
  <2>1. CASE s \in Workers
    BY <1>2, <1>4, <1>6, <2>1 DEF Job
  <2>2. CASE s = Handler
    BY <1>2, <1>4, <1>6, <2>2 DEF TestJob
  <2>3. QED
    BY <1>2, <2>1, <2>2
<1>8. MailTypes'
  <2>1. \A w \in Workers : sender'[w] \in {Idle} \union Job'
    BY <1>1, <1>2, <1>4, <1>7 DEF MailTypes, Job
  <2>2. sender'[Handler] \in {Idle} \union TestJob
    BY <1>1, <1>2, <1>4, <1>7 DEF MailTypes
  <2>3. QED
    BY <1>1, <1>5, <2>1, <2>2 DEF MailTypes
<1>9. OneSend' /\ RowInv'
  BY <1>1 DEF OneSend, RowInv, Unsent, Arrived
<1>10. OneWorker'
  <2>1. \A v \in Workers : Busy(v)' => Busy(v) /\ sender'[v].id = sender[v].id
    BY <1>2, <1>4, <1>7 DEF Busy
  <2>2. QED
    BY <1>1, <2>1 DEF OneWorker
<1>11. JobInv'
  <2> SUFFICES ASSUME NEW v \in Workers, Busy(v)' PROVE JobTrue(v)'
    BY DEF JobInv
  <2>1. CASE v = s
    <3>1. JobTrue(s)
      BY <1>1, <2>1 DEF JobInv
    <3>2. QED
      BY <1>6, <1>7, <2>1, <3>1 DEF JobTrue, Unsent, Arrived, Terminal
  <2>2. CASE v # s
    BY <1>1, <1>2, <1>4, <2>2 DEF JobInv, JobTrue, Busy, Unsent, Arrived
  <2>3. QED
    BY <2>1, <2>2
<1>12. TestInv'
  <2>1. CASE s = Handler
    <3>1. sender[s].id = Test
      BY <1>2, <2>1 DEF TestJob
    <3>2. QED
      BY <1>1, <1>7, <2>1, <3>1 DEF TestInv, Busy, Unsent, Arrived
  <2>2. CASE s # Handler
    BY <1>1, <1>2, <1>4, <2>2 DEF TestInv, Busy, Unsent, Arrived
  <2>3. QED
    BY <2>1, <2>2
<1>13. QED
  BY <1>8, <1>9, <1>10, <1>11, <1>12 DEF MailInv

\* The content goes out, once.
LEMMA DataStep ==
  ASSUME MailInv, NEW s \in Senders, Data(s)
  PROVE  MailInv'
<1>1. MailTypes /\ OneSend /\ OneWorker /\ JobInv /\ RowInv /\ TestInv
  BY DEF MailInv
<1>2. /\ UNCHANGED <<smtp, intent, test, mailed>>
      /\ sender' = Step(s, "data") /\ wire' = wire \union {Send(s)}
      /\ sender[s].step = "send"
  BY DEF Data, SenderOnly
<1>3. /\ Workers \subseteq Senders /\ Handler \in Senders /\ Handler \notin Workers
      /\ \A w \in Workers : Busy(w) => sender[w] \in Job /\ sender[w].id \in DOMAIN intent /\ sender[w].id # Test
      /\ Busy(Handler) => sender[Handler] \in TestJob /\ sender[Handler].id = Test
      /\ s \in Workers \/ s = Handler
  BY <1>1, Holding DEF Senders
<1>4. Busy(s)
  BY <1>2 DEF Busy
<1>5. /\ sender[s].id \in DOMAIN intent \union {Test} /\ sender[s].attempt \in Nat
      /\ s \in Workers => sender[s] \in Job
      /\ s = Handler => sender[s] \in TestJob
  BY <1>3, <1>4 DEF Job, TestJob
<1>6. sender = [t \in Senders |-> sender[t]]
  BY <1>1 DEF MailTypes
<1>7. /\ sender'[s] = [sender[s] EXCEPT !.step = "data"]
      /\ \A t \in Senders : t # s => sender'[t] = sender[t]
      /\ sender' = [t \in Senders |-> sender'[t]]
  BY <1>2, <1>6 DEF Step
<1>8. /\ sender'[s].step = "data" /\ sender'[s].id = sender[s].id
      /\ s \in Workers => sender'[s] \in Job
      /\ s = Handler => sender'[s] \in TestJob
  <2>1. CASE s \in Workers
    BY <1>3, <1>5, <1>7, <2>1 DEF Job
  <2>2. CASE s = Handler
    BY <1>3, <1>5, <1>7, <2>2 DEF TestJob
  <2>3. QED
    BY <1>3, <2>1, <2>2
<1>9. Unsent(sender[s].id)
  <2>1. CASE s \in Workers
    BY <1>1, <1>2, <1>4, <2>1 DEF JobInv, JobTrue
  <2>2. CASE s = Handler
    BY <1>1, <1>2, <1>3, <1>4, <2>2 DEF TestInv
  <2>3. QED
    BY <1>3, <2>1, <2>2
<1>10. /\ Send(s) \in (DOMAIN intent \union {Test}) \X Nat
       /\ Send(s)[1] = sender[s].id
  BY <1>5 DEF Send
<1>11. MailTypes'
  <2>1. \A w \in Workers : sender'[w] \in {Idle} \union Job'
    BY <1>1, <1>2, <1>3, <1>7, <1>8 DEF MailTypes, Job
  <2>2. sender'[Handler] \in {Idle} \union TestJob
    BY <1>1, <1>3, <1>7, <1>8 DEF MailTypes
  <2>3. wire' \subseteq (DOMAIN intent \union {Test}) \X Nat
    BY <1>1, <1>2, <1>10 DEF MailTypes
  <2>4. QED
    BY <1>1, <1>2, <1>7, <2>1, <2>2, <2>3 DEF MailTypes
<1>12. OneSend'
  BY <1>1, <1>2, <1>9, <1>10 DEF OneSend, Unsent
<1>13. OneWorker'
  <2>1. \A v \in Workers : Busy(v)' => Busy(v) /\ sender'[v].id = sender[v].id
    BY <1>3, <1>4, <1>7, <1>8 DEF Busy
  <2>2. QED
    BY <1>1, <2>1 DEF OneWorker
<1>14. \A i : i # sender[s].id /\ Unsent(i) => Unsent(i)'
  BY <1>2, <1>10 DEF Unsent
<1>15. \A i : Arrived(i) => Arrived(i)'
  BY <1>2 DEF Arrived
<1>16. JobInv'
  <2> SUFFICES ASSUME NEW v \in Workers, Busy(v)' PROVE JobTrue(v)'
    BY DEF JobInv
  <2>1. CASE v = s
    BY <1>1, <1>2, <1>4, <1>8, <2>1 DEF JobInv, JobTrue
  <2>2. CASE v # s
    <3>1. sender'[v] = sender[v] /\ Busy(v) /\ JobTrue(v)
      BY <1>1, <1>3, <1>7, <2>2 DEF Busy, JobInv
    <3>2. sender[v].id # sender[s].id
      BY <1>1, <1>3, <1>4, <2>2, <3>1 DEF OneWorker
    <3>3. Unsent(sender[v].id) => Unsent(sender[v].id)'
      BY <1>2, <1>10, <3>1, <3>2 DEF Unsent
    <3>4. Arrived(sender[v].id) => Arrived(sender[v].id)'
      BY <1>2, <3>1 DEF Arrived
    <3>5. QED
      BY <1>2, <3>1, <3>3, <3>4 DEF JobTrue
  <2>3. QED
    BY <2>1, <2>2
<1>17. RowInv'
  <2> SUFFICES ASSUME NEW i \in DOMAIN intent
               PROVE  /\ intent[i].status \in {"pending", "retry", "failed"} => Unsent(i)'
                      /\ intent[i].status = "accepted" => Arrived(i)'
    BY <1>2 DEF RowInv
  <2>1. CASE s \in Workers /\ i = sender[s].id
    BY <1>1, <1>4, <2>1 DEF JobInv, JobTrue
  <2>2. CASE i # sender[s].id
    BY <1>1, <1>14, <1>15, <2>2 DEF RowInv
  <2>3. QED
    BY <1>1, <1>3, <1>4, <2>1, <2>2 DEF MailTypes
<1>18. TestInv'
  <2>1. CASE s = Handler
    BY <1>1, <1>2, <1>4, <1>8, <1>15, <2>1 DEF TestInv, Busy
  <2>2. CASE s # Handler
    <3>1. sender[s].id # Test /\ sender'[Handler] = sender[Handler]
      BY <1>3, <1>4, <1>7, <2>2
    <3>2. QED
      BY <1>1, <1>2, <1>14, <1>15, <3>1 DEF TestInv, Busy
  <2>3. QED
    BY <2>1, <2>2
<1>19. QED
  BY <1>11, <1>12, <1>13, <1>16, <1>17, <1>18 DEF MailInv

\* What is on its way arrives or is lost; nothing is added (external).
LEMMA RelayStep ==
  ASSUME MailInv, UNCHANGED <<smtp, intent, test, sender>>,
         wire' \union mailed' \subseteq wire \union mailed, mailed \subseteq mailed'
  PROVE  MailInv'
<1>1. MailTypes'
  BY DEF MailInv, MailTypes, Job
<1>2. OneSend' /\ OneWorker' /\ TestInv'
  BY DEF MailInv, OneSend, OneWorker, TestInv, Busy, Unsent, Arrived
<1>3. JobInv' /\ RowInv'
  BY DEF MailInv, JobInv, JobTrue, RowInv, Busy, Unsent, Arrived
<1>4. QED
  BY <1>1, <1>2, <1>3 DEF MailInv

\* A sender is idle again: it stops, it lost its lease, or it records its step,
\* which nobody else has the row to contradict.
LEMMA LeaveStep ==
  ASSUME MailInv, NEW s \in Senders, sender' = [sender EXCEPT ![s] = Idle],
         UNCHANGED <<smtp, wire, mailed>>,
         \/ UNCHANGED <<intent, test>>
         \/ /\ s \in Workers /\ sender[s].step \in Terminal \union {"retry"}
            /\ intent' = [intent EXCEPT ![sender[s].id].status = sender[s].step]
            /\ UNCHANGED test
         \/ /\ s = Handler /\ sender[s].step \in Terminal
            /\ test' = sender[s].step
            /\ UNCHANGED intent
  PROVE  MailInv'
<1>1. MailTypes /\ OneSend /\ OneWorker /\ JobInv /\ RowInv /\ TestInv
  BY DEF MailInv
<1>2. /\ Workers \subseteq Senders /\ Handler \in Senders /\ Handler \notin Workers
      /\ \A w \in Workers : Busy(w) => sender[w] \in Job /\ sender[w].id \in DOMAIN intent /\ sender[w].id # Test
      /\ Busy(Handler) => sender[Handler] \in TestJob /\ sender[Handler].id = Test
  BY <1>1, Holding
<1>3. /\ sender'[s] = Idle /\ ~Busy(s)'
      /\ \A t \in Senders : t # s => sender'[t] = sender[t]
      /\ sender' = [t \in Senders |-> sender'[t]]
  BY <1>1 DEF MailTypes, Busy, Idle
<1>4. sender[s].step \in Terminal \union {"retry"} => Busy(s)
  BY DEF Busy, Terminal
<1>5. intent \in [DOMAIN intent -> Row] /\ DOMAIN intent' = DOMAIN intent
  BY <1>1, <1>2, <1>4 DEF MailTypes
<1>6. \A v \in Workers : Busy(v)' => v # s /\ Busy(v) /\ sender'[v] = sender[v]
  BY <1>2, <1>3 DEF Busy
<1>7. \A i \in DOMAIN intent :
        \/ intent'[i] = intent[i]
        \/ /\ s \in Workers /\ Busy(s) /\ sender[s].step \in Terminal \union {"retry"}
           /\ i = sender[s].id /\ intent'[i].status = sender[s].step
           /\ intent'[i] \in Row
  <2> SUFFICES ASSUME NEW i \in DOMAIN intent, intent'[i] # intent[i]
               PROVE  /\ s \in Workers /\ Busy(s) /\ sender[s].step \in Terminal \union {"retry"}
                      /\ i = sender[s].id /\ intent'[i].status = sender[s].step
                      /\ intent'[i] \in Row
    OBVIOUS
  <2>1. /\ s \in Workers /\ Busy(s) /\ sender[s].step \in Terminal \union {"retry"}
        /\ intent' = [intent EXCEPT ![sender[s].id].status = sender[s].step]
    BY <1>4
  <2>2. sender[s].id \in DOMAIN intent /\ i = sender[s].id
    BY <1>2, <1>5, <2>1
  <2>3. intent'[i] = [intent[i] EXCEPT !.status = sender[s].step]
    BY <1>5, <2>1, <2>2
  <2>4. intent[i] \in Row /\ sender[s].step \in Status
    BY <1>5, <2>1 DEF Status
  <2>5. intent'[i] \in Row /\ intent'[i].status = sender[s].step
    BY <2>3, <2>4 DEF Row
  <2>6. QED
    BY <2>1, <2>2, <2>5
<1>8. intent' \in [DOMAIN intent -> Row]
  <2>1. \A i \in DOMAIN intent : intent'[i] \in Row
    BY <1>5, <1>7
  <2>2. CASE UNCHANGED intent
    BY <1>5, <2>2
  <2>3. CASE intent' = [intent EXCEPT ![sender[s].id].status = sender[s].step]
    BY <1>5, <2>1, <2>3
  <2>4. QED
    BY <2>2, <2>3
<1>9. MailTypes'
  <2>1. \A w \in Workers : sender'[w] \in {Idle} \union Job'
    BY <1>1, <1>2, <1>3, <1>5 DEF MailTypes, Job
  <2>2. sender'[Handler] \in {Idle} \union TestJob
    BY <1>1, <1>2, <1>3 DEF MailTypes
  <2>3. test' \in {"none", "pending"} \union Terminal
    BY <1>1 DEF MailTypes
  <2>4. QED
    BY <1>1, <1>3, <1>5, <1>8, <2>1, <2>2, <2>3 DEF MailTypes
<1>10. OneSend' /\ OneWorker'
  BY <1>1, <1>6 DEF OneSend, OneWorker
<1>11. (\A i : Unsent(i) => Unsent(i)') /\ \A i : Arrived(i) => Arrived(i)'
  BY DEF Unsent, Arrived
<1>12. JobInv'
  <2> SUFFICES ASSUME NEW v \in Workers, Busy(v)' PROVE JobTrue(v)'
    BY DEF JobInv
  <2>1. v # s /\ Busy(v) /\ sender'[v] = sender[v] /\ JobTrue(v) /\ sender[v].id \in DOMAIN intent
    BY <1>1, <1>2, <1>6 DEF JobInv
  <2>2. intent'[sender[v].id] = intent[sender[v].id]
    BY <1>1, <1>7, <2>1 DEF OneWorker
  <2>3. QED
    BY <2>1, <2>2 DEF JobTrue, Unsent, Arrived
<1>13. RowInv'
  <2> SUFFICES ASSUME NEW i \in DOMAIN intent
               PROVE  /\ intent'[i].status \in {"pending", "retry", "failed"} => Unsent(i)'
                      /\ intent'[i].status = "accepted" => Arrived(i)'
    BY <1>5 DEF RowInv
  <2>1. CASE intent'[i] = intent[i]
    BY <1>1, <1>11, <2>1 DEF RowInv
  <2>2. CASE /\ s \in Workers /\ Busy(s) /\ sender[s].step \in Terminal \union {"retry"}
             /\ i = sender[s].id /\ intent'[i].status = sender[s].step
    <3>1. JobTrue(s)
      BY <1>1, <2>2 DEF JobInv
    <3>2. QED
      BY <1>11, <2>2, <3>1 DEF JobTrue, Terminal
  <2>3. QED
    BY <1>7, <2>1, <2>2
<1>14. TestInv'
  <2>1. CASE UNCHANGED test
    <3>1. sender'[Handler] = Idle \/ sender'[Handler] = sender[Handler]
      BY <1>2, <1>3
    <3>2. QED
      BY <1>1, <1>11, <2>1, <3>1 DEF TestInv, Busy, Idle
  <2>2. CASE s = Handler /\ sender[s].step \in Terminal /\ test' = sender[s].step
    BY <1>1, <1>3, <1>11, <2>2 DEF TestInv, Busy, Terminal, Idle
  <2>3. QED
    BY <2>1, <2>2
<1>15. QED
  BY <1>9, <1>10, <1>12, <1>13, <1>14 DEF MailInv

\* A lease that runs out leaves what was sent unknown.
LEMMA ExpireStep ==
  ASSUME MailInv, NEW i \in DOMAIN intent, ExpireLease(i)
  PROVE  MailInv'
<1>1. MailTypes /\ OneSend /\ OneWorker /\ JobInv /\ RowInv /\ TestInv
  BY DEF MailInv
<1>2. /\ UNCHANGED <<smtp, test, sender, wire, mailed>>
      /\ intent' = [intent EXCEPT ![i].status = "unknown"]
  BY DEF ExpireLease, ExpiredStatus
<1>3. intent \in [DOMAIN intent -> Row]
  BY <1>1 DEF MailTypes
<1>4. /\ DOMAIN intent' = DOMAIN intent /\ intent' \in [DOMAIN intent -> Row]
      /\ intent'[i].status = "unknown"
      /\ \A j \in DOMAIN intent : j # i => intent'[j] = intent[j]
  BY <1>2, <1>3 DEF Row, Status, Terminal
<1>5. MailTypes'
  BY <1>1, <1>2, <1>4 DEF MailTypes, Job
<1>6. OneSend' /\ OneWorker' /\ TestInv'
  BY <1>1, <1>2 DEF OneSend, OneWorker, TestInv, Busy, Unsent, Arrived
<1>7. \A w \in Workers : Busy(w) => sender[w].id \in DOMAIN intent
  BY <1>1, Holding
<1>8. JobInv'
  BY <1>1, <1>2, <1>4, <1>7 DEF JobInv, JobTrue, Busy, Unsent, Arrived
<1>9. RowInv'
  BY <1>1, <1>2, <1>4 DEF RowInv, Unsent, Arrived
<1>10. QED
  BY <1>5, <1>6, <1>8, <1>9 DEF MailInv

\* The test mail is begun once.
LEMMA TestStep ==
  ASSUME MailInv, TestSMTP
  PROVE  MailInv'
<1>1. MailTypes /\ OneSend /\ OneWorker /\ JobInv /\ RowInv /\ TestInv
  BY DEF MailInv
<1>2. /\ UNCHANGED <<smtp, intent, wire, mailed>> /\ test = "none" /\ test' = "pending"
      /\ sender' = [sender EXCEPT ![Handler] = [step |-> "send", id |-> Test, attempt |-> 1]]
  BY DEF TestSMTP
<1>3. /\ Workers \subseteq Senders /\ Handler \in Senders /\ Handler \notin Workers
  BY <1>1, Holding
<1>4. /\ sender'[Handler] = [step |-> "send", id |-> Test, attempt |-> 1]
      /\ \A w \in Workers : sender'[w] = sender[w]
      /\ sender' = [t \in Senders |-> sender'[t]]
  BY <1>1, <1>2, <1>3 DEF MailTypes
<1>5. MailTypes'
  <2>1. sender'[Handler] \in TestJob
    BY <1>4 DEF TestJob
  <2>2. QED
    BY <1>1, <1>2, <1>4, <2>1 DEF MailTypes, Job
<1>6. OneSend' /\ OneWorker' /\ RowInv'
  BY <1>1, <1>2, <1>4 DEF OneSend, OneWorker, RowInv, Busy, Unsent, Arrived
<1>7. JobInv'
  BY <1>1, <1>2, <1>4 DEF JobInv, JobTrue, Busy, Unsent, Arrived
<1>8. TestInv'
  BY <1>1, <1>2, <1>4 DEF TestInv, Unsent
<1>9. QED
  BY <1>5, <1>6, <1>7, <1>8 DEF MailInv

LEMMA WorkerStep ==
  ASSUME MailInv, NEW w \in Workers, Worker(w)
  PROVE  MailInv'
<1>1. MailTypes /\ JobInv /\ w \in Senders /\ w # Handler
  BY Holding DEF MailInv
<1>2. CASE executeNotificationDelivery(w, source = "offboarding")
  <2>1. /\ sender[w].step = "check" /\ UNCHANGED <<smtp, intent, test, wire, mailed>>
        /\ sender' = Step(w, "send") \/ sender' = Step(w, "failed")
    BY <1>2 DEF executeNotificationDelivery, SenderOnly
  <2>2. Busy(w) /\ Unsent(sender[w].id)
    BY <1>1, <2>1 DEF JobInv, JobTrue, Busy
  <2>3. QED
    BY <1>1, <2>1, <2>2, SenderStep DEF Terminal
<1>3. CASE NotSent(w)
  <2>1. /\ sender[w].step = "send" /\ UNCHANGED <<smtp, intent, test, wire, mailed>>
        /\ sender' = Step(w, "failed") \/ sender' = Step(w, "retry")
    BY <1>3 DEF NotSent, SenderOnly
  <2>2. Busy(w) /\ Unsent(sender[w].id)
    BY <1>1, <2>1 DEF JobInv, JobTrue, Busy
  <2>3. QED
    BY <1>1, <2>1, <2>2, SenderStep DEF Terminal
<1>4. CASE Data(w)
  BY <1>1, <1>4, DataStep
<1>5. CASE Answered(w)
  <2>1. /\ sender[w].step = "data" /\ UNCHANGED <<smtp, intent, test, wire, mailed>>
        /\ sender' = Step(w, "accepted") /\ Send(w) \in mailed
    BY <1>5 DEF Answered, SenderOnly
  <2>2. Busy(w) /\ Arrived(sender[w].id)
    BY <2>1 DEF Busy, Arrived, Send
  <2>3. QED
    BY <1>1, <2>1, <2>2, SenderStep DEF Terminal
<1>6. CASE Unanswered(w)
  <2>1. /\ sender[w].step = "data" /\ UNCHANGED <<smtp, intent, test, wire, mailed>>
        /\ sender' = Step(w, "unknown")
    BY <1>6 DEF Unanswered, SenderOnly
  <2>2. Busy(w)
    BY <2>1 DEF Busy
  <2>3. QED
    BY <1>1, <2>1, <2>2, SenderStep DEF Terminal
<1>7. CASE finishNotificationDelivery(w)
  <2>1. /\ sender[w].step \in Terminal \union {"retry"}
        /\ sender' = [sender EXCEPT ![w] = Idle]
        /\ UNCHANGED <<smtp, test, wire, mailed>>
        /\ UNCHANGED intent \/ intent' = [intent EXCEPT ![sender[w].id].status = sender[w].step]
    BY <1>7 DEF finishNotificationDelivery
  <2>2. QED
    BY <1>1, <2>1, LeaveStep
<1>8. QED
  BY <1>2, <1>3, <1>4, <1>5, <1>6, <1>7 DEF Worker

LEMMA TestMailStep ==
  ASSUME MailInv, TestMail
  PROVE  MailInv'
<1>1. MailTypes /\ TestInv /\ Handler \in Senders
  BY Holding DEF MailInv
<1>2. Busy(Handler) => sender[Handler].id = Test
  BY <1>1, Holding
<1>3. CASE TestSMTP
  BY <1>3, TestStep
<1>4. CASE TestDone
  <2>1. /\ sender[Handler].step \in Terminal
        /\ sender' = [sender EXCEPT ![Handler] = Idle]
        /\ UNCHANGED <<smtp, intent, wire, mailed>>
        /\ UNCHANGED test \/ test' = sender[Handler].step
    BY <1>4 DEF TestDone
  <2>2. QED
    BY <1>1, <2>1, LeaveStep
<1>5. CASE NotSent(Handler)
  <2>1. /\ sender[Handler].step = "send" /\ UNCHANGED <<smtp, intent, test, wire, mailed>>
        /\ sender' = Step(Handler, "failed")
    BY <1>5 DEF NotSent, SenderOnly
  <2>2. Busy(Handler) /\ Unsent(sender[Handler].id)
    BY <1>1, <1>2, <2>1 DEF TestInv, Busy
  <2>3. QED
    BY <1>1, <2>1, <2>2, SenderStep DEF Terminal
<1>6. CASE Data(Handler)
  BY <1>1, <1>6, DataStep
<1>7. CASE Answered(Handler)
  <2>1. /\ sender[Handler].step = "data" /\ UNCHANGED <<smtp, intent, test, wire, mailed>>
        /\ sender' = Step(Handler, "accepted") /\ Send(Handler) \in mailed
    BY <1>7 DEF Answered, SenderOnly
  <2>2. Busy(Handler) /\ Arrived(sender[Handler].id)
    BY <2>1 DEF Busy, Arrived, Send
  <2>3. QED
    BY <1>1, <2>1, <2>2, SenderStep DEF Terminal
<1>8. CASE Unanswered(Handler)
  <2>1. /\ sender[Handler].step = "data" /\ UNCHANGED <<smtp, intent, test, wire, mailed>>
        /\ sender' = Step(Handler, "unknown")
    BY <1>8 DEF Unanswered, SenderOnly
  <2>2. Busy(Handler)
    BY <2>1 DEF Busy
  <2>3. QED
    BY <1>1, <2>1, <2>2, SenderStep DEF Terminal
<1>9. QED
  BY <1>3, <1>4, <1>5, <1>6, <1>7, <1>8 DEF TestMail

LEMMA SurroundingsStep ==
  ASSUME MailInv, Surroundings
  PROVE  MailInv'
<1>1. smtp \in [enabled : BOOLEAN, etag : Nat]
  BY DEF MailInv, MailTypes
<1>2. ASSUME NEW m \in wire, RelayAccepts(m) \/ RelayDrops(m)
      PROVE  MailInv'
  BY <1>2, RelayStep DEF RelayAccepts, RelayDrops
<1>3. ASSUME NEW s \in Senders, Stop(s)
      PROVE  MailInv'
  BY <1>3, LeaveStep DEF Stop
<1>4. ASSUME NEW enabled \in BOOLEAN, WriteSMTPSettings(enabled)
      PROVE  MailInv'
  <2>1. smtp' \in [enabled : BOOLEAN, etag : Nat]
    BY <1>1, <1>4 DEF WriteSMTPSettings
  <2>2. QED
    BY <1>4, <2>1, QuietStep DEF WriteSMTPSettings
<1>5. WriteSMTPSender => \E enabled \in BOOLEAN : WriteSMTPSettings(enabled)
  BY <1>1 DEF WriteSMTPSender
<1>6. QED
  BY <1>2, <1>3, <1>4, <1>5 DEF Surroundings

\* The board and the warnings touch the mail only by writing new rows.
LEMMA ProjectStep ==
  ASSUME MailInv, NEW b, Project(b)
  PROVE  MailInv'
<1>1. Test \notin Intents(b.occ \ board.occ, Operators)
  BY MailAssumption DEF Intents, Operators, Test
<1>2. QED
  BY <1>1, IntentStep DEF Project

\* A transaction begins by reading.
LEMMA SomeReading ==
  readFacts \/ readProviderQuality \/ readEpisodes \/ readPolicy => \E t : Reads(t)
<1>1. readFacts => \E t : Reads(t)
  BY DEF readFacts
<1>2. readProviderQuality => \E t : Reads(t)
  BY DEF readProviderQuality
<1>3. readEpisodes => \E t : Reads(t)
  BY DEF readEpisodes
<1>4. readPolicy => \E t : Reads(t)
  BY DEF readPolicy
<1>5. QED
  BY <1>1, <1>2, <1>3, <1>4

LEMMA BoardStep ==
  ASSUME MailInv, Board
  PROVE  MailInv'
<1>1. UNCHANGED mailVars => MailInv'
  BY QuietStep DEF mailVars, MailInv, MailTypes
<1>2. ASSUME NEW t \in Places, BecomesDurable(t)
      PROVE  MailInv'
  BY <1>1, <1>2 DEF BecomesDurable, Facts
<1>3. ASSUME NEW t, Reads(t) \/ Ends(t)
      PROVE  MailInv'
  BY <1>1, <1>3 DEF Reads, Ends
<1>4. ASSUME NEW w \in Places, NEW state \in AllStates, evaluateProviderQualityPolicy(w, state)
      PROVE  MailInv'
  BY <1>1, <1>4 DEF evaluateProviderQualityPolicy, Facts
<1>5. ASSUME NEW t, Reconcile(t)
      PROVE  MailInv'
  <2>1. \E b : Writes(t, b)
    BY <1>5 DEF Reconcile, reconcileFacts, reconcileProviderQualityNotifications,
                reconcileProviderQualityPolicyNotification, reconcileCredentialInferenceFailures,
                WriteProviderQualityPolicy
  <2>2. \E b : Project(b)
    BY <2>1 DEF Writes
  <2>3. QED
    BY <2>2, ProjectStep
<1>6. readFacts \/ readProviderQuality \/ readEpisodes \/ readPolicy => \E t : Reads(t)
  BY SomeReading
<1>7. ASSUME NEW result \in {"unknown", "success", "error"}, observeCredentialInferenceFailures(result)
      PROVE  MailInv'
  BY <1>7, ProjectStep DEF observeCredentialInferenceFailures
<1>8. ASSUME NEW to \in SUBSET Recipients, publishOffboardingCompletion(to)
      PROVE  MailInv'
  <2> DEFINE admitted == {r \in to : role[r] # "gone"}
  <2>1. Test \notin Intents({1}, admitted)
    BY MailAssumption DEF Intents, Test
  <2>2. /\ intent' = WithIntents(Intents({1}, admitted))
        /\ UNCHANGED <<smtp, test, sender, wire, mailed>>
    BY <1>8 DEF publishOffboardingCompletion
  <2>3. QED
    BY <2>1, <2>2, IntentStep
<1>9. CASE ListOperationalAlerts
  BY <1>1, <1>9 DEF ListOperationalAlerts
<1>10. ASSUME NEW state \in States, UpdateOperationalAlertState(state)
       PROVE  MailInv'
  BY <1>1, <1>10 DEF UpdateOperationalAlertState
<1>11. QED
  BY <1>2, <1>3, <1>4, <1>5, <1>6, <1>7, <1>8, <1>9, <1>10 DEF Board

LEMMA MailNext ==
  ASSUME MailInv, [Next]_vars
  PROVE  MailInv'
<1>1. UNCHANGED mailVars => MailInv'
  BY QuietStep DEF mailVars, MailInv, MailTypes
<1>2. CASE UNCHANGED vars
  BY <1>1, <1>2 DEF vars
<1>3. CASE People
  <2>1. UNCHANGED <<smtp, intent, test, sender, wire, mailed>>
    BY <1>3 DEF People, ChangeRole, WriteNotificationSettings
  <2>2. QED
    BY <2>1, QuietStep DEF MailInv, MailTypes
<1>4. CASE Resource
  <2>1. UNCHANGED <<smtp, intent, test, sender, wire, mailed>>
    BY <1>4 DEF Resource
  <2>2. QED
    BY <2>1, QuietStep DEF MailInv, MailTypes
<1>5. CASE Quota
  BY <1>1, <1>5 DEF Quota
<1>6. CASE Inbox
  BY <1>1, <1>6 DEF Inbox, MarkNotificationRead, MarkAllNotificationsRead
<1>7. CASE Expire
  BY <1>7, ExpireStep DEF Expire
<1>8. ASSUME NEW w \in Workers, Worker(w) \/ Claim(w)
      PROVE  MailInv'
  BY <1>8, WorkerStep, ClaimStep DEF Claim
<1>9. QED
  BY <1>2, <1>3, <1>4, <1>5, <1>6, <1>7, <1>8, TestMailStep, SurroundingsStep, BoardStep DEF Next

\* The rows, the workers and the relay agree about every mail, in every order of
\* claims, leases, stops and answers.
THEOREM MailInvariance == Spec => []MailInv
<1>1. Init => MailInv
  <2>1. (source \in Mailed) \in BOOLEAN
    OBVIOUS
  <2>2. QED
    BY <2>1, MailStart DEF Init
<1>2. MailInv /\ [Next]_vars => MailInv'
  BY MailNext
<1>3. QED
  BY <1>1, <1>2, PTL DEF Spec

LEMMA TruthOfSends ==
  ASSUME OneSend, NEW id, NEW status,
         status \in {"pending", "retry", "failed"} => Unsent(id),
         status = "accepted" => Arrived(id)
  PROVE  Told(id, status)
<1> DEFINE sends == Received(id) \union OnTheWay(id)
<1>1. \A m \in sends : m \in wire \union mailed /\ m[1] = id
  BY DEF Received, OnTheWay
<1>2. sends = {} \/ \E m : sends = {m}
  BY <1>1 DEF OneSend
<1>3. Cardinality(sends) <= 1
  <2> HIDE DEF sends
  <2>1. CASE sends = {}
    BY <2>1, FS_EmptySet
  <2>2. ASSUME NEW m, sends = {m}
        PROVE  Cardinality(sends) <= 1
    <3>1. Cardinality({m}) = 1
      BY FS_Singleton
    <3>2. QED
      BY <2>2, <3>1
  <2>3. QED
    BY <1>2, <2>1, <2>2
<1>4. status = "accepted" => Received(id) # {}
  BY DEF Arrived, Received
<1>5. Unsent(id) => sends = {}
  BY <1>1 DEF Unsent
<1>6. QED
  BY <1>3, <1>4, <1>5 DEF Told

\* What the rows and the view of the test say of a mail is true: none is sent twice,
\* an accepted one arrived, and one that failed or will be tried again never went out
\* (claimNotificationDelivery, finishNotificationDelivery, FlushNotificationDelivery).
THEOREM MailTold == Spec => []MailTruth
<1>1. MailInv => MailTruth
  <2> SUFFICES ASSUME MailInv PROVE MailTruth
    OBVIOUS
  <2>1. \A i \in DOMAIN intent : Told(i, intent[i].status)
    BY TruthOfSends DEF MailInv, RowInv
  <2>2. ASSUME NEW v \in smtpTestView \ {"pending"}
        PROVE  Told(Test, v)
    <3>1. v = "unknown" \/ v = test
      BY <2>2 DEF smtpTestView
    <3>2. QED
      BY <2>2, <3>1, TruthOfSends DEF MailInv, TestInv, MailTypes, Terminal
  <2>3. QED
    BY <2>1, <2>2 DEF MailTruth
<1>2. QED
  BY <1>1, MailInvariance, PTL

-----------------------------------------------------------------------------
(* Warnings: the steps.                                                    *)
LEMMA WarningStart ==
  ASSUME WarningInit
  PROVE  WarningInv
<1>1. /\ limit \in [cap : Nat, revision : Nat, reset : Nat] /\ limit.reset = 0
      /\ rolling = NoState /\ trail = <<>> /\ warned = {}
  BY WarningAssumption DEF WarningInit
<1>2. Len(trail) = 0 /\ DOMAIN trail = {} /\ 1 .. Len(trail) = {} /\ trail \in Seq(Seen)
  BY <1>1
<1>3. WarningTypes
  BY <1>1, <1>2 DEF WarningTypes, NoState
<1>4. LastInv /\ ReviewInv /\ EpisodeInv
  BY <1>1, <1>2 DEF LastInv, ReviewInv, EpisodeInv, NoState
<1>5. WarnedOnce
  BY <1>1, <1>2 DEF WarnedOnce
<1>6. QED
  BY <1>3, <1>4, <1>5 DEF WarningInv

LEMMA TrailKept ==
  ASSUME UNCHANGED <<rolling, trail>>, LastInv, EpisodeInv
  PROVE  /\ LastInv' /\ EpisodeInv'
         /\ \A i, j : OneEpisode(i, j)' <=> OneEpisode(i, j)
<1>1. LastInv'
  BY DEF LastInv
<1>2. \A k : Rearmed(k)' <=> Rearmed(k)
  BY DEF Rearmed
<1>3. \A i, j : OneEpisode(i, j)' <=> OneEpisode(i, j)
  BY <1>2 DEF OneEpisode
<1>4. EpisodeInv'
  BY <1>3 DEF EpisodeInv
<1>5. QED
  BY <1>1, <1>3, <1>4

\* A step that adds no notice, reaches no state row and leaves the limit alone.
LEMMA SilentStep ==
  ASSUME WarningInv, UNCHANGED <<account, limit, noticeVars>>
  PROVE  WarningInv'
<1>1. UNCHANGED <<account, limit, rolling, trail, warned>>
  BY DEF noticeVars
<1>2. WarningTypes' /\ ReviewInv'
  BY <1>1 DEF WarningInv, WarningTypes, ReviewInv
<1>3. /\ LastInv' /\ EpisodeInv'
      /\ \A i, j : OneEpisode(i, j)' <=> OneEpisode(i, j)
  BY <1>1, TrailKept DEF WarningInv
<1>4. WarnedOnce'
  BY <1>1, <1>3 DEF WarningInv, WarnedOnce, Same
<1>5. QED
  BY <1>2, <1>3, <1>4 DEF WarningInv

\* A new limit is a new revision; a review is remembered as that revision.
LEMMA LimitStep ==
  ASSUME WarningInv, NEW cap \in Caps, NEW reviewed \in BOOLEAN, SaveLimit(cap, reviewed)
  PROVE  WarningInv'
<1>1. /\ limit' = [cap |-> cap, revision |-> limit.revision + 1,
                   reset |-> IF reviewed THEN limit.revision + 1 ELSE 0]
      /\ UNCHANGED <<account, rolling, trail, warned>>
  BY DEF SaveLimit, noticeVars
<1>2. limit \in [cap : Nat, revision : Nat, reset : Nat] /\ rolling.reset \in Nat
  BY DEF WarningInv, WarningTypes
<1>3. WarningTypes'
  BY <1>1, <1>2, WarningAssumption DEF WarningInv, WarningTypes
<1>4. ReviewInv'
  BY <1>1, <1>2 DEF WarningInv, ReviewInv
<1>5. /\ LastInv' /\ EpisodeInv'
      /\ \A i, j : OneEpisode(i, j)' <=> OneEpisode(i, j)
  BY <1>1, TrailKept DEF WarningInv
<1>6. WarnedOnce'
  BY <1>1, <1>5 DEF WarningInv, WarnedOnce, Same
<1>7. QED
  BY <1>3, <1>4, <1>5, <1>6 DEF WarningInv

\* A notice of a month is written only where there is none like it.
LEMMA MonthStep ==
  ASSUME WarningInv, UNCHANGED <<account, limit>>, account[2] # "rolling",
         NEW os, NEW to, persistQuotaNotification(os, to)
  PROVE  WarningInv'
<1>1. /\ UNCHANGED <<rolling, trail>>
      /\ warned' = warned \union
           {[level |-> o.level, month |-> o.month, revision |-> o.revision, to |-> to] :
              o \in {o \in os : to # {} /\ ~ \E w \in warned : Same(w, o)}}
  BY DEF persistQuotaNotification
<1>2. WarningTypes' /\ ReviewInv'
  BY <1>1 DEF WarningInv, WarningTypes, ReviewInv
<1>3. /\ LastInv' /\ EpisodeInv'
      /\ \A i, j : OneEpisode(i, j)' <=> OneEpisode(i, j)
  BY <1>1, TrailKept DEF WarningInv
<1>4. \A v, w \in warned' : Same(v, w) => v = w
  <2>1. \A v, w \in warned : Same(v, w) => v = w
    BY DEF WarningInv, WarnedOnce
  <2>2. \A v \in warned' : v \in warned \/ \E o \in os :
          /\ v = [level |-> o.level, month |-> o.month, revision |-> o.revision, to |-> to]
          /\ ~ \E w \in warned : Same(w, o)
    BY <1>1
  <2>3. QED
    BY <2>1, <2>2 DEF Same
<1>5. WarnedOnce'
  <2>1. /\ trail' = trail /\ account' = account
    BY <1>1
  <2>2. QED
    BY <1>3, <1>4, <2>1 DEF WarningInv, WarnedOnce
<1>6. QED
  BY <1>2, <1>3, <1>5 DEF WarningInv

\* One sample more: the episodes of the earlier ones stay, and the last one goes on
\* unless the sample begins another.
LEMMA Appended ==
  ASSUME trail \in Seq(Seen), NEW e \in Seen, trail' = Append(trail, e),
         NEW n, n = Len(trail)
  PROVE  /\ n \in Nat /\ trail' \in Seq(Seen) /\ Len(trail') = n + 1
         /\ DOMAIN trail = 1 .. n /\ DOMAIN trail' = 1 .. n + 1
         /\ \A k \in 1 .. n : trail'[k] = trail[k] /\ trail[k] \in Seen
         /\ trail'[n + 1] = e
         /\ \A i, j \in 1 .. n : OneEpisode(i, j)' <=> OneEpisode(i, j)
         /\ \A i \in 1 .. n : OneEpisode(i, n + 1)' <=> OneEpisode(i, n) /\ ~Rearmed(n + 1)'
         /\ OneEpisode(n + 1, n + 1)'
         /\ n = 0 => Rearmed(n + 1)'
         /\ n > 0 => (Rearmed(n + 1)' <=>
              \/ e.level = "" \/ e.cap # trail[n].cap
              \/ e.reset # 0 /\ \A j \in 1 .. n : trail[j].reset # e.reset)
<1>1. /\ n \in Nat /\ trail' \in Seq(Seen) /\ Len(trail') = n + 1
      /\ DOMAIN trail = 1 .. n /\ DOMAIN trail' = 1 .. n + 1
      /\ \A k \in 1 .. n : trail'[k] = trail[k] /\ trail[k] \in Seen
      /\ trail'[n + 1] = e
  OBVIOUS
<1>2. \A k \in 1 .. n : Rearmed(k)' <=> Rearmed(k)
  <2> SUFFICES ASSUME NEW k \in 1 .. n PROVE Rearmed(k)' <=> Rearmed(k)
    OBVIOUS
  <2>1. trail'[k] = trail[k] /\ k \in Nat
    BY <1>1
  <2>2. k # 1 => k - 1 \in 1 .. n /\ trail'[k - 1] = trail[k - 1]
    BY <1>1
  <2>3. \A j \in 1 .. k - 1 : trail'[j] = trail[j]
    BY <1>1
  <2>4. QED
    BY <2>1, <2>2, <2>3 DEF Rearmed
<1>3. \A i, j \in 1 .. n : OneEpisode(i, j)' <=> OneEpisode(i, j)
  <2>1. \A i, j \in 1 .. n : \A k \in i + 1 .. j : k \in 1 .. n
    BY <1>1
  <2>2. QED
    BY <1>2, <2>1 DEF OneEpisode
<1>4. \A i \in 1 .. n : OneEpisode(i, n + 1)' <=> OneEpisode(i, n) /\ ~Rearmed(n + 1)'
  <2> SUFFICES ASSUME NEW i \in 1 .. n
               PROVE  OneEpisode(i, n + 1)' <=> OneEpisode(i, n) /\ ~Rearmed(n + 1)'
    OBVIOUS
  <2>1. i + 1 .. n + 1 = (i + 1 .. n) \union {n + 1} /\ \A k \in i + 1 .. n : k \in 1 .. n
    BY <1>1
  <2>2. QED
    BY <1>2, <2>1 DEF OneEpisode
<1>5. OneEpisode(n + 1, n + 1)'
  BY <1>1 DEF OneEpisode
<1>6. n = 0 => Rearmed(n + 1)'
  BY DEF Rearmed
<1>7. n > 0 => (Rearmed(n + 1)' <=>
        \/ e.level = "" \/ e.cap # trail[n].cap
        \/ e.reset # 0 /\ \A j \in 1 .. n : trail[j].reset # e.reset)
  <2> SUFFICES ASSUME n > 0
               PROVE  Rearmed(n + 1)' <=>
                        \/ e.level = "" \/ e.cap # trail[n].cap
                        \/ e.reset # 0 /\ \A j \in 1 .. n : trail[j].reset # e.reset
    OBVIOUS
  <2>1. n + 1 # 1 /\ (n + 1) - 1 = n /\ trail'[n] = trail[n] /\ trail'[n + 1] = e
    BY <1>1
  <2>2. QED
    BY <1>1, <2>1 DEF Rearmed
<1>8. QED
  BY <1>1, <1>3, <1>4, <1>5, <1>6, <1>7

\* The lower threshold is never reached without a limit.
LEMMA LevelMarks ==
  ASSUME NEW used \in Nat, NEW cap \in Nat
  PROVE  /\ personalRollingWarningLevel(used, cap) \in Marks
         /\ cap = 0 => personalRollingWarningLevel(used, cap) = ""
BY DEF personalRollingWarningLevel, quotaWarningLevel, Marks

\* A newer sample reaches the state row (advancePersonalRollingWarning).
LEMMA SampleStep ==
  ASSUME WarningInv, UNCHANGED <<account, limit>>, account[2] = "rolling",
         NEW s, s.at \in Nat, s.used \in Nat, s.cap = limit.cap, s.reset = limit.reset,
         s.at > rolling.at,
         NEW after, after = advancePersonalRollingWarning(rolling, s),
         rolling' = after.state,
         trail' = Append(trail, [at |-> s.at, cap |-> s.cap, reset |-> s.reset, sent |-> after.sent,
                                 level |-> personalRollingWarningLevel(s.used, s.cap)])
  PROVE  WarningInv'
<1> DEFINE changed == ~ rolling.known \/ rolling.cap # s.cap \/ NewReview(rolling, s)
           level == personalRollingWarningLevel(s.used, s.cap)
           over == changed \/ (s.cap > 0 /\ level = "")
           near == rolling.near /\ ~ over
           critical == rolling.critical /\ ~ over
           sent == IF (level = "near" /\ near) \/ (level = "critical" /\ critical) THEN "" ELSE level
           nearAfter == near \/ sent # ""
           criticalAfter == critical \/ sent = "critical"
<1> HIDE DEF changed, level, over, near, critical, sent, nearAfter, criticalAfter
<1>1. WarningTypes /\ LastInv /\ ReviewInv /\ EpisodeInv /\ WarnedOnce
  BY DEF WarningInv
<1>2. /\ after.sent = sent
      /\ after.state = [known |-> TRUE, cap |-> s.cap, at |-> s.at,
                        reset |-> IF s.reset # 0 THEN s.reset ELSE rolling.reset,
                        near |-> near \/ sent # "", critical |-> critical \/ sent = "critical"]
  BY DEF advancePersonalRollingWarning, changed, level, over, near, critical, sent
<1>3. /\ s.cap \in Nat /\ s.reset \in Nat /\ limit.revision \in Nat /\ rolling.reset \in Nat
      /\ rolling.at \in Nat /\ rolling.known \in BOOLEAN
      /\ rolling.near \in BOOLEAN /\ rolling.critical \in BOOLEAN
  BY <1>1 DEF WarningTypes
<1>4. /\ level \in {"", "near", "critical"} /\ sent \in {"", level}
      /\ s.cap = 0 => level = ""
  BY <1>3, LevelMarks DEF level, sent, Marks
<1>5. PICK e \in Seen : /\ e.at = s.at /\ e.cap = s.cap /\ e.reset = s.reset
                       /\ e.sent = sent /\ e.level = level
                       /\ trail' = Append(trail, e)
  <2> DEFINE x == [at |-> s.at, cap |-> s.cap, reset |-> s.reset, sent |-> sent, level |-> level]
  <2>1. x \in Seen
    BY <1>3, <1>4 DEF Seen, Marks
  <2>2. trail' = Append(trail, x)
    BY <1>2 DEF level
  <2>3. QED
    BY <2>1, <2>2
<1>6. PICK n \in Nat : n = Len(trail)
  BY <1>1 DEF WarningTypes
<1>7. /\ rolling' = [known |-> TRUE, cap |-> s.cap, at |-> s.at,
                      reset |-> IF s.reset # 0 THEN s.reset ELSE rolling.reset,
                      near |-> nearAfter, critical |-> criticalAfter]
      /\ nearAfter \in BOOLEAN /\ criticalAfter \in BOOLEAN
  BY <1>2 DEF nearAfter, criticalAfter
<1>8. /\ rolling'.known /\ rolling'.cap = s.cap /\ rolling'.at = s.at
      /\ rolling'.reset = (IF s.reset # 0 THEN s.reset ELSE rolling.reset)
      /\ rolling'.near = nearAfter /\ rolling'.critical = criticalAfter
      /\ rolling' \in [known : BOOLEAN, cap : Nat, reset : Nat, at : Nat,
                       near : BOOLEAN, critical : BOOLEAN]
  BY <1>3, <1>7
<1>9. /\ n \in Nat /\ trail' \in Seq(Seen) /\ Len(trail') = n + 1
      /\ DOMAIN trail = 1 .. n /\ DOMAIN trail' = 1 .. n + 1
      /\ \A k \in 1 .. n : trail'[k] = trail[k] /\ trail[k] \in Seen
      /\ trail'[n + 1] = e
  BY <1>1, <1>5, <1>6 DEF WarningTypes
<1>10. /\ \A i, j \in 1 .. n : OneEpisode(i, j)' <=> OneEpisode(i, j)
       /\ \A i \in 1 .. n : OneEpisode(i, n + 1)' <=> OneEpisode(i, n) /\ ~Rearmed(n + 1)'
       /\ OneEpisode(n + 1, n + 1)'
       /\ n = 0 => Rearmed(n + 1)'
       /\ n > 0 => (Rearmed(n + 1)' <=>
            \/ e.level = "" \/ e.cap # trail[n].cap
            \/ e.reset # 0 /\ \A j \in 1 .. n : trail[j].reset # e.reset)
  <2>1. trail \in Seq(Seen)
    BY <1>1 DEF WarningTypes
  <2>2. QED
    BY <1>5, <1>6, <2>1, Appended
<1>11. rolling.known <=> n > 0
  <2>1. trail # <<>> <=> n > 0
    BY <1>1, <1>6 DEF WarningTypes
  <2>2. QED
    BY <1>1, <2>1 DEF LastInv
<1>12. NewReview(rolling, s) <=> s.reset # 0 /\ \A j \in 1 .. n : trail[j].reset # s.reset
  <2>1. ASSUME NewReview(rolling, s), NEW j \in 1 .. n, trail[j].reset = s.reset
        PROVE  FALSE
    <3>1. s.reset = limit.revision /\ s.reset # rolling.reset
      BY <1>1, <2>1 DEF ReviewInv, NewReview
    <3>2. s.reset <= rolling.reset /\ rolling.reset <= limit.revision
      BY <1>1, <1>6, <2>1 DEF ReviewInv
    <3>3. QED
      BY <1>3, <3>1, <3>2
  <2>2. ASSUME s.reset # 0, s.reset = rolling.reset
        PROVE  \E j \in 1 .. n : trail[j].reset = s.reset
    BY <1>1, <1>6, <2>2 DEF ReviewInv
  <2>3. QED
    BY <2>1, <2>2 DEF NewReview
<1>13. Rearmed(n + 1)' <=> changed \/ level = ""
  <2>1. CASE n = 0
    <3>1. changed
      BY <1>11, <2>1 DEF changed
    <3>2. QED
      BY <1>10, <2>1, <3>1
  <2>2. CASE n > 0
    <3>1. rolling.known /\ rolling.cap = trail[n].cap
      BY <1>1, <1>6, <1>11, <2>2 DEF LastInv
    <3>2. QED
      BY <1>5, <1>10, <1>12, <2>2, <3>1 DEF changed
  <2>3. n = 0 \/ n > 0
    BY <1>6
  <2>4. QED
    BY <2>1, <2>2, <2>3
<1>14. /\ changed \/ level = "" => ~near /\ ~critical
       /\ ~(changed \/ level = "") => (near <=> rolling.near) /\ (critical <=> rolling.critical)
  <2>1. CASE s.cap = 0 /\ ~changed
    <3>1. rolling.cap = 0
      BY <2>1 DEF changed
    <3>2. ~rolling.near /\ ~rolling.critical /\ level = ""
      BY <1>1, <1>4, <2>1, <3>1 DEF EpisodeInv
    <3>3. QED
      BY <3>2 DEF near, critical
  <2>2. CASE s.cap > 0 \/ changed
    BY <1>3, <2>2 DEF near, critical, over
  <2>3. s.cap = 0 \/ s.cap > 0
    BY <1>3
  <2>4. QED
    BY <2>1, <2>2, <2>3
<1>15. ReviewInv'
  <2>1. /\ s.reset \in {0, limit.revision} /\ rolling.reset <= limit.revision
        /\ \A k \in 1 .. n : trail[k].reset <= rolling.reset
        /\ rolling.reset # 0 => \E k \in 1 .. n : trail[k].reset = rolling.reset
    BY <1>1, <1>6 DEF ReviewInv
  <2>2. PICK now \in Nat : now = rolling'.reset
    BY <1>8
  <2>3. now <= limit.revision /\ rolling.reset <= now /\ s.reset <= now
    BY <1>3, <1>8, <2>1, <2>2
  <2>4. \A k \in 1 .. n + 1 : trail'[k].reset <= now
    <3> SUFFICES ASSUME NEW k \in 1 .. n + 1 PROVE trail'[k].reset <= now
      OBVIOUS
    <3>1. CASE k = n + 1
      BY <1>5, <1>9, <2>3, <3>1
    <3>2. CASE k \in 1 .. n
      <4>1. trail'[k] = trail[k] /\ trail[k].reset \in Nat /\ trail[k].reset <= rolling.reset
        BY <1>9, <2>1, <3>2 DEF Seen
      <4>2. trail'[k].reset \in Nat /\ trail'[k].reset <= rolling.reset
        BY <4>1
      <4>3. \A x, y \in Nat : x <= y /\ y <= now => x <= now
        BY <2>2
      <4>4. QED
        BY <1>3, <2>3, <4>2, <4>3
    <3>3. QED
      BY <1>6, <3>1, <3>2
  <2>5. now # 0 => \E k \in 1 .. n + 1 : trail'[k].reset = now
    <3>1. CASE s.reset # 0
      <4>1. n + 1 \in 1 .. n + 1 /\ trail'[n + 1].reset = now
        BY <1>5, <1>6, <1>8, <1>9, <2>2, <3>1
      <4>2. QED
        BY <4>1
    <3>2. ASSUME s.reset = 0, now # 0
          PROVE  \E k \in 1 .. n + 1 : trail'[k].reset = now
      <4>1. PICK k \in 1 .. n : trail[k].reset = now
        BY <1>8, <2>1, <2>2, <3>2
      <4>2. k \in 1 .. n + 1 /\ trail'[k].reset = now
        BY <1>6, <1>9, <4>1
      <4>3. QED
        BY <4>2
    <3>3. QED
      BY <3>1, <3>2
  <2>6. QED
    BY <1>9, <2>1, <2>2, <2>3, <2>4, <2>5 DEF ReviewInv
<1>16. WarningTypes' /\ LastInv'
  <2>1. WarningTypes'
    BY <1>1, <1>8, <1>9 DEF WarningTypes
  <2>2. trail' # <<>>
    BY <1>6, <1>9
  <2>3. QED
    BY <1>5, <1>8, <1>9, <2>1, <2>2 DEF LastInv
<1>17. /\ rolling.near <=> \E i \in 1 .. n : trail[i].sent # "" /\ OneEpisode(i, n)
       /\ rolling.critical <=> \E i \in 1 .. n : trail[i].sent = "critical" /\ OneEpisode(i, n)
  BY <1>1, <1>6 DEF EpisodeInv
<1>18. /\ \A i \in 1 .. n : OneEpisode(i, n + 1)' <=> OneEpisode(i, n) /\ ~(changed \/ level = "")
       /\ \A i \in 1 .. n + 1 : i = n + 1 \/ i \in 1 .. n
       /\ \A i \in 1 .. n : i \in 1 .. n + 1 /\ i # n + 1
       /\ n + 1 \in 1 .. n + 1
  <2>1. \A i \in 1 .. n : OneEpisode(i, n + 1)' <=> OneEpisode(i, n) /\ ~(changed \/ level = "")
    BY <1>10, <1>13
  <2>2. /\ \A i \in 1 .. n + 1 : i = n + 1 \/ i \in 1 .. n
        /\ \A i \in 1 .. n : i \in 1 .. n + 1 /\ i # n + 1
        /\ n + 1 \in 1 .. n + 1
    BY <1>6
  <2>3. QED
    BY <2>1, <2>2
<1>19. EpisodeInv'
  <2>1. nearAfter <=> \E i \in 1 .. n + 1 : trail'[i].sent # "" /\ OneEpisode(i, n + 1)'
    BY <1>5, <1>9, <1>10, <1>14, <1>17, <1>18 DEF nearAfter
  <2>2. criticalAfter <=> \E i \in 1 .. n + 1 : trail'[i].sent = "critical" /\ OneEpisode(i, n + 1)'
    BY <1>5, <1>9, <1>10, <1>14, <1>17, <1>18 DEF criticalAfter
  <2>3. s.cap = 0 => ~nearAfter /\ ~criticalAfter
    BY <1>4, <1>14 DEF nearAfter, criticalAfter
  <2>4. Len(trail') = n + 1
    BY <1>9
  <2>5. QED
    BY <1>8, <2>1, <2>2, <2>3, <2>4 DEF EpisodeInv
<1>20. WarnedOnce'
  <2>1. ASSUME NEW i \in 1 .. n + 1, NEW j \in 1 .. n + 1, i < j
        PROVE  /\ trail'[i].at < trail'[j].at
               /\ OneEpisode(i, j)' => trail'[j].sent \notin {trail'[i].sent} \ {""}
               /\ OneEpisode(i, j)' /\ trail'[i].sent = "critical" => trail'[j].sent # "near"
    <3>1. i \in 1 .. n
      BY <1>6, <2>1
    <3>2. CASE j \in 1 .. n
      <4>1. /\ trail[i].at < trail[j].at
            /\ OneEpisode(i, j) => trail[j].sent \notin {trail[i].sent} \ {""}
            /\ OneEpisode(i, j) /\ trail[i].sent = "critical" => trail[j].sent # "near"
        BY <1>1, <1>9, <2>1, <3>1, <3>2 DEF WarnedOnce
      <4>2. trail'[i] = trail[i] /\ trail'[j] = trail[j] /\ (OneEpisode(i, j)' <=> OneEpisode(i, j))
        BY <1>9, <1>10, <3>1, <3>2
      <4>3. QED
        BY <4>1, <4>2
    <3>3. CASE j = n + 1
      <4>1. n > 0 /\ n \in 1 .. n
        BY <1>6, <3>1
      <4>2. /\ trail[n].at = rolling.at /\ trail[i].at \in Nat
            /\ trail'[i] = trail[i] /\ trail'[j] = e
        BY <1>1, <1>6, <1>9, <1>11, <3>1, <3>3, <4>1 DEF LastInv, Seen
      <4>3. trail[i].at <= rolling.at
        <5>1. CASE i = n
          BY <1>3, <4>2, <5>1
        <5>2. CASE i < n
          <6>1. trail[i].at < trail[n].at
            BY <1>1, <1>9, <3>1, <4>1, <5>2 DEF WarnedOnce
          <6>2. QED
            BY <1>3, <4>2, <6>1
        <5>3. QED
          BY <1>6, <3>1, <5>1, <5>2
      <4>4. trail'[i].at < trail'[j].at
        <5>1. trail'[i].at \in Nat /\ trail'[i].at <= rolling.at /\ trail'[j].at = s.at
          BY <1>5, <4>2, <4>3
        <5>2. \A x, y, z \in Nat : x <= y /\ z > y => x < z
          OBVIOUS
        <5>3. QED
          BY <1>3, <5>1, <5>2
      <4>5. ASSUME OneEpisode(i, j)'
            PROVE  /\ trail'[j].sent \notin {trail'[i].sent} \ {""}
                   /\ trail'[i].sent = "critical" => trail'[j].sent # "near"
        <5>1. OneEpisode(i, n) /\ ~(changed \/ level = "")
          BY <1>18, <3>1, <3>3, <4>5
        <5>2. /\ trail[i].sent # "" => near
              /\ trail[i].sent = "critical" => critical
          BY <1>14, <1>17, <3>1, <5>1
        <5>3. /\ sent = "near" => ~near
              /\ sent = "critical" => ~critical
          BY DEF sent
        <5>4. sent \in {"", "near", "critical"}
          BY <1>4
        <5>5. QED
          BY <1>5, <4>2, <5>2, <5>3, <5>4
      <4>6. QED
        BY <4>4, <4>5
    <3>4. QED
      BY <1>18, <3>2, <3>3
  <2>2. ASSUME NEW j \in 1 .. n + 1, trail'[j].level # ""
        PROVE  \E i \in 1 .. j : trail'[i].sent \in {trail'[j].level, "critical"} /\ OneEpisode(i, j)'
    <3>1. CASE j \in 1 .. n
      <4>1. trail'[j] = trail[j]
        BY <1>9, <3>1
      <4>2. PICK i \in 1 .. j : trail[i].sent \in {trail[j].level, "critical"} /\ OneEpisode(i, j)
        BY <1>1, <1>9, <2>2, <3>1, <4>1 DEF WarnedOnce
      <4>3. i \in 1 .. n
        BY <1>6, <3>1, <4>2
      <4>4. trail'[i] = trail[i] /\ OneEpisode(i, j)'
        BY <1>9, <1>10, <3>1, <4>2, <4>3
      <4>5. QED
        BY <4>1, <4>2, <4>4
    <3>2. CASE j = n + 1
      <4>1. trail'[j] = e /\ level # ""
        BY <1>5, <1>9, <2>2, <3>2
      <4>2. CASE sent = level
        <5>1. j \in 1 .. j /\ OneEpisode(j, j)'
          BY <1>6, <1>10, <3>2
        <5>2. QED
          BY <1>5, <4>1, <4>2, <5>1
      <4>3. CASE sent # level
        <5>1. (level = "near" /\ near) \/ (level = "critical" /\ critical)
          BY <4>3 DEF sent
        <5>2. ~(changed \/ level = "")
          BY <1>14, <5>1
        <5>3. PICK i \in 1 .. n : trail[i].sent \in {level, "critical"} /\ OneEpisode(i, n)
          <6>1. \A i \in 1 .. n : trail[i].sent \in {"", "near", "critical"}
            BY <1>9 DEF Seen, Marks
          <6>2. QED
            BY <1>14, <1>17, <5>1, <5>2, <6>1
        <5>4. OneEpisode(i, j)' /\ trail'[i] = trail[i]
          BY <1>9, <1>18, <3>2, <5>2, <5>3
        <5>5. i \in 1 .. j
          BY <1>6, <3>2
        <5>6. QED
          BY <1>5, <4>1, <5>3, <5>4, <5>5
      <4>4. QED
        BY <4>2, <4>3
    <3>3. QED
      BY <1>18, <3>1, <3>2
  <2>3. account' = account /\ account'[2] = "rolling" /\ DOMAIN trail' = 1 .. n + 1
    BY <1>9
  <2>4. QED
    BY <2>1, <2>2, <2>3 DEF WarnedOnce
<1>21. QED
  BY <1>15, <1>16, <1>19, <1>20 DEF WarningInv

LEMMA RollingStep ==
  ASSUME WarningInv, UNCHANGED <<account, limit>>, account[2] = "rolling",
         NEW x \in Sample, NEW ss, ss \subseteq personalRollingWarningSamples(x),
         NEW to, persistPersonalRollingWarning(ss, to)
  PROVE  WarningInv'
<1>1. CASE UNCHANGED noticeVars
  BY <1>1, SilentStep
<1>2. CASE /\ \E s \in ss : Newer(s) /\ to # {}
           /\ LET s == CHOOSE s \in ss : TRUE
                  next == advancePersonalRollingWarning(rolling, s)
              IN /\ rolling' = next.state
                 /\ trail' = Append(trail, [at |-> s.at, cap |-> s.cap, reset |-> s.reset, sent |-> next.sent,
                                            level |-> personalRollingWarningLevel(s.used, s.cap)])
  <2>1. PICK s : s = CHOOSE y \in ss : TRUE
    OBVIOUS
  <2>2. PICK after : after = advancePersonalRollingWarning(rolling, s)
    OBVIOUS
  <2>3. s \in ss
    BY <1>2, <2>1
  <2>4. \A y \in ss : y = [at |-> x.at, used |-> x.used, cap |-> limit.cap, reset |-> limit.reset]
    BY DEF personalRollingWarningSamples
  <2>5. x.at \in Nat /\ x.used \in Nat
    BY WarningAssumption DEF Sample
  <2>6. /\ s.at \in Nat /\ s.used \in Nat /\ s.cap = limit.cap /\ s.reset = limit.reset
    BY <2>3, <2>4, <2>5
  <2>7. s.at > rolling.at
    BY <1>2, <2>3, <2>4 DEF Newer
  <2>8. /\ rolling' = after.state
        /\ trail' = Append(trail, [at |-> s.at, cap |-> s.cap, reset |-> s.reset, sent |-> after.sent,
                                   level |-> personalRollingWarningLevel(s.used, s.cap)])
    BY <1>2, <2>1, <2>2
  <2>9. QED
    BY <2>2, <2>6, <2>7, <2>8, SampleStep
<1>3. QED
  BY <1>1, <1>2 DEF persistPersonalRollingWarning

\* An observation that begins writes nothing; what commits is under the lock, so
\* neither the account nor its limit moves.
LEMMA MonthlyObservation ==
  ASSUME WarningInv, NEW scope, NEW family, family # "rolling", NEW to,
         account = <<scope, family>>,
         \/ UNCHANGED <<resourceVars, noticeVars>>
         \/ UNCHANGED resourceVars /\ \E os : persistQuotaNotification(os, to)
  PROVE  WarningInv'
<1>1. UNCHANGED <<account, limit>> /\ account[2] # "rolling"
  BY DEF resourceVars
<1>2. QED
  BY <1>1, SilentStep, MonthStep

LEMMA RollingObservation ==
  ASSUME WarningInv, NEW scope, NEW to, account = <<scope, "rolling">>,
         \/ UNCHANGED <<resourceVars, noticeVars>>
         \/ /\ UNCHANGED resourceVars
            /\ \E x \in Sample : \E ss \in SUBSET personalRollingWarningSamples(x) :
                 persistPersonalRollingWarning(ss, to)
  PROVE  WarningInv'
<1>1. UNCHANGED <<account, limit>> /\ account[2] = "rolling"
  BY DEF resourceVars
<1>2. QED
  BY <1>1, SilentStep, RollingStep

LEMMA ObservationStep ==
  ASSUME WarningInv, ReconcileMonthlyQuotaNotifications
  PROVE  WarningInv'
<1>1. CASE observeMonthlyQuotaNotification
  BY <1>1, MonthlyObservation DEF observeMonthlyQuotaNotification, Observe, Begin, Commit
<1>2. CASE observeTeamMemberMonthlyQuotaNotification
  BY <1>2, MonthlyObservation DEF observeTeamMemberMonthlyQuotaNotification, Observe, Begin, Commit
<1>3. CASE observeMonthlyQuotaWarning
  BY <1>3, MonthlyObservation DEF observeMonthlyQuotaWarning, Observe, Begin, Commit, persistQuotaWarning
<1>4. CASE observeMonthlyTeamQuotaWarning
  BY <1>4, MonthlyObservation
     DEF observeMonthlyTeamQuotaWarning, Observe, Begin, Commit, persistTeamQuotaWarning
<1>5. CASE observeMonthlyProjectQuotaWarning
  BY <1>5, MonthlyObservation
     DEF observeMonthlyProjectQuotaWarning, Observe, Begin, Commit, persistProjectQuotaWarning
<1>6. CASE observeMonthlyTeamMemberQuotaWarning
  BY <1>6, MonthlyObservation
     DEF observeMonthlyTeamMemberQuotaWarning, Observe, Begin, Commit, persistTeamMemberQuotaWarning
<1>7. CASE observeMonthlyPersonalKeyQuotaWarning
  BY <1>7, MonthlyObservation
     DEF observeMonthlyPersonalKeyQuotaWarning, Observe, Begin, Commit, persistPersonalKeyQuotaWarning
<1>8. CASE observeMonthlyProjectKeyQuotaWarning
  BY <1>8, MonthlyObservation
     DEF observeMonthlyProjectKeyQuotaWarning, Observe, Begin, Commit, persistProjectKeyQuotaWarning
<1>9. CASE observePersonalRollingQuotaWarnings
  BY <1>9, RollingObservation DEF observePersonalRollingQuotaWarnings, Observe, Begin, Commit
<1>10. CASE observePersonalKeyRollingQuotaWarnings
  BY <1>10, RollingObservation
     DEF observePersonalKeyRollingQuotaWarnings, Observe, Begin, Commit,
         persistPersonalKeyRollingWarning, personalKeyRollingWarningSamples
<1>11. CASE observeTeamRollingQuotaWarnings
  BY <1>11, RollingObservation
     DEF observeTeamRollingQuotaWarnings, Observe, Begin, Commit,
         persistTeamRollingWarning, teamRollingWarningSamples
<1>12. CASE observeProjectRollingQuotaWarnings
  BY <1>12, RollingObservation
     DEF observeProjectRollingQuotaWarnings, Observe, Begin, Commit,
         persistProjectRollingWarning, projectRollingWarningSamples
<1>13. CASE observeProjectKeyRollingQuotaWarnings
  BY <1>13, RollingObservation
     DEF observeProjectKeyRollingQuotaWarnings, Observe, Begin, Commit,
         persistProjectKeyRollingWarning, projectKeyRollingWarningSamples, projectRollingWarningSamples
<1>14. QED
  BY <1>1, <1>2, <1>3, <1>4, <1>5, <1>6, <1>7, <1>8, <1>9, <1>10, <1>11, <1>12, <1>13
     DEF ReconcileMonthlyQuotaNotifications

LEMMA WarningNext ==
  ASSUME WarningInv, [Next]_vars
  PROVE  WarningInv'
<1>1. UNCHANGED warningVars => WarningInv'
  BY SilentStep DEF warningVars, noticeVars
<1>2. CASE UNCHANGED vars
  BY <1>1, <1>2 DEF vars
<1>3. CASE People \/ TestMail \/ Surroundings \/ Board \/ Inbox \/ Expire
  BY <1>1, <1>3 DEF People, TestMail, Surroundings, Board, Inbox, Expire,
                    MarkNotificationRead, MarkAllNotificationsRead
<1>4. ASSUME NEW w \in Workers, Worker(w) \/ Claim(w)
      PROVE  WarningInv'
  BY <1>1, <1>4 DEF Worker, Claim
<1>5. CASE Resource
  BY <1>5, SilentStep DEF Resource, ChangeResource
<1>6. CASE Quota
  <2>1. CASE ReconcileMonthlyQuotaNotifications
    BY <2>1, ObservationStep
  <2>2. ASSUME NEW cap \in Caps, NEW reviewed \in BOOLEAN, SaveLimit(cap, reviewed)
        PROVE  WarningInv'
    BY <2>2, LimitStep
  <2>3. CASE RollBack \/ Lapse \/ Refresh \/ \E r \in Recipients : Deny(r)
    BY <2>3, SilentStep DEF RollBack, Lapse, Refresh, Deny, resourceVars
  <2>4. QED
    BY <1>6, <2>1, <2>2, <2>3 DEF Quota
<1>7. QED
  BY <1>2, <1>3, <1>4, <1>5, <1>6 DEF Next

\* The marks of the state row and the reviews it remembers stand for everything that
\* was announced, in every order of samples, saves, publications and roll-backs.
THEOREM WarningInvariance == Spec => []WarningInv
<1>1. Init => WarningInv
  BY WarningStart DEF Init
<1>2. WarningInv /\ [Next]_vars => WarningInv'
  BY WarningNext
<1>3. QED
  BY <1>1, <1>2, PTL DEF Spec

\* Every level is announced once per episode, and no sample at a level goes
\* unannounced (advancePersonalRollingWarning, persistQuotaNotification).
THEOREM WarnedOnceAlways == Spec => []WarnedOnce
<1>1. WarningInv => WarnedOnce
  BY DEF WarningInv
<1>2. QED
  BY <1>1, WarningInvariance, PTL

-----------------------------------------------------------------------------
(* The board: the inductive invariant.                                     *)
Note == [count : Nat, latest : Nat, read : BOOLEAN]

IsBoard(b) ==
    /\ b = [alert |-> b.alert, shown |-> b.shown, count |-> b.count, latest |-> b.latest,
            occ |-> b.occ, notice |-> b.notice]
    /\ b.alert \in States \union {None} /\ b.shown \in BOOLEAN /\ b.latest \in Nat
    /\ b.occ \subseteq Nat \ {0} /\ IsFiniteSet(b.occ)
    /\ b.count = Cardinality(b.occ)
    /\ \E g \in b.occ \union {0} : \A o \in b.occ : o <= g
    /\ FindsAll =>
         IF b.occ = {} THEN b.latest = 0 ELSE b.latest \in b.occ /\ \A o \in b.occ : o <= b.latest
    /\ b.notice \in [DOMAIN b.notice -> Note]

SourceTypes ==
    /\ facts \subseteq Places
    /\ quality = [policy |-> quality.policy, etag |-> quality.etag, windows |-> quality.windows,
                  last |-> quality.last, state |-> quality.state]
    /\ DOMAIN quality.windows \subseteq Places
    /\ quality.windows \in [DOMAIN quality.windows -> [state : AllStates, etag : Nat]]
    /\ quality.etag \in Nat
    /\ infer \in [seq : Nat, fails : Nat, latched : BOOLEAN, success : Nat, trigger : Nat]
    /\ episodes \subseteq [seq : Nat \ {0}, success : Nat]
    /\ IsFiniteSet(episodes)

\* An operator whose ETag is the row's has seen every occurrence.
ViewTrue ==
    /\ view \in Nat
    /\ board.shown => source # "offboarding" /\ view = board.count

\* The run of failures that has not ended is the only one since its last success.
EpisodesTrue ==
    /\ infer.success <= infer.seq
    /\ \A e \in episodes :
         /\ e.success <= infer.success
         /\ e.success = infer.success => infer.latched /\ e.seq = infer.trigger

\* No two of these episodes have the same last success.
OneEach(E) == \A d, e \in E : d.success = e.success => d = e

Degraded == {w \in DOMAIN quality.windows : quality.windows[w].state = "degraded"}
Completed == {e.seq : e \in episodes}

\* What a transaction is about to record stands for facts, however long ago it read them.
IsBatch(q, S) == \E n \in Nat : q \in Orders(S, n)
Ready(t) ==
    /\ t.kind = "facts" => source \in Plain /\ t.latest \in Nat /\ IsBatch(t.todo, Nat \ {0})
    /\ t.kind = "episodes" => source = "inference" /\ IsBatch(t.todo, Completed)
    /\ t.kind = "degraded" =>
         /\ source = "quality" /\ t.latest \in Nat
         /\ isolation = "snapshot" => IsBatch(t.todo, Degraded)
    /\ t.kind \in {"recovered", "policy"} => source = "quality"
OpenTrue == \A t \in open : Ready(t)

BoardInv ==
    /\ IsBoard(board)
    /\ SourceTypes
    /\ ViewTrue
    /\ EpisodesTrue
    /\ OpenTrue
    /\ source = "quality" => board.occ \subseteq Degraded
    /\ source = "inference" => OneEach(episodes)

-----------------------------------------------------------------------------
(* Batches.  A batch has any length, so what it does to the board is shown *)
(* by induction over the facts already taken.  The induction schemes of    *)
(* the library take an operator as a parameter; these take a set.          *)
Less == {p \in Nat \X Nat : p[1] < p[2]}

LEMMA LessWellFounded == IsWellFoundedOn(Less, Nat)
  BY NatLessThanWellFounded DEF OpToRel, Less

\* A set of numbers has a least element.
LEMMA LeastNumber ==
  ASSUME NEW U \in SUBSET Nat, U # {}
  PROVE  \E x \in U : \A y \in U : x <= y
<1>1. PICK x \in U : \A y \in U : ~ (<<y, x>> \in Less)
  BY LessWellFounded, WFMin
<1>2. \A y \in U : ~ (y < x)
  BY <1>1 DEF Less
<1>3. \A y \in U : x <= y
  BY <1>2
<1>4. QED
  BY <1>3

\* Induction over the numbers, for a set.
LEMMA NumberInduction ==
  ASSUME NEW T \in SUBSET Nat, 0 \in T, \A n \in T : n + 1 \in T
  PROVE  T = Nat
<1> SUFFICES ASSUME Nat \ T # {} PROVE FALSE
  OBVIOUS
<1>1. PICK x \in Nat \ T : \A y \in Nat \ T : x <= y
  BY LeastNumber
<1>2. x - 1 \in Nat
  BY <1>1
<1>3. x - 1 \in T
  BY <1>1, <1>2
<1>4. QED
  BY <1>1, <1>3

\* Numbers below a bound have a greatest one.
LEMMA GreatestBelow ==
  ASSUME NEW n \in Nat, NEW U \in SUBSET (1 .. n), U # {}
  PROVE  \E x \in U : \A y \in U : y <= x
<1> DEFINE V == {v \in Nat : \A y \in U : y <= v}
<1>1. n \in V
  OBVIOUS
<1>2. PICK v \in V : \A u \in V : v <= u
  BY <1>1, LeastNumber
<1>3. v \in U
  <2> SUFFICES ASSUME v \notin U PROVE FALSE
    OBVIOUS
  <2>1. PICK u \in U : TRUE
    OBVIOUS
  <2>2. u \in 1 .. n /\ u <= v /\ v \in Nat
    BY <1>2, <2>1
  <2>3. v - 1 \in Nat
    BY <2>2
  <2>4. ASSUME NEW y \in U PROVE y <= v - 1
    <3>1. y <= v /\ y # v /\ y \in Nat
      BY <1>2
    <3>2. QED
      BY <2>2, <3>1
  <2>5. QED
    BY <1>2, <2>2, <2>3, <2>4
<1>4. QED
  BY <1>2, <1>3

\* The recursion behind the batch of transaction t, on the sets of positions in D.
LastPlace(s) == CHOOSE x \in s : \A y \in s : x >= y
Taken(it, t, D) ==
    it = [s \in D |-> IF s = {} THEN board
                      ELSE recordOperationalAlertOccurrenceProjection(
                             it[s \ {LastPlace(s)}], t.todo[LastPlace(s)], t)]

LEMMA FoldIsTaken ==
  ASSUME NEW t
  PROVE  Recorded(t) = (CHOOSE it : Taken(it, t, SUBSET DOMAIN t.todo))[DOMAIN t.todo]
  BY DEF Recorded, FoldLeft, MapThenFoldSet, Taken, LastPlace, Max

LEMMA LastIn ==
  ASSUME NEW n \in Nat, NEW s \in SUBSET (1 .. n), s # {}
  PROVE  LastPlace(s) \in s /\ \A y \in s : y <= LastPlace(s)
<1>1. \E x \in s : \A y \in s : x >= y
  BY GreatestBelow
<1>2. QED
  BY <1>1 DEF LastPlace

\* The recursion has a solution: by the length of the batch.
LEMMA TakenExists ==
  ASSUME NEW t, NEW m \in Nat
  PROVE  \E it : Taken(it, t, SUBSET (1 .. m))
<1> DEFINE T == {n \in Nat : \E it : Taken(it, t, SUBSET (1 .. n))}
<1>1. 0 \in T
  <2> DEFINE it == [s \in SUBSET (1 .. 0) |-> board]
  <2>1. \A s \in SUBSET (1 .. 0) : s = {}
    OBVIOUS
  <2>2. Taken(it, t, SUBSET (1 .. 0))
    BY <2>1 DEF Taken
  <2> HIDE DEF it
  <2>3. QED
    BY <2>2
<1>2. ASSUME NEW n \in T PROVE n + 1 \in T
  <2>1. PICK it : Taken(it, t, SUBSET (1 .. n))
    OBVIOUS
  <2> DEFINE more == [s \in SUBSET (1 .. n + 1) |->
                        IF s = {} THEN board
                        ELSE recordOperationalAlertOccurrenceProjection(
                               it[s \ {LastPlace(s)}], t.todo[LastPlace(s)], t)]
  <2>2. SUBSET (1 .. n) \subseteq SUBSET (1 .. n + 1)
    OBVIOUS
  <2>3. \A s \in SUBSET (1 .. n) : more[s] = it[s]
    BY <2>1, <2>2 DEF Taken
  <2>4. ASSUME NEW s \in SUBSET (1 .. n + 1), s # {}
        PROVE  s \ {LastPlace(s)} \in SUBSET (1 .. n)
    <3>1. n \in Nat /\ n + 1 \in Nat
      OBVIOUS
    <3>2. LastPlace(s) \in s /\ \A y \in s : y <= LastPlace(s)
      BY <2>4, <3>1, LastIn
    <3>3. ASSUME NEW y \in s \ {LastPlace(s)} PROVE y \in 1 .. n
      <4>1. y \in 1 .. n + 1 /\ LastPlace(s) \in 1 .. n + 1 /\ y <= LastPlace(s) /\ y # LastPlace(s)
        BY <3>2
      <4>2. QED
        BY <3>1, <4>1
    <3>4. QED
      BY <3>3
  <2>5. Taken(more, t, SUBSET (1 .. n + 1))
    BY <2>3, <2>4 DEF Taken
  <2> HIDE DEF more
  <2>6. QED
    BY <2>5
<1>3. T = Nat
  <2>1. T \in SUBSET Nat
    OBVIOUS
  <2> HIDE DEF T
  <2>2. QED
    BY <1>1, <1>2, <2>1, NumberInduction
<1>4. m \in T
  BY <1>3
<1>5. QED
  BY <1>4

LEMMA GreatestOf ==
  ASSUME NEW S \in SUBSET Nat, NEW g \in S, \A x \in S : x <= g
  PROVE  Greatest(S) = g
<1>1. /\ Greatest(S) \in S
      /\ \A y \in S : y <= Greatest(S)
  BY DEF Greatest
<1>2. Greatest(S) <= g /\ g <= Greatest(S) /\ Greatest(S) \in Nat /\ g \in Nat
  BY <1>1
<1>3. QED
  BY <1>2

\* What recording occurrences of S may have made of the board.
GrownInOrder(b, S) ==
    /\ board.latest <= b.latest
    /\ \/ b.alert \in {board.alert, "resolved"}
       \/ b.latest > board.latest /\ b.latest \in S /\ b.alert = Projected(b.latest)
    /\ \A r \in DOMAIN board.notice :
         board.notice[r].read /\ ~ b.notice[r].read => b.latest > board.latest
Grown(b, S) ==
    /\ IsBoard(b)
    /\ board.occ \subseteq b.occ /\ b.occ \subseteq board.occ \union S
    /\ b.shown => board.shown /\ b.occ = board.occ
    /\ b.alert \in {board.alert, "resolved"} \/ b.occ # board.occ
    /\ DOMAIN board.notice \subseteq DOMAIN b.notice
    /\ \A r \in DOMAIN board.notice :
         board.notice[r].read /\ ~ b.notice[r].read => b.occ # board.occ
    /\ FindsAll => GrownInOrder(b, S)

\* What a transaction takes for the newest occurrence, when it records one more.
Compares(t) == FindsAll \/ t.latest \in Nat

LEMMA NewestOf ==
  ASSUME NEW b, IsBoard(b), NEW o \in Nat \ {0}, o \notin b.occ, NEW t, Compares(t)
  PROVE  /\ Greatest(Found(b, t) \union {o}) \in Nat
         /\ FindsAll => (Greatest(Found(b, t) \union {o}) = o <=> o > b.latest)
<1>1. b.latest \in Nat /\ b.occ \subseteq Nat
  BY DEF IsBoard
<1>2. CASE FindsAll
  <2> DEFINE g == IF o > b.latest THEN o ELSE b.latest
  <2>1. /\ IF b.occ = {} THEN b.latest = 0
           ELSE b.latest \in b.occ /\ \A p \in b.occ : p <= b.latest
        /\ o # b.latest
    BY <1>2 DEF IsBoard
  <2>2. g \in b.occ \union {o}
    BY <1>1, <2>1
  <2>3. ASSUME NEW p \in b.occ \union {o} PROVE p <= g
    <3>1. CASE p = o
      BY <1>1, <3>1
    <3>2. CASE p \in b.occ
      <4>1. p <= b.latest /\ p \in Nat
        BY <1>1, <2>1, <3>2
      <4>2. QED
        BY <1>1, <4>1
    <3>3. QED
      BY <3>1, <3>2
  <2> HIDE DEF g
  <2>4. Greatest(b.occ \union {o}) = g
    <3>1. b.occ \union {o} \in SUBSET Nat
      BY <1>1
    <3>2. QED
      BY <2>2, <2>3, <3>1, GreatestOf
  <2>5. Found(b, t) = b.occ
    BY <1>2 DEF Found
  <2>6. QED
    BY <1>1, <2>1, <2>4, <2>5 DEF g
<1>3. CASE ~ FindsAll
  <2> DEFINE g == IF o > t.latest THEN o ELSE t.latest
  <2>1. t.latest \in Nat /\ Found(b, t) = {t.latest}
    BY <1>3 DEF Compares, Found
  <2>2. g \in {t.latest} \union {o} /\ \A p \in {t.latest} \union {o} : p <= g
    BY <2>1
  <2>3. g \in Nat
    BY <2>1
  <2>4. {t.latest} \union {o} \in SUBSET Nat
    BY <2>1
  <2> HIDE DEF g
  <2>5. Greatest({t.latest} \union {o}) = g
    BY <2>2, <2>4, GreatestOf
  <2>6. QED
    BY <1>3, <2>1, <2>3, <2>5
<1>4. QED
  BY <1>2, <1>3

LEMMA ProjectedState == \A n : Projected(n) \in {"open", "resolved"}
  BY DEF Projected

\* The row, the occurrences and the notices after one more occurrence.
OneMore(c, b, o) ==
    /\ c = [alert |-> c.alert, shown |-> c.shown, count |-> c.count, latest |-> c.latest,
            occ |-> c.occ, notice |-> c.notice]
    /\ c.shown = FALSE
    /\ c.occ = b.occ \union {o}
    /\ c.count = b.count + 1
    /\ c.latest \in {o, b.latest} /\ c.alert \in {"open", "resolved", b.alert}
    /\ FindsAll => IF o > b.latest
                     THEN c.latest = o /\ c.alert = Projected(o)
                     ELSE c.latest = b.latest /\ c.alert = b.alert
    /\ DOMAIN c.notice = Operators \union DOMAIN b.notice
    /\ c.notice \in [DOMAIN c.notice -> Note]
    /\ FindsAll => \A r \in DOMAIN b.notice :
                     b.notice[r].read /\ ~ c.notice[r].read => o > b.latest

LEMMA RecordedRow ==
  ASSUME NEW b, IsBoard(b), NEW o \in Nat \ {0}, o \notin b.occ, NEW t, Compares(t),
         NEW c, c = recordOperationalAlertOccurrenceProjection(b, o, t)
  PROVE  OneMore(c, b, o)
<1>1. PICK n : n = Greatest(Found(b, t) \union {o})
  OBVIOUS
<1>2. n \in Nat /\ (FindsAll => (n = o <=> o > b.latest))
  BY <1>1, NewestOf
<1>3. PICK alert : alert = IF n = o THEN Projected(n) ELSE b.alert
  OBVIOUS
<1>4. PICK latest : latest = IF n = o THEN o ELSE b.latest
  OBVIOUS
<1>5. PICK next : next = [alert |-> alert, shown |-> FALSE, count |-> b.count + 1,
                          latest |-> latest, occ |-> b.occ \union {o}, notice |-> b.notice]
  OBVIOUS
<1> DEFINE reset == n = o /\ Projected(n) = "open"
           notice == [r \in Operators \union DOMAIN b.notice |->
                        IF r \in Operators THEN NoticeOf(next, r, o, n, reset) ELSE b.notice[r]]
<1>6. [b EXCEPT !.alert = IF n = o THEN Projected(n) ELSE @, !.shown = FALSE, !.count = @ + 1,
                !.latest = IF n = o THEN o ELSE @, !.occ = @ \union {o}] = next
  <2>1. PICK d : d = [b EXCEPT !.alert = alert, !.shown = FALSE, !.count = @ + 1,
                               !.latest = latest, !.occ = b.occ \union {o}]
    OBVIOUS
  <2>2. d = [alert |-> alert, shown |-> FALSE, count |-> b.count + 1, latest |-> latest,
             occ |-> b.occ \union {o}, notice |-> b.notice]
    BY <2>1 DEF IsBoard
  <2>3. QED
    BY <1>3, <1>4, <1>5, <2>1, <2>2
<1>7. c = [alert |-> alert, shown |-> FALSE, count |-> b.count + 1, latest |-> latest,
           occ |-> b.occ \union {o}, notice |-> notice]
  <2>1. c = publishOperationalAlert(next, o, n, reset)
    BY <1>1, <1>6 DEF recordOperationalAlertOccurrenceProjection
  <2>2. next.notice = b.notice
    BY <1>5
  <2>3. c = [next EXCEPT !.notice = notice]
    BY <2>1, <2>2 DEF publishOperationalAlert
  <2> HIDE DEF notice
  <2>4. QED
    BY <1>5, <2>3
<1>8. b.count + 1 \in Nat /\ next.count = b.count + 1 /\ next.notice = b.notice
  BY <1>5, FS_CardinalityType DEF IsBoard
<1>9. ASSUME NEW r \in Operators \union DOMAIN b.notice
      PROVE  /\ notice[r] \in Note
             /\ r \in DOMAIN b.notice /\ b.notice[r].read /\ ~ notice[r].read => n = o
  <2>1. b.notice \in [DOMAIN b.notice -> Note]
    BY DEF IsBoard
  <2>2. CASE r \notin Operators
    BY <2>1, <2>2 DEF Note
  <2>3. CASE r \in Operators /\ r \notin DOMAIN b.notice
    BY <1>2, <1>8, <2>3 DEF NoticeOf, Note
  <2>4. CASE r \in Operators /\ r \in DOMAIN b.notice
    <3>1. notice[r] = [count |-> b.count + 1,
                       latest |-> IF n = o THEN o ELSE b.notice[r].latest,
                       read |-> b.notice[r].read /\ ~ reset]
      BY <1>8, <2>4 DEF NoticeOf
    <3>2. b.notice[r] \in Note
      BY <2>1, <2>4
    <3>3. (b.notice[r].read /\ ~ reset) \in BOOLEAN
      OBVIOUS
    <3>4. notice[r] \in Note
      <4> HIDE DEF reset, notice
      <4>1. QED
        BY <1>8, <3>1, <3>2, <3>3 DEF Note
    <3>5. ~ notice[r].read => ~ (b.notice[r].read /\ ~ reset)
      <4> DEFINE read == b.notice[r].read /\ ~ reset
      <4>1. notice[r] = [count |-> b.count + 1,
                         latest |-> IF n = o THEN o ELSE b.notice[r].latest, read |-> read]
        BY <3>1
      <4> HIDE DEF reset, notice, read
      <4>2. notice[r].read = read
        BY <4>1
      <4>3. QED
        BY <4>2 DEF read
    <3>6. QED
      BY <3>4, <3>5
  <2>5. QED
    BY <2>2, <2>3, <2>4
<1>10. QED
  <2> HIDE DEF notice
  <2>1. /\ c.notice = notice /\ c.latest = latest /\ c.occ = b.occ \union {o}
        /\ c.count = b.count + 1 /\ c.shown = FALSE /\ c.alert = alert
    BY <1>7
  <2>2. DOMAIN notice = Operators \union DOMAIN b.notice
    BY DEF notice
  <2>3. notice \in [DOMAIN notice -> Note]
    BY <1>9, <2>2 DEF notice
  <2>4. latest \in {o, b.latest} /\ alert \in {"open", "resolved", b.alert}
    BY <1>3, <1>4, ProjectedState
  <2>5. FindsAll => IF o > b.latest
                      THEN latest = o /\ alert = Projected(o)
                      ELSE latest = b.latest /\ alert = b.alert
    BY <1>2, <1>3, <1>4
  <2>6. FindsAll => \A r \in DOMAIN b.notice : b.notice[r].read /\ ~ notice[r].read => o > b.latest
    BY <1>2, <1>9
  <2>7. c = [alert |-> c.alert, shown |-> c.shown, count |-> c.count, latest |-> c.latest,
             occ |-> c.occ, notice |-> c.notice]
    BY <1>7, <2>1
  <2>8. QED
    BY <2>1, <2>2, <2>3, <2>4, <2>5, <2>6, <2>7 DEF OneMore

\* One more occurrence.
LEMMA RecordStep ==
  ASSUME IsBoard(board), NEW S \in SUBSET (Nat \ {0}), NEW b, Grown(b, S), NEW o \in S,
         NEW t, Compares(t)
  PROVE  Grown(recordOperationalAlertOccurrenceProjection(b, o, t), S)
<1>1. PICK c : c = recordOperationalAlertOccurrenceProjection(b, o, t)
  OBVIOUS
<1>2. IsBoard(b) /\ o \in Nat \ {0}
  BY DEF Grown
<1>3. CASE o \in b.occ
  <2>1. c = b
    BY <1>1, <1>3 DEF recordOperationalAlertOccurrenceProjection
  <2>2. QED
    BY <1>1, <2>1
<1>4. CASE o \notin b.occ
  <2>0. OneMore(c, b, o)
    BY <1>1, <1>2, <1>4, RecordedRow
  <2>1. /\ c = [alert |-> c.alert, shown |-> c.shown, count |-> c.count, latest |-> c.latest,
                occ |-> c.occ, notice |-> c.notice]
        /\ c.shown = FALSE
        /\ c.occ = b.occ \union {o}
        /\ c.count = b.count + 1
        /\ c.latest \in {o, b.latest} /\ c.alert \in {"open", "resolved", b.alert}
        /\ FindsAll => IF o > b.latest
                         THEN c.latest = o /\ c.alert = Projected(o)
                         ELSE c.latest = b.latest /\ c.alert = b.alert
        /\ DOMAIN c.notice = Operators \union DOMAIN b.notice
        /\ c.notice \in [DOMAIN c.notice -> Note]
        /\ FindsAll => \A r \in DOMAIN b.notice :
                         b.notice[r].read /\ ~ c.notice[r].read => o > b.latest
    BY <2>0 DEF OneMore
  <2>2. board.latest \in Nat /\ b.latest \in Nat /\ c.latest \in Nat
    BY <1>2, <2>1 DEF IsBoard
  <2>3. IsBoard(c)
    <3>1. c.alert \in States \union {None} /\ c.shown \in BOOLEAN
      BY <1>2, <2>1 DEF IsBoard, States
    <3>2. IsFiniteSet(c.occ) /\ Cardinality(c.occ) = Cardinality(b.occ) + 1
      BY <1>2, <1>4, <2>1, FS_AddElement DEF IsBoard
    <3>3. c.occ \subseteq Nat \ {0} /\ c.count = Cardinality(c.occ)
      BY <1>2, <2>1, <3>2 DEF IsBoard
    <3>4. \E g \in c.occ \union {0} : \A p \in c.occ : p <= g
      <4>1. PICK g \in b.occ \union {0} : \A p \in b.occ : p <= g
        BY <1>2 DEF IsBoard
      <4>2. g \in Nat /\ \A p \in b.occ : p \in Nat
        BY <1>2 DEF IsBoard
      <4>3. CASE o > g
        BY <1>2, <2>1, <4>1, <4>2, <4>3
      <4>4. CASE ~ (o > g)
        BY <1>2, <2>1, <4>1, <4>2, <4>4
      <4>5. QED
        BY <4>3, <4>4
    <3>5. ASSUME FindsAll PROVE c.latest \in c.occ /\ \A p \in c.occ : p <= c.latest
      <4>1. /\ IF b.occ = {} THEN b.latest = 0
               ELSE b.latest \in b.occ /\ \A p \in b.occ : p <= b.latest
        BY <1>2, <3>5 DEF IsBoard
      <4>2. IF o > b.latest THEN c.latest = o ELSE c.latest = b.latest
        BY <2>1, <3>5
      <4>3. c.latest \in c.occ
        BY <1>2, <2>1, <2>2, <4>1, <4>2
      <4>4. ASSUME NEW p \in c.occ PROVE p <= c.latest
        <5>1. CASE p = o
          BY <1>2, <2>2, <4>2, <5>1
        <5>2. CASE p \in b.occ
          <6>1. p <= b.latest /\ p \in Nat
            BY <1>2, <4>1, <5>2 DEF IsBoard
          <6>2. QED
            BY <1>2, <2>2, <4>2, <6>1
        <5>3. QED
          BY <2>1, <5>1, <5>2
      <4>5. QED
        BY <4>3, <4>4
    <3>6. c.occ # {}
      BY <2>1
    <3>7. QED
      BY <2>1, <2>2, <3>1, <3>2, <3>3, <3>4, <3>5, <3>6 DEF IsBoard
  <2>4. /\ board.occ \subseteq c.occ /\ c.occ \subseteq board.occ \union S
        /\ c.occ # board.occ
    BY <1>4, <2>1 DEF Grown
  <2>5. DOMAIN board.notice \subseteq DOMAIN c.notice
    BY <2>1 DEF Grown
  <2>6. ASSUME FindsAll PROVE GrownInOrder(c, S)
    <3>1. GrownInOrder(b, S) /\ board.latest <= b.latest
      BY <2>6 DEF Grown, GrownInOrder
    <3>2. IF o > b.latest
            THEN c.latest = o /\ c.alert = Projected(o)
            ELSE c.latest = b.latest /\ c.alert = b.alert
      BY <2>1, <2>6
    <3>3. board.latest <= c.latest /\ b.latest <= c.latest
      BY <1>2, <2>2, <3>1, <3>2
    <3>4. \/ c.alert \in {board.alert, "resolved"}
          \/ c.latest > board.latest /\ c.latest \in S /\ c.alert = Projected(c.latest)
      <4>1. CASE o > b.latest
        BY <1>2, <2>2, <3>1, <3>2, <4>1
      <4>2. CASE ~ (o > b.latest)
        BY <3>1, <3>2, <4>2 DEF GrownInOrder
      <4>3. QED
        BY <4>1, <4>2
    <3>5. ASSUME NEW r \in DOMAIN board.notice, board.notice[r].read, ~ c.notice[r].read
          PROVE  c.latest > board.latest
      <4>1. r \in DOMAIN b.notice
        BY DEF Grown
      <4>2. CASE b.notice[r].read
        <5>1. o > b.latest
          BY <2>1, <2>6, <3>5, <4>1, <4>2
        <5>2. QED
          BY <1>2, <2>2, <3>1, <3>2, <5>1
      <4>3. CASE ~ b.notice[r].read
        <5>1. b.latest > board.latest
          BY <3>1, <3>5, <4>3 DEF GrownInOrder
        <5>2. QED
          BY <2>2, <3>3, <5>1
      <4>4. QED
        BY <4>2, <4>3
    <3>6. QED
      BY <3>3, <3>4, <3>5 DEF GrownInOrder
  <2>7. Grown(c, S)
    BY <2>1, <2>3, <2>4, <2>5, <2>6 DEF Grown
  <2>8. QED
    BY <1>1, <2>7
<1>5. QED
  BY <1>3, <1>4

LEMMA GrownStart ==
  ASSUME IsBoard(board), NEW S PROVE Grown(board, S)
<1>1. board.latest <= board.latest
  BY DEF IsBoard
<1>2. QED
  BY <1>1 DEF Grown, GrownInOrder

\* A batch of any length, in any order.
LEMMA BatchGrown ==
  ASSUME IsBoard(board), NEW S \in SUBSET (Nat \ {0}), NEW t, IsBatch(t.todo, S), Compares(t)
  PROVE  Grown(Recorded(t), S)
<1>1. PICK n \in Nat : t.todo \in Orders(S, n)
  BY DEF IsBatch
<1>2. DOMAIN t.todo = 1 .. n /\ \A x \in 1 .. n : t.todo[x] \in S
  BY <1>1 DEF Orders
<1>3. PICK it : /\ Taken(it, t, SUBSET (1 .. n))
                /\ Recorded(t) = it[1 .. n]
  <2>1. \E it : Taken(it, t, SUBSET (1 .. n))
    BY TakenExists
  <2>2. Taken(CHOOSE it : Taken(it, t, SUBSET (1 .. n)), t, SUBSET (1 .. n))
    BY <2>1
  <2>3. QED
    BY <1>2, <2>2, FoldIsTaken
<1> DEFINE T == {k \in Nat : k <= n => Grown(it[1 .. k], S)}
<1>4. 0 \in T
  <2>1. 1 .. 0 = {} /\ {} \in SUBSET (1 .. n)
    OBVIOUS
  <2>2. it[{}] = board
    BY <1>3, <2>1 DEF Taken
  <2>3. QED
    BY <2>1, <2>2, GrownStart
<1>5. ASSUME NEW k \in T PROVE k + 1 \in T
  <2> SUFFICES ASSUME k + 1 <= n PROVE Grown(it[1 .. k + 1], S)
    OBVIOUS
  <2>1. k \in Nat /\ k <= n /\ Grown(it[1 .. k], S)
    OBVIOUS
  <2> DEFINE s == 1 .. k + 1
  <2>2. s \in SUBSET (1 .. n) /\ k + 1 \in s /\ s # {}
    <3>1. k + 1 \in s
      BY <2>1
    <3>2. ASSUME NEW x \in s PROVE x \in 1 .. n
      BY <2>1
    <3>3. QED
      BY <3>1, <3>2
  <2>3. LastPlace(s) = k + 1
    <3>1. LastPlace(s) \in s /\ k + 1 <= LastPlace(s)
      BY <2>2, LastIn
    <3>2. QED
      BY <2>1, <3>1
  <2>4. s \ {k + 1} = 1 .. k
    <3>1. ASSUME NEW x \in s \ {k + 1} PROVE x \in 1 .. k
      BY <2>1
    <3>2. ASSUME NEW x \in 1 .. k PROVE x \in s \ {k + 1}
      BY <2>1
    <3>3. QED
      BY <3>1, <3>2
  <2>5. it[s] = recordOperationalAlertOccurrenceProjection(it[1 .. k], t.todo[k + 1], t)
    <3> HIDE DEF s
    <3>1. it[s] = recordOperationalAlertOccurrenceProjection(
                    it[s \ {LastPlace(s)}], t.todo[LastPlace(s)], t)
      BY <1>3, <2>2 DEF Taken
    <3>2. QED
      BY <2>3, <2>4, <3>1
  <2>6. t.todo[k + 1] \in S
    BY <1>2, <2>1
  <2>7. QED
    BY <2>1, <2>5, <2>6, RecordStep
<1>6. T = Nat
  <2>1. T \in SUBSET Nat
    OBVIOUS
  <2> HIDE DEF T
  <2>2. QED
    BY <1>4, <1>5, <2>1, NumberInduction
<1>7. Grown(it[1 .. n], S)
  BY <1>6
<1>8. QED
  BY <1>3, <1>7

-----------------------------------------------------------------------------
(* What a step does to the board.                                          *)
\* Without an operator only a new occurrence opens the alert or unreads a notice and, where
\* it finds the others, a newer one of a failure that goes on and came after a recovery.
Honest ==
    /\ Opened => Decision \/ board'.occ # board.occ
    /\ \A r \in DOMAIN board.notice : Unread(r) => board'.occ # board.occ
    /\ FindsAll =>
         /\ Opened => Decision \/ (board'.latest > board.latest /\ (GoingOn /\ AfterRecovery)')
         /\ \A r \in DOMAIN board.notice : Unread(r) => board'.latest > board.latest

\* The alert is closed, and the notices are read.
LEMMA ResolveGroup ==
  ASSUME IsBoard(board), NEW found
  PROVE  Grown(resolveOperationalAlertGroup(board, found), {})
<1>1. PICK c : c = resolveOperationalAlertGroup(board, found)
  OBVIOUS
<1>2. CASE found \in {None, "resolved"}
  BY <1>1, <1>2, GrownStart DEF resolveOperationalAlertGroup
<1>3. CASE found \notin {None, "resolved"}
  <2> DEFINE notice == [r \in DOMAIN board.notice |-> [board.notice[r] EXCEPT !.read = TRUE]]
  <2>1. c = [board EXCEPT !.alert = "resolved", !.shown = FALSE, !.notice = notice]
    BY <1>1, <1>3 DEF resolveOperationalAlertGroup
  <2>2. ASSUME NEW r \in DOMAIN board.notice
        PROVE  notice[r] \in Note /\ notice[r].read = TRUE
    <3>1. board.notice[r] \in Note
      BY DEF IsBoard
    <3>2. QED
      BY <3>1 DEF Note
  <2>3. DOMAIN notice = DOMAIN board.notice /\ notice \in [DOMAIN notice -> Note]
    BY <2>2
  <2> HIDE DEF notice
  <2>4. c = [alert |-> "resolved", shown |-> FALSE, count |-> board.count,
             latest |-> board.latest, occ |-> board.occ, notice |-> notice]
    BY <2>1 DEF IsBoard
  <2>5. /\ c.notice = notice /\ c.alert = "resolved" /\ c.shown = FALSE
        /\ c.latest = board.latest /\ c.occ = board.occ /\ c.count = board.count
    BY <2>4
  <2>6. IsBoard(c)
    BY <2>3, <2>4, <2>5 DEF IsBoard, States
  <2>7. board.latest <= board.latest
    BY DEF IsBoard
  <2>8. \A r \in DOMAIN board.notice : c.notice[r].read
    BY <2>2, <2>5
  <2>9. DOMAIN board.notice \subseteq DOMAIN c.notice
    BY <2>3, <2>5
  <2>10. QED
    BY <1>1, <2>5, <2>6, <2>7, <2>8, <2>9 DEF Grown, GrownInOrder
<1>4. QED
  BY <1>2, <1>3

LEMMA ResolveInference ==
  ASSUME IsBoard(board), NEW S, NEW b, Grown(b, S), NEW s
  PROVE  Grown(resolveCredentialInferenceAlert(b, s), S)
<1>1. PICK c : c = resolveCredentialInferenceAlert(b, s)
  OBVIOUS
<1>2. c = b \/ c = [b EXCEPT !.alert = "resolved", !.shown = FALSE]
  BY <1>1 DEF resolveCredentialInferenceAlert
<1>3. CASE c = b
  BY <1>1, <1>3
<1>4. CASE c = [b EXCEPT !.alert = "resolved", !.shown = FALSE]
  <2>1. c = [alert |-> "resolved", shown |-> FALSE, count |-> b.count, latest |-> b.latest,
             occ |-> b.occ, notice |-> b.notice]
    BY <1>4 DEF Grown, IsBoard
  <2>2. IsBoard(c)
    BY <2>1 DEF Grown, IsBoard, States
  <2>3. QED
    BY <1>1, <2>1, <2>2 DEF Grown, GrownInOrder
<1>5. QED
  BY <1>2, <1>3, <1>4

\* A server writes the board.
LEMMA ProjectGrown ==
  ASSUME IsBoard(board), ViewTrue, NEW S, NEW b, Grown(b, S), board' = b,
         UNCHANGED <<source, isolation, view>>,
         FindsAll => \A o \in S : board'.latest = o /\ o > board.latest /\ Projected(o) = "open"
                                    => (GoingOn /\ AfterRecovery)'
  PROVE  IsBoard(board)' /\ ViewTrue' /\ Honest
<1>1. IsBoard(board)'
  BY DEF Grown, IsBoard, FindsAll
<1>2. ViewTrue'
  <2>1. ASSUME b.shown PROVE view = b.count
    BY <2>1 DEF Grown, IsBoard, ViewTrue
  <2>2. QED
    BY <2>1 DEF ViewTrue, Grown
<1>3. Opened => board'.occ # board.occ
  BY DEF Opened, Grown
<1>4. \A r \in DOMAIN board.notice : Unread(r) => board'.occ # board.occ
  BY DEF Unread, Grown
<1>5. ASSUME FindsAll, Opened
      PROVE  board'.latest > board.latest /\ (GoingOn /\ AfterRecovery)'
  <2>1. b.latest > board.latest /\ b.latest \in S /\ b.alert = Projected(b.latest)
    BY <1>5 DEF Grown, GrownInOrder, Opened
  <2>2. b.alert = "open"
    BY <1>5, <2>1, ProjectedState DEF Opened
  <2>3. QED
    BY <1>5, <2>1, <2>2
<1>6. FindsAll => \A r \in DOMAIN board.notice : Unread(r) => board'.latest > board.latest
  BY DEF Grown, GrownInOrder, Unread
<1>7. QED
  BY <1>1, <1>2, <1>3, <1>4, <1>5, <1>6 DEF Honest

-----------------------------------------------------------------------------
(* The board: open transactions.                                           *)
LEMMA BatchOfMore ==
  ASSUME NEW q, NEW S, NEW T, S \subseteq T, IsBatch(q, S)
  PROVE  IsBatch(q, T)
<1>1. PICK n \in Nat : q \in Orders(S, n)
  BY DEF IsBatch
<1>2. q \in Orders(T, n)
  BY <1>1 DEF Orders
<1>3. QED
  BY <1>2 DEF IsBatch

LEMMA SizeNat ==
  ASSUME NEW S, IsFiniteSet(S) PROVE Size(S) \in Nat
  BY FS_CardinalityType, BoardAssumption DEF Size

\* What a transaction has read stays true.
LEMMA OpenStays ==
  ASSUME OpenTrue, UNCHANGED <<source, isolation>>, open' \subseteq open,
         Degraded \subseteq Degraded', Completed \subseteq Completed'
  PROVE  OpenTrue'
<1> SUFFICES ASSUME NEW t \in open' PROVE Ready(t)'
  BY DEF OpenTrue
<1>1. Ready(t)
  BY DEF OpenTrue
<1>2. IsBatch(t.todo, Completed) => IsBatch(t.todo, Completed')
  BY BatchOfMore
<1>3. IsBatch(t.todo, Degraded) => IsBatch(t.todo, Degraded')
  BY BatchOfMore
<1>4. QED
  BY <1>1, <1>2, <1>3 DEF Ready

LEMMA SameSources ==
  ASSUME UNCHANGED <<quality, episodes>>
  PROVE  Degraded' = Degraded /\ Completed' = Completed
  BY DEF Degraded, Completed

\* A transaction begins or ends.
LEMMA TransactionStep ==
  ASSUME BoardInv, NEW t, (Reads(t) /\ Ready(t)) \/ Ends(t)
  PROVE  BoardInv' /\ UNCHANGED board
<1>1. /\ UNCHANGED <<source, isolation, facts, quality, infer, episodes, board, view>>
      /\ open' \subseteq open \/ (open' = open \union {t} /\ Ready(t))
  BY DEF Reads, Ends
<1>2. Degraded' = Degraded /\ Completed' = Completed
  BY <1>1, SameSources
<1>3. \A u : Ready(u) => Ready(u)'
  BY <1>1, <1>2 DEF Ready
<1>4. OpenTrue'
  BY <1>1, <1>3 DEF BoardInv, OpenTrue
<1>5. IsBoard(board)' /\ SourceTypes' /\ ViewTrue' /\ EpisodesTrue'
  BY <1>1 DEF BoardInv, IsBoard, FindsAll, SourceTypes, ViewTrue, EpisodesTrue
<1>6. (source' = "quality" => board'.occ \subseteq Degraded') /\ (source' = "inference" => OneEach(episodes'))
  BY <1>1, <1>2 DEF BoardInv
<1>7. QED
  BY <1>1, <1>4, <1>5, <1>6 DEF BoardInv

LEMMA LatestReadNat ==
  ASSUME IsBoard(board)
  PROVE  LatestRead \in Nat
<1>1. PICK g \in board.occ \union {0} : \A o \in board.occ : o <= g
  BY DEF IsBoard
<1>2. /\ board.occ \union {0} \in SUBSET Nat /\ g \in Nat
      /\ \A o \in board.occ \union {0} : o <= g
  BY <1>1 DEF IsBoard
<1>3. Greatest(board.occ \union {0}) = g
  BY <1>1, <1>2, GreatestOf
<1>4. QED
  BY <1>2, <1>3 DEF LatestRead, Kept

LEMMA EpisodesFinite ==
  ASSUME SourceTypes
  PROVE  IsFiniteSet(Completed) /\ Completed \in SUBSET (Nat \ {0})
<1> DEFINE f == [e \in episodes |-> e.seq]
<1>1. f \in Surjection(episodes, Completed)
  BY DEF Surjection, Completed
<1>2. IsFiniteSet(Completed)
  BY <1>1, FS_Surjection DEF ExistsSurjection, SourceTypes
<1>3. QED
  BY <1>2 DEF Completed, SourceTypes

\* A transaction of each kind begins.
LEMMA ReadFactsStep ==
  ASSUME BoardInv, readFacts
  PROVE  BoardInv' /\ UNCHANGED board
<1> DEFINE S == facts \ board.occ
<1>1. PICK q \in Orders(S, Size(S)) :
        Reads([kind |-> "facts", todo |-> q, latest |-> LatestRead])
  BY DEF readFacts
<1>2. S \subseteq Nat \ {0} /\ IsFiniteSet(S)
  BY BoardAssumption, FS_Subset DEF BoardInv, SourceTypes
<1>3. Size(S) \in Nat
  BY <1>2, SizeNat
<1> HIDE DEF S
<1>4. IsBatch(q, S)
  BY <1>1, <1>3 DEF IsBatch
<1>5. IsBatch(q, Nat \ {0})
  BY <1>2, <1>4, BatchOfMore
<1>6. PICK t : t = [kind |-> "facts", todo |-> q, latest |-> LatestRead]
  OBVIOUS
<1>7. t.kind = "facts" /\ t.todo = q /\ t.latest = LatestRead
  BY <1>6
<1>8. LatestRead \in Nat /\ source \in Plain
  BY LatestReadNat DEF BoardInv, readFacts
<1>9. Ready(t)
  BY <1>5, <1>7, <1>8 DEF Ready
<1>10. QED
  BY <1>1, <1>6, <1>9, TransactionStep

LEMMA ReadEpisodesStep ==
  ASSUME BoardInv, readEpisodes
  PROVE  BoardInv' /\ UNCHANGED board
<1> DEFINE S == Completed \ board.occ
<1>1. PICK q \in Orders(S, Size(S)) : Reads([kind |-> "episodes", todo |-> q])
  BY DEF readEpisodes, Completed
<1>2. S \subseteq Completed /\ IsFiniteSet(S)
  BY EpisodesFinite, FS_Subset DEF BoardInv
<1>3. Size(S) \in Nat
  BY <1>2, SizeNat
<1> HIDE DEF S
<1>4. IsBatch(q, S)
  BY <1>1, <1>3 DEF IsBatch
<1>5. IsBatch(q, Completed)
  BY <1>2, <1>4, BatchOfMore
<1>6. PICK t : t = [kind |-> "episodes", todo |-> q]
  OBVIOUS
<1>7. t.kind = "episodes" /\ t.todo = q
  BY <1>6
<1>8. Ready(t)
  BY <1>5, <1>7 DEF Ready, readEpisodes
<1>9. QED
  BY <1>1, <1>6, <1>8, TransactionStep

LEMMA ReadPolicyStep ==
  ASSUME BoardInv, readPolicy
  PROVE  BoardInv' /\ UNCHANGED board
<1>1. PICK t : t = [kind |-> "policy", etag |-> quality.etag, alert |-> board.alert]
  OBVIOUS
<1>2. t.kind = "policy"
  BY <1>1
<1>3. Reads(t) /\ Ready(t)
  BY <1>1, <1>2 DEF readPolicy, Ready
<1>4. QED
  BY <1>3, TransactionStep

\* The occurrence of a degraded provider is the first degraded window since a recovery, and
\* that recovery lies between it and every earlier occurrence of the same policy.
LEMMA TransitionNew ==
  ASSUME BoardInv, source = "quality", Current \in Windows({"degraded"})
  PROVE  /\ Transition \in Degraded /\ Transition \in Nat \ {0}
         /\ \A o \in board.occ :
              quality.windows[o].etag = quality.etag /\ o < Transition =>
                \E h \in Windows({"healthy"}) : o < h /\ h < Transition
<1> DEFINE recovered == {w \in Windows({"healthy"}) : w < Current}
           D == {w \in Windows({"degraded"}) : \A h \in recovered : h < w}
<1>1. DOMAIN quality.windows \subseteq Nat \ {0} /\ board.occ \subseteq Degraded
  BY BoardAssumption DEF BoardInv, SourceTypes
<1>2. Current \in D /\ D \subseteq Nat \ {0} /\ D \subseteq Degraded
  BY <1>1 DEF Windows, Degraded
<1>3. \E x \in D : \A y \in D : x <= y
  BY <1>2, LeastNumber
<1>4. Transition \in D /\ \A y \in D : Transition <= y
  BY <1>3 DEF Transition, Least
<1>5. ASSUME NEW o \in board.occ, quality.windows[o].etag = quality.etag, o < Transition
      PROVE  \E h \in Windows({"healthy"}) : o < h /\ h < Transition
  <2>1. o \in Windows({"degraded"}) /\ o \in Nat
    BY <1>1, <1>5 DEF Windows, Degraded
  <2>2. o \notin D
    BY <1>2, <1>4, <1>5, <2>1
  <2>3. PICK h \in recovered : ~ (h < o)
    BY <2>1, <2>2
  <2>4. h # o /\ h \in Nat
    BY <1>1, <2>1 DEF Windows
  <2>5. o < h
    BY <2>1, <2>3, <2>4
  <2>6. h < Transition
    BY <1>4
  <2>7. QED
    BY <2>5, <2>6
<1>6. QED
  BY <1>2, <1>4, <1>5

LEMMA ReadQualityStep ==
  ASSUME BoardInv, readProviderQuality
  PROVE  BoardInv' /\ UNCHANGED board
<1>1. source = "quality"
  BY DEF readProviderQuality
<1>2. CASE Reads([kind |-> "recovered", alert |-> board.alert])
  <2>1. PICK t : t = [kind |-> "recovered", alert |-> board.alert]
    OBVIOUS
  <2>2. t.kind = "recovered"
    BY <2>1
  <2>3. Reads(t) /\ Ready(t)
    BY <1>1, <1>2, <2>1, <2>2 DEF Ready
  <2>4. QED
    BY <2>3, TransactionStep
<1>3. CASE /\ Current \in Windows({"degraded"})
           /\ Reads([kind |-> "degraded", etag |-> quality.etag, alert |-> Kept(None, board.alert),
                     todo |-> Kept(<<Transition>>, <<>>), latest |-> LatestRead])
  <2>1. PICK q : q = <<Transition>>
    OBVIOUS
  <2>2. q \in Orders(Degraded, 1)
    <3>1. Transition \in Degraded
      BY <1>1, <1>3, TransitionNew
    <3>2. q \in [1 .. 1 -> Degraded]
      BY <2>1, <3>1
    <3>3. \A x, y \in 1 .. 1 : x = y
      OBVIOUS
    <3>4. QED
      BY <3>2, <3>3 DEF Orders
  <2>3. PICK todo : todo = Kept(q, <<>>)
    OBVIOUS
  <2>4. isolation = "snapshot" => IsBatch(todo, Degraded)
    BY <2>2, <2>3 DEF Kept, IsBatch
  <2>5. PICK alert : alert = Kept(None, board.alert)
    OBVIOUS
  <2>6. PICK t : t = [kind |-> "degraded", etag |-> quality.etag, alert |-> alert,
                      todo |-> todo, latest |-> LatestRead]
    OBVIOUS
  <2>7. t.kind = "degraded" /\ t.todo = todo /\ t.latest = LatestRead
    BY <2>6
  <2>8. LatestRead \in Nat
    BY LatestReadNat DEF BoardInv
  <2>9. Ready(t)
    BY <1>1, <2>4, <2>7, <2>8 DEF Ready
  <2>10. Reads(t)
    BY <1>3, <2>1, <2>3, <2>5, <2>6
  <2>11. QED
    BY <2>9, <2>10, TransactionStep
<1>4. QED
  BY <1>2, <1>3 DEF readProviderQuality

-----------------------------------------------------------------------------
(* The board: one lemma per action.                                        *)
LEMMA BoardStart ==
  ASSUME BoardInit
  PROVE  BoardInv
<1>1. board = [alert |-> None, shown |-> FALSE, count |-> 0, latest |-> 0, occ |-> {}, notice |-> <<>>]
  BY DEF BoardInit
<1>2. IsBoard(board)
  BY <1>1, FS_EmptySet DEF IsBoard, None
<1>3. SourceTypes
  BY FS_EmptySet DEF BoardInit, SourceTypes
<1>4. ViewTrue /\ EpisodesTrue /\ OpenTrue
  BY <1>1 DEF BoardInit, ViewTrue, EpisodesTrue, OpenTrue
<1>5. board.occ = {} /\ OneEach(episodes)
  BY <1>1 DEF BoardInit, OneEach
<1>6. QED
  BY <1>2, <1>3, <1>4, <1>5 DEF BoardInv

LEMMA BoardUntouched ==
  ASSUME BoardInv, UNCHANGED boardVars
  PROVE  BoardInv'
<1>1. UNCHANGED <<source, isolation, open, facts, quality, infer, episodes, board, view>>
  BY DEF boardVars
<1>2. Degraded' = Degraded /\ Completed' = Completed
  BY <1>1, SameSources
<1>3. OpenTrue'
  BY <1>1, <1>2, OpenStays DEF BoardInv
<1>4. IsBoard(board)' /\ SourceTypes' /\ ViewTrue' /\ EpisodesTrue'
  BY <1>1 DEF BoardInv, IsBoard, FindsAll, SourceTypes, ViewTrue, EpisodesTrue
<1>5. QED
  BY <1>1, <1>2, <1>3, <1>4 DEF BoardInv

LEMMA DurableStep ==
  ASSUME BoardInv, NEW t \in Places, BecomesDurable(t)
  PROVE  BoardInv' /\ UNCHANGED board
<1>1. /\ UNCHANGED <<source, isolation, open, quality, infer, episodes, board, view>>
      /\ facts' = facts \union {t}
  BY DEF BecomesDurable, Facts
<1>2. Degraded' = Degraded /\ Completed' = Completed
  BY <1>1, SameSources
<1>3. OpenTrue'
  BY <1>1, <1>2, OpenStays DEF BoardInv
<1>4. IsBoard(board)' /\ SourceTypes' /\ ViewTrue' /\ EpisodesTrue'
  BY <1>1 DEF BoardInv, IsBoard, FindsAll, SourceTypes, ViewTrue, EpisodesTrue
<1>5. QED
  BY <1>1, <1>2, <1>3, <1>4 DEF BoardInv

\* A transaction writes the board.
LEMMA WritesStep ==
  ASSUME BoardInv, NEW t, NEW S, NEW b, Grown(b, S), Writes(t, b),
         SourceTypes', Degraded' = Degraded,
         source = "quality" => S \subseteq Degraded,
         FindsAll => \A o \in S : board'.latest = o /\ o > board.latest /\ Projected(o) = "open"
                                    => (GoingOn /\ AfterRecovery)'
  PROVE  BoardInv' /\ Honest
<1>1. /\ board' = b /\ open' \subseteq open
      /\ UNCHANGED <<source, isolation, facts, infer, episodes, view>>
  BY DEF Writes, Project
<1>2. IsBoard(board) /\ ViewTrue
  BY DEF BoardInv
<1>3. IsBoard(board)' /\ ViewTrue' /\ Honest
  BY <1>1, <1>2, ProjectGrown
<1>4. EpisodesTrue'
  BY <1>1 DEF BoardInv, EpisodesTrue
<1>5. Completed' = Completed
  BY <1>1 DEF Completed
<1>6. OpenTrue'
  BY <1>1, <1>5, OpenStays DEF BoardInv
<1>7. source' = "quality" => board'.occ \subseteq Degraded'
  BY <1>1 DEF BoardInv, Grown
<1>8. source' = "inference" => OneEach(episodes')
  BY <1>1 DEF BoardInv
<1>9. QED
  BY <1>3, <1>4, <1>6, <1>7, <1>8 DEF BoardInv

LEMMA ReconcileFactsStep ==
  ASSUME BoardInv, NEW t \in open, reconcileFacts(t)
  PROVE  BoardInv' /\ Honest
<1>1. Writes(t, Recorded(t)) /\ UNCHANGED quality /\ t.kind = "facts"
  BY DEF reconcileFacts
<1>2. source \in Plain /\ t.latest \in Nat /\ IsBatch(t.todo, Nat \ {0})
  BY <1>1 DEF BoardInv, OpenTrue, Ready
<1>3. PICK S : S = Nat \ {0}
  OBVIOUS
<1>4. PICK b : b = Recorded(t)
  OBVIOUS
<1>5. Compares(t) /\ IsBoard(board) /\ IsBatch(t.todo, S) /\ S \in SUBSET (Nat \ {0})
  BY <1>2, <1>3 DEF Compares, BoardInv
<1>6. Grown(b, S) /\ Writes(t, b)
  BY <1>1, <1>4, <1>5, BatchGrown
<1>7. UNCHANGED <<source, isolation, facts, quality, infer, episodes>>
  BY <1>1 DEF Writes
<1>8. SourceTypes'
  BY <1>7 DEF BoardInv, SourceTypes
<1>9. Degraded' = Degraded
  BY <1>7 DEF Degraded
<1>10. (GoingOn /\ AfterRecovery)'
  BY <1>2, <1>7 DEF GoingOn, AfterRecovery, Plain
<1>11. source # "quality"
  BY <1>2 DEF Plain
<1>12. QED
  BY <1>6, <1>8, <1>9, <1>10, <1>11, WritesStep

\* A window closes: those of the occurrences stay as they are.
LEMMA EvaluateStep ==
  ASSUME BoardInv, NEW w \in Places, NEW state \in AllStates, evaluateProviderQualityPolicy(w, state)
  PROVE  BoardInv' /\ UNCHANGED board
<1> DEFINE windows == [v \in DOMAIN quality.windows \union {w} |->
                         IF v = w THEN [state |-> state, etag |-> quality.etag]
                         ELSE quality.windows[v]]
<1>1. /\ UNCHANGED <<source, isolation, open, board, view, facts, infer, episodes>>
      /\ source = "quality" /\ w \notin DOMAIN quality.windows
  BY DEF evaluateProviderQualityPolicy, Facts
<1>2. quality' = [quality EXCEPT !.windows = windows,
                                 !.last = IF w > @ THEN w ELSE @,
                                 !.state = IF w > quality.last THEN state ELSE @]
  BY DEF evaluateProviderQualityPolicy
<1>3. /\ DOMAIN windows = DOMAIN quality.windows \union {w}
      /\ windows[w] = [state |-> state, etag |-> quality.etag]
      /\ \A v \in DOMAIN quality.windows : windows[v] = quality.windows[v]
  BY <1>1
<1>4. windows \in [DOMAIN windows -> [state : AllStates, etag : Nat]]
  <2>1. ASSUME NEW v \in DOMAIN windows PROVE windows[v] \in [state : AllStates, etag : Nat]
    BY <1>3, <2>1 DEF BoardInv, SourceTypes
  <2>2. QED
    BY <2>1
<1> HIDE DEF windows
<1>5. /\ quality' = [policy |-> quality'.policy, etag |-> quality'.etag, windows |-> quality'.windows,
                     last |-> quality'.last, state |-> quality'.state]
      /\ quality'.windows = windows /\ quality'.etag = quality.etag
  BY <1>2 DEF BoardInv, SourceTypes
<1>6. SourceTypes'
  BY <1>1, <1>3, <1>4, <1>5 DEF BoardInv, SourceTypes
<1>7. IsBoard(board)' /\ ViewTrue' /\ EpisodesTrue'
  BY <1>1 DEF BoardInv, IsBoard, FindsAll, ViewTrue, EpisodesTrue
<1>8. Degraded \subseteq Degraded'
  BY <1>1, <1>3, <1>5 DEF Degraded
<1>9. OpenTrue'
  BY <1>1, <1>8, OpenStays DEF BoardInv, Completed
<1>10. QED
  BY <1>1, <1>6, <1>7, <1>8, <1>9 DEF BoardInv

\* The alert is resolved, as it was found: by a recovery or by a revision of the policy.
LEMMA ResolvedStep ==
  ASSUME BoardInv, NEW t, NEW found, Writes(t, resolveOperationalAlertGroup(board, found)),
         SourceTypes', Degraded' = Degraded
  PROVE  BoardInv' /\ Honest
<1>1. PICK b : b = resolveOperationalAlertGroup(board, found)
  OBVIOUS
<1>2. Grown(b, {}) /\ Writes(t, b)
  BY <1>1, ResolveGroup DEF BoardInv
<1>3. PICK S : S = {}
  OBVIOUS
<1>4. QED
  BY <1>2, <1>3, WritesStep

\* A revision of the policy: windows and occurrences stay.
LEMMA PolicyStep ==
  ASSUME BoardInv, NEW t, NEW state, WriteProviderQualityPolicy(t, state)
  PROVE  BoardInv' /\ Honest
<1>1. PICK found : Writes(t, resolveOperationalAlertGroup(board, found))
  BY DEF WriteProviderQualityPolicy
<1>2. UNCHANGED <<facts, infer, episodes>>
  BY <1>1 DEF Writes
<1>3. /\ quality' = [policy |-> quality'.policy, etag |-> quality'.etag, windows |-> quality'.windows,
                     last |-> quality'.last, state |-> quality'.state]
      /\ quality'.windows = quality.windows /\ quality'.etag \in Nat
  <2>1. PICK x : quality' = [quality EXCEPT !.policy = state, !.etag = @ + 1, !.state = x]
    BY DEF WriteProviderQualityPolicy
  <2>2. quality' = [policy |-> state, etag |-> quality.etag + 1, windows |-> quality.windows,
                    last |-> quality.last, state |-> x]
    BY <2>1 DEF BoardInv, SourceTypes
  <2>3. quality.etag \in Nat
    BY DEF BoardInv, SourceTypes
  <2>4. QED
    BY <2>2, <2>3
<1>4. SourceTypes'
  BY <1>2, <1>3 DEF BoardInv, SourceTypes
<1>5. Degraded' = Degraded
  BY <1>3 DEF Degraded
<1>6. QED
  BY <1>1, <1>4, <1>5, ResolvedStep

\* A degraded provider, with the windows as they are now: the alert opens only for a window
\* after all occurrences, and a recovery lies between.
LEMMA DegradedStep ==
  ASSUME BoardInv, NEW t, source = "quality", UNCHANGED quality,
         isolation = "committed", Current \in Windows({"degraded"}),
         Writes(t, recordOperationalAlertOccurrenceProjection(board, Transition, t))
  PROVE  BoardInv' /\ Honest
<1>1. PICK o : o = Transition
  OBVIOUS
<1>2. /\ o \in Degraded /\ o \in Nat \ {0}
      /\ \A p \in board.occ :
           quality.windows[p].etag = quality.etag /\ p < o =>
             \E h \in Windows({"healthy"}) : p < h /\ h < o
  BY <1>1, TransitionNew
<1>3. PICK b : b = recordOperationalAlertOccurrenceProjection(board, o, t)
  OBVIOUS
<1>4. PICK S : S = {o}
  OBVIOUS
<1>5. /\ IsBoard(board) /\ Grown(board, S) /\ S \in SUBSET (Nat \ {0}) /\ o \in S
      /\ Compares(t)
  BY <1>2, <1>4, GrownStart DEF BoardInv, Compares, FindsAll
<1>6. Grown(b, S) /\ Writes(t, b)
  BY <1>1, <1>3, <1>5, RecordStep
<1>7. UNCHANGED <<source, isolation, facts, quality, infer, episodes>> /\ board' = b
  BY <1>6 DEF Writes, Project
<1>8. SourceTypes' /\ Degraded' = Degraded
  BY <1>7 DEF BoardInv, SourceTypes, Degraded
<1>9. ASSUME board'.latest = o, o > board.latest
      PROVE  (GoingOn /\ AfterRecovery)'
  <2>1. /\ Windows({"degraded"})' = Windows({"degraded"}) /\ Current' = Current
        /\ Windows({"healthy"})' = Windows({"healthy"})
    BY <1>7 DEF Windows, Current
  <2>2. GoingOn'
    BY <1>7, <2>1 DEF GoingOn
  <2>3. ASSUME NEW p \in board'.occ, quality.windows[p].etag = quality.etag, p # o
        PROVE  \E h \in Windows({"healthy"}) : p < h /\ h < o
    <3>1. p \in board.occ
      BY <1>4, <1>6, <1>7, <2>3 DEF Grown
    <3>2. FindsAll /\ board.occ # {}
      BY <3>1 DEF FindsAll
    <3>3. p <= board.latest /\ p \in Nat /\ board.latest \in Nat
      BY <1>5, <3>1, <3>2 DEF IsBoard
    <3>4. p < o
      BY <1>2, <1>9, <3>3
    <3>5. QED
      BY <1>2, <2>3, <3>1, <3>4
  <2>4. AfterRecovery'
    BY <1>7, <1>9, <2>1, <2>3 DEF AfterRecovery
  <2>5. QED
    BY <2>2, <2>4
<1>10. S \subseteq Degraded
  BY <1>2, <1>4
<1>11. \A p \in S : board'.latest = p /\ p > board.latest => (GoingOn /\ AfterRecovery)'
  BY <1>4, <1>9
<1>12. QED
  BY <1>6, <1>8, <1>10, <1>11, WritesStep

LEMMA QualityStep ==
  ASSUME BoardInv, NEW t \in open, reconcileProviderQualityNotifications(t)
  PROVE  BoardInv' /\ Honest
<1>1. UNCHANGED quality /\ t.kind \in {"recovered", "degraded"}
  BY DEF reconcileProviderQualityNotifications
<1>2. source = "quality" /\ (t.kind = "degraded" => t.latest \in Nat)
  BY <1>1 DEF BoardInv, OpenTrue, Ready
<1>3. Degraded' = Degraded
  BY <1>1 DEF Degraded
<1>4. ASSUME NEW b, Writes(t, b) PROVE SourceTypes'
  BY <1>1, <1>4 DEF Writes, BoardInv, SourceTypes
<1>5. CASE \E found \in Looks(t) : Writes(t, resolveOperationalAlertGroup(board, found))
  BY <1>3, <1>4, <1>5, ResolvedStep
<1>6. CASE /\ t.kind = "degraded" /\ isolation = "snapshot"
           /\ Writes(t, Recorded(t))
  <2>1. IsBatch(t.todo, Degraded) /\ Compares(t) /\ ~ FindsAll /\ IsBoard(board)
    BY <1>2, <1>6 DEF BoardInv, OpenTrue, Ready, Compares, FindsAll
  <2>2. Degraded \in SUBSET (Nat \ {0})
    BY BoardAssumption DEF Degraded, BoardInv, SourceTypes
  <2>3. Grown(Recorded(t), Degraded)
    BY <2>1, <2>2, BatchGrown
  <2>4. PICK b : b = Recorded(t)
    OBVIOUS
  <2>5. PICK S : S = Degraded
    OBVIOUS
  <2>6. Grown(b, S) /\ Writes(t, b) /\ S \subseteq Degraded
    BY <1>6, <2>3, <2>4, <2>5
  <2>7. QED
    BY <1>3, <1>4, <2>1, <2>6, WritesStep
<1>7. CASE /\ isolation = "committed" /\ Current \in Windows({"degraded"})
           /\ Writes(t, recordOperationalAlertOccurrenceProjection(board, Transition, t))
  BY <1>1, <1>2, <1>7, DegradedStep
<1>8. QED
  BY <1>5, <1>6, <1>7
  DEF reconcileProviderQualityNotifications, reconcileProviderQualityPolicyNotification

\* A call's result: only a run that begins adds an episode, and none has its last success.
LEMMA AdvanceStep ==
  ASSUME BoardInv, NEW result \in {"unknown", "success", "error"},
         infer' = advanceCredentialInferenceFailure(infer, result),
         episodes' = episodes \union Begun(infer, infer')
  PROVE  /\ infer' \in [seq : Nat, fails : Nat, latched : BOOLEAN, success : Nat, trigger : Nat]
         /\ episodes' \subseteq [seq : Nat \ {0}, success : Nat] /\ IsFiniteSet(episodes')
         /\ EpisodesTrue'
         /\ OneEach(episodes) => OneEach(episodes')
<1> USE DEF BoardInv
<1>1. PICK next : next = [infer EXCEPT !.seq = @ + 1]
  OBVIOUS
<1>2. PICK fails : fails = IF infer.fails < Threshold THEN infer.fails + 1 ELSE infer.fails
  OBVIOUS
<1>3. /\ next = [seq |-> infer.seq + 1, fails |-> infer.fails, latched |-> infer.latched,
                 success |-> infer.success, trigger |-> infer.trigger]
      /\ fails \in Nat /\ infer.seq \in Nat /\ infer.success \in Nat /\ infer.success <= infer.seq
  BY <1>1, <1>2, BoardAssumption DEF SourceTypes, EpisodesTrue
<1>4. \/ /\ infer' = [next EXCEPT !.fails = 0]
      \/ infer' = [next EXCEPT !.fails = 0, !.latched = FALSE, !.success = next.seq, !.trigger = 0]
      \/ infer' = [next EXCEPT !.fails = fails]
      \/ /\ infer' = [next EXCEPT !.fails = fails, !.latched = TRUE, !.trigger = next.seq]
         /\ ~ infer.latched
  BY <1>1, <1>2 DEF advanceCredentialInferenceFailure
<1>5. IsFiniteSet(episodes)
  BY DEF SourceTypes
<1>6. CASE \E f \in Nat : infer' = [next EXCEPT !.fails = f]
  <2>1. PICK f \in Nat : infer' = [next EXCEPT !.fails = f]
    BY <1>6
  <2>2. infer' = [seq |-> infer.seq + 1, fails |-> f, latched |-> infer.latched,
                  success |-> infer.success, trigger |-> infer.trigger]
    BY <1>3, <2>1
  <2>3. /\ infer'.seq = infer.seq + 1 /\ infer'.latched = infer.latched
        /\ infer'.success = infer.success /\ infer'.trigger = infer.trigger
    BY <2>2
  <2>4. episodes' = episodes
    BY <2>3 DEF Begun
  <2>5. infer' \in [seq : Nat, fails : Nat, latched : BOOLEAN, success : Nat, trigger : Nat]
    BY <1>3, <2>2 DEF SourceTypes
  <2>6. EpisodesTrue'
    BY <1>3, <2>3, <2>4 DEF EpisodesTrue
  <2>7. QED
    BY <1>5, <2>4, <2>5, <2>6 DEF SourceTypes
<1>7. CASE infer' = [next EXCEPT !.fails = 0, !.latched = FALSE, !.success = next.seq, !.trigger = 0]
  <2>1. infer' = [seq |-> infer.seq + 1, fails |-> 0, latched |-> FALSE,
                  success |-> infer.seq + 1, trigger |-> 0]
    BY <1>3, <1>7
  <2>2. infer'.seq = infer.seq + 1 /\ infer'.latched = FALSE /\ infer'.success = infer.seq + 1
    BY <2>1
  <2>3. episodes' = episodes
    BY <2>2 DEF Begun
  <2>4. infer' \in [seq : Nat, fails : Nat, latched : BOOLEAN, success : Nat, trigger : Nat]
    BY <1>3, <2>1
  <2>5. ASSUME NEW e \in episodes PROVE e.success \in Nat /\ e.success < infer.seq + 1
    <3>1. e.success \in Nat /\ e.success <= infer.success
      BY DEF SourceTypes, EpisodesTrue
    <3>2. QED
      BY <1>3, <3>1
  <2>6. EpisodesTrue'
    BY <1>3, <2>2, <2>3, <2>5 DEF EpisodesTrue
  <2>7. QED
    BY <1>5, <2>3, <2>4, <2>6 DEF SourceTypes
<1>8. CASE /\ infer' = [next EXCEPT !.fails = fails, !.latched = TRUE, !.trigger = next.seq]
           /\ ~ infer.latched
  <2>1. infer' = [seq |-> infer.seq + 1, fails |-> fails, latched |-> TRUE,
                  success |-> infer.success, trigger |-> infer.seq + 1]
    BY <1>3, <1>8
  <2>2. /\ infer'.seq = infer.seq + 1 /\ infer'.latched = TRUE
        /\ infer'.success = infer.success /\ infer'.trigger = infer.seq + 1
    BY <2>1
  <2>3. PICK new : new = [seq |-> infer.seq + 1, success |-> infer.success]
    OBVIOUS
  <2>4. episodes' = episodes \union {new}
    <3>1. Begun(infer, infer') = {[seq |-> infer'.seq, success |-> infer'.success]}
      BY <1>8, <2>2 DEF Begun
    <3>2. QED
      BY <2>2, <2>3, <3>1
  <2>5. /\ new \in [seq : Nat \ {0}, success : Nat]
        /\ new.success = infer.success /\ new.seq = infer.seq + 1
    BY <1>3, <2>3
  <2>6. infer' \in [seq : Nat, fails : Nat, latched : BOOLEAN, success : Nat, trigger : Nat]
    BY <1>3, <2>1
  <2>7. ASSUME NEW e \in episodes
        PROVE  e.success \in Nat /\ e.success <= infer.success /\ e.success # infer.success
    BY <1>8 DEF SourceTypes, EpisodesTrue
  <2>8. EpisodesTrue'
    BY <1>3, <2>2, <2>4, <2>5, <2>7 DEF EpisodesTrue
  <2>9. OneEach(episodes) => OneEach(episodes')
    BY <2>4, <2>5, <2>7 DEF OneEach
  <2>10. IsFiniteSet(episodes')
    BY <1>5, <2>4, FS_AddElement
  <2>11. QED
    BY <2>4, <2>5, <2>6, <2>8, <2>9, <2>10 DEF SourceTypes
<1>9. QED
  BY <1>3, <1>4, <1>6, <1>7, <1>8

LEMMA ObserveStep ==
  ASSUME BoardInv, NEW result \in {"unknown", "success", "error"},
         observeCredentialInferenceFailures(result)
  PROVE  BoardInv' /\ Honest
<1>1. /\ source = "inference" /\ UNCHANGED <<source, isolation, open, facts, quality, view>>
      /\ infer' = advanceCredentialInferenceFailure(infer, result)
      /\ episodes' = episodes \union Begun(infer, infer')
      /\ board' = resolveCredentialInferenceAlert(board, infer')
  BY DEF observeCredentialInferenceFailures, Project
<1>2. IsBoard(board) /\ ViewTrue
  BY DEF BoardInv
<1>3. PICK b : b = resolveCredentialInferenceAlert(board, infer')
  OBVIOUS
<1>4. PICK S : S = {}
  OBVIOUS
<1>5. Grown(b, S) /\ board' = b
  BY <1>1, <1>2, <1>3, GrownStart, ResolveInference
<1>6. IsBoard(board)' /\ ViewTrue' /\ Honest
  BY <1>1, <1>2, <1>4, <1>5, ProjectGrown
<1>7. SourceTypes' /\ EpisodesTrue'
  BY <1>1, AdvanceStep DEF BoardInv, SourceTypes
<1>8. OneEach(episodes') /\ source' # "quality"
  <2>1. OneEach(episodes)
    BY <1>1 DEF BoardInv
  <2>2. QED
    BY <1>1, <2>1, AdvanceStep
<1>9. OpenTrue'
  <2>1. Degraded' = Degraded /\ Completed \subseteq Completed'
    BY <1>1 DEF Degraded, Completed
  <2>2. QED
    BY <1>1, <2>1, OpenStays DEF BoardInv
<1>10. QED
  BY <1>6, <1>7, <1>8, <1>9 DEF BoardInv

LEMMA ReconcileInferenceStep ==
  ASSUME BoardInv, NEW t \in open, reconcileCredentialInferenceFailures(t)
  PROVE  BoardInv' /\ Honest
<1>1. /\ Writes(t, resolveCredentialInferenceAlert(Recorded(t), infer))
      /\ UNCHANGED quality /\ t.kind = "episodes"
  BY DEF reconcileCredentialInferenceFailures
<1>2. source = "inference" /\ IsBatch(t.todo, Completed)
  BY <1>1 DEF BoardInv, OpenTrue, Ready
<1>3. UNCHANGED <<source, isolation, facts, quality, infer, episodes>>
  BY <1>1 DEF Writes
<1>4. SourceTypes' /\ Degraded' = Degraded
  BY <1>3 DEF BoardInv, SourceTypes, Degraded
<1>5. ASSUME NEW o \in Completed, board'.latest = o, Projected(o) = "open"
      PROVE  (GoingOn /\ AfterRecovery)'
  <2>1. \E e \in episodes : e.seq = o
    BY DEF Completed
  <2>2. Episode(o).seq = o
    BY <2>1 DEF Episode
  <2>3. infer.latched /\ infer.trigger = o
    BY <1>2, <1>5, <2>2 DEF Projected, credentialInferenceEpisodeActive
  <2>4. GoingOn'
    BY <1>2, <1>3, <1>5, <2>3 DEF GoingOn
  <2>5. OneEach(episodes)
    BY <1>2 DEF BoardInv
  <2>6. AfterRecovery'
    BY <1>2, <1>3, <2>5 DEF AfterRecovery, OneEach
  <2>7. QED
    BY <2>4, <2>6
<1>6. PICK c : c = Recorded(t)
  OBVIOUS
<1>7. PICK S : S = Completed
  OBVIOUS
<1>8. S \in SUBSET (Nat \ {0}) /\ IsBoard(board) /\ Compares(t) /\ IsBatch(t.todo, S)
  BY <1>2, <1>7, EpisodesFinite DEF BoardInv, Compares, FindsAll
<1>9. Grown(c, S)
  BY <1>6, <1>8, BatchGrown
<1>10. PICK b : b = resolveCredentialInferenceAlert(c, infer)
  OBVIOUS
<1>11. Grown(b, S) /\ Writes(t, b)
  BY <1>1, <1>6, <1>8, <1>9, <1>10, ResolveInference
<1>12. QED
  BY <1>2, <1>4, <1>5, <1>7, <1>11, WritesStep

LEMMA OffboardingStep ==
  ASSUME BoardInv, NEW to \in SUBSET Recipients, publishOffboardingCompletion(to)
  PROVE  BoardInv' /\ Honest
<1> DEFINE notice == [r \in {r \in to : role[r] # "gone"} |-> [count |-> 1, latest |-> 1, read |-> FALSE]]
<1>1. /\ source = "offboarding" /\ board.occ = {}
      /\ UNCHANGED <<source, isolation, open, view, facts, quality, infer, episodes>>
      /\ board' = [alert |-> "resolved", shown |-> FALSE, count |-> 1, latest |-> 1, occ |-> {1},
                   notice |-> notice]
  BY DEF publishOffboardingCompletion
<1>2. notice \in [DOMAIN notice -> Note]
  BY DEF Note
<1> HIDE DEF notice
<1>3. IsFiniteSet({1}) /\ Cardinality({1}) = 1
  BY FS_Singleton
<1>4. /\ board'.alert = "resolved" /\ board'.count = 1 /\ board'.latest = 1 /\ board'.occ = {1}
      /\ board'.notice = notice /\ board'.shown = FALSE
  BY <1>1
<1>5. IsBoard(board)'
  <2>1. \E g \in {1} \union {0} : \A o \in {1} : o <= g
    OBVIOUS
  <2>2. QED
    BY <1>1, <1>2, <1>3, <1>4, <2>1 DEF IsBoard, States
<1>6. ViewTrue' /\ SourceTypes' /\ EpisodesTrue' /\ source' = "offboarding"
  BY <1>1, <1>4 DEF BoardInv, ViewTrue, SourceTypes, EpisodesTrue
<1>7. OpenTrue'
  BY <1>1, SameSources, OpenStays DEF BoardInv
<1>8. FindsAll => board.latest = 0
  BY <1>1 DEF BoardInv, IsBoard
<1>9. Honest
  BY <1>1, <1>4, <1>8 DEF Honest, Opened, Unread
<1>10. QED
  BY <1>5, <1>6, <1>7, <1>9 DEF BoardInv

\* What the operator and the reader change of the board leaves its occurrences.
LEMMA SameOccurrences ==
  ASSUME BoardInv, UNCHANGED <<source, isolation, open, facts, quality, infer, episodes>>,
         IsBoard(board)', ViewTrue', board'.occ = board.occ
  PROVE  BoardInv'
<1>1. Degraded' = Degraded /\ Completed' = Completed
  BY SameSources
<1>2. OpenTrue'
  BY <1>1, OpenStays DEF BoardInv
<1>3. SourceTypes' /\ EpisodesTrue'
  BY DEF BoardInv, SourceTypes, EpisodesTrue
<1>4. QED
  BY <1>1, <1>2, <1>3 DEF BoardInv

LEMMA ListStep ==
  ASSUME BoardInv, ListOperationalAlerts
  PROVE  BoardInv' /\ Honest
<1>1. /\ source # "offboarding" /\ view' = board.count
      /\ board' = [board EXCEPT !.shown = TRUE]
      /\ UNCHANGED <<source, isolation, open, facts, quality, infer, episodes>>
  BY DEF ListOperationalAlerts
<1>2. board' = [alert |-> board.alert, shown |-> TRUE, count |-> board.count,
                latest |-> board.latest, occ |-> board.occ, notice |-> board.notice]
  BY <1>1 DEF BoardInv, IsBoard
<1>3. /\ board'.alert = board.alert /\ board'.count = board.count /\ board'.latest = board.latest
      /\ board'.occ = board.occ /\ board'.notice = board.notice /\ board'.shown = TRUE
  BY <1>2
<1>4. IsBoard(board)'
  BY <1>1, <1>2, <1>3 DEF BoardInv, IsBoard, FindsAll
<1>5. board.count \in Nat
  BY FS_CardinalityType DEF BoardInv, IsBoard
<1>6. ViewTrue'
  BY <1>1, <1>3, <1>5 DEF ViewTrue
<1>7. Honest
  BY <1>3 DEF Honest, Opened, Unread
<1>8. QED
  BY <1>1, <1>3, <1>4, <1>6, <1>7, SameOccurrences

\* An operator decides about the alert that she sees.
LEMMA UpdateStep ==
  ASSUME BoardInv, NEW state \in States, UpdateOperationalAlertState(state)
  PROVE  BoardInv' /\ Honest
<1>1. /\ board' = [board EXCEPT !.alert = state, !.shown = FALSE]
      /\ UNCHANGED <<source, isolation, open, facts, quality, infer, episodes, view>>
  BY DEF UpdateOperationalAlertState
<1>2. board' = [alert |-> state, shown |-> FALSE, count |-> board.count,
                latest |-> board.latest, occ |-> board.occ, notice |-> board.notice]
  BY <1>1 DEF BoardInv, IsBoard
<1>3. /\ board'.alert = state /\ board'.count = board.count /\ board'.latest = board.latest
      /\ board'.occ = board.occ /\ board'.notice = board.notice /\ board'.shown = FALSE
  BY <1>2
<1>4. IsBoard(board)'
  BY <1>1, <1>2, <1>3 DEF BoardInv, IsBoard, FindsAll
<1>5. ViewTrue'
  BY <1>1, <1>3 DEF BoardInv, ViewTrue
<1>6. Honest
  <2>1. Decision
    BY DEF Decision
  <2>2. \A r \in DOMAIN board.notice : ~ Unread(r)
    BY <1>3 DEF Unread
  <2>3. QED
    BY <2>1, <2>2 DEF Honest
<1>7. QED
  BY <1>1, <1>3, <1>4, <1>5, <1>6, SameOccurrences

LEMMA InboxStep ==
  ASSUME BoardInv, NEW r, MarkBoardRead(r), UNCHANGED <<source, isolation, open, sourceVars, view>>
  PROVE  BoardInv' /\ (board' = board \/ Honest)
<1>1. UNCHANGED <<source, isolation, open, facts, quality, infer, episodes, view>>
  BY DEF sourceVars
<1>2. CASE board' = board
  BY <1>1, <1>2, BoardUntouched DEF boardVars
<1>3. CASE board' # board
  <2>1. r \in DOMAIN board.notice /\ board' = [board EXCEPT !.notice[r].read = TRUE]
    BY <1>3 DEF MarkBoardRead, Readable
  <2>2. PICK notice : notice = [board.notice EXCEPT ![r].read = TRUE]
    OBVIOUS
  <2>3. board' = [alert |-> board.alert, shown |-> board.shown, count |-> board.count,
                  latest |-> board.latest, occ |-> board.occ, notice |-> notice]
    BY <2>1, <2>2 DEF BoardInv, IsBoard
  <2>4. /\ board'.alert = board.alert /\ board'.count = board.count /\ board'.latest = board.latest
        /\ board'.occ = board.occ /\ board'.notice = notice /\ board'.shown = board.shown
    BY <2>3
  <2>5. board.notice \in [DOMAIN board.notice -> Note]
    BY DEF BoardInv, IsBoard
  <2>6. PICK row : row = [board.notice[r] EXCEPT !.read = TRUE]
    OBVIOUS
  <2>7. row \in Note /\ row.read = TRUE
    BY <2>1, <2>5, <2>6 DEF Note
  <2>8. /\ DOMAIN notice = DOMAIN board.notice
        /\ notice \in [DOMAIN notice -> Note]
        /\ \A s \in DOMAIN board.notice : s # r => notice[s] = board.notice[s]
        /\ notice[r] = row
    BY <2>1, <2>2, <2>5, <2>6, <2>7
  <2>9. IsBoard(board)'
    BY <1>1, <2>3, <2>4, <2>8 DEF BoardInv, IsBoard, FindsAll
  <2>10. ViewTrue'
    BY <1>1, <2>4 DEF BoardInv, ViewTrue
  <2>11. \A s \in DOMAIN board.notice : board.notice[s].read => board'.notice[s].read
    BY <2>4, <2>7, <2>8
  <2>12. Honest
    BY <2>4, <2>11 DEF Honest, Opened, Unread
  <2>13. QED
    BY <1>1, <2>4, <2>9, <2>10, <2>12, SameOccurrences
<1>4. QED
  BY <1>2, <1>3

LEMMA BoardNext ==
  ASSUME BoardInv, [Next]_vars
  PROVE  BoardInv' /\ (board' = board \/ Honest)
<1>1. UNCHANGED boardVars => BoardInv' /\ board' = board
  BY BoardUntouched DEF boardVars
<1>2. CASE UNCHANGED vars
  BY <1>1, <1>2 DEF vars
<1>3. CASE People \/ TestMail \/ Surroundings \/ Resource \/ Quota \/ Expire
  BY <1>1, <1>3 DEF People, TestMail, Surroundings, Resource, Quota, Expire
<1>4. ASSUME NEW w \in Workers, Worker(w) \/ Claim(w)
      PROVE  BoardInv' /\ board' = board
  BY <1>1, <1>4 DEF Worker, Claim
<1>5. CASE Inbox
  <2>1. PICK r \in Recipients : MarkNotificationRead(r) \/ MarkAllNotificationsRead(r)
    BY <1>5 DEF Inbox
  <2>2. MarkBoardRead(r) /\ UNCHANGED <<source, isolation, open, sourceVars, view>>
    BY <2>1 DEF MarkNotificationRead, MarkAllNotificationsRead
  <2>3. QED
    BY <2>2, InboxStep
<1>6. CASE Board
  <2>1. ASSUME NEW t \in Places, BecomesDurable(t) PROVE BoardInv' /\ board' = board
    BY <2>1, DurableStep
  <2>2. CASE readFacts \/ readProviderQuality \/ readEpisodes \/ readPolicy
    BY <2>2, ReadFactsStep, ReadQualityStep, ReadEpisodesStep, ReadPolicyStep
  <2>3. ASSUME NEW t \in open, Ends(t) PROVE BoardInv' /\ board' = board
    BY <2>3, TransactionStep
  <2>4. ASSUME NEW t \in open, Reconcile(t) PROVE BoardInv' /\ Honest
    BY <2>4, ReconcileFactsStep, QualityStep, ReconcileInferenceStep, PolicyStep DEF Reconcile
  <2>5. ASSUME NEW w \in Places, NEW state \in AllStates, evaluateProviderQualityPolicy(w, state)
        PROVE  BoardInv' /\ board' = board
    BY <2>5, EvaluateStep
  <2>6. ASSUME NEW result \in {"unknown", "success", "error"}, observeCredentialInferenceFailures(result)
        PROVE  BoardInv' /\ Honest
    BY <2>6, ObserveStep
  <2>7. ASSUME NEW to \in SUBSET Recipients, publishOffboardingCompletion(to)
        PROVE  BoardInv' /\ Honest
    BY <2>7, OffboardingStep
  <2>8. CASE ListOperationalAlerts
    BY <2>8, ListStep
  <2>9. ASSUME NEW state \in States, UpdateOperationalAlertState(state)
        PROVE  BoardInv' /\ Honest
    BY <2>9, UpdateStep
  <2>10. QED
    BY <1>6, <2>1, <2>2, <2>3, <2>4, <2>5, <2>6, <2>7, <2>8, <2>9 DEF Board
<1>7. QED
  BY <1>2, <1>3, <1>4, <1>5, <1>6 DEF Next

\* The board counts each occurrence once and, where transactions find what others recorded,
\* shows the newest; an operator whose ETag is the row's has seen them all; and what an open
\* transaction is about to record is a fact, however long ago it read it.
THEOREM BoardInvariance == Spec => []BoardInv
<1>1. Init => BoardInv
  BY BoardStart DEF Init
<1>2. BoardInv /\ [Next]_vars => BoardInv'
  BY BoardNext
<1>3. QED
  BY <1>1, <1>2, PTL DEF Spec

\* The group and the database stay the same.
LEMMA SameDatabase ==
  ASSUME [Next]_vars
  PROVE  UNCHANGED <<source, isolation>>
<1>1. CASE UNCHANGED vars
  BY <1>1 DEF vars, boardVars
<1>2. CASE People \/ TestMail \/ Surroundings \/ Resource \/ Quota \/ Expire
  BY <1>2 DEF People, TestMail, Surroundings, Resource, Quota, Expire, boardVars
<1>3. ASSUME NEW w \in Workers, Worker(w) \/ Claim(w)
      PROVE  UNCHANGED <<source, isolation>>
  BY <1>3 DEF Worker, Claim, boardVars
<1>4. CASE Inbox
  BY <1>4 DEF Inbox, MarkNotificationRead, MarkAllNotificationsRead
<1>5. CASE Board
  <2>1. ASSUME NEW t, Reads(t) \/ Ends(t) PROVE UNCHANGED <<source, isolation>>
    BY <2>1 DEF Reads, Ends
  <2>2. readFacts \/ readProviderQuality \/ readEpisodes \/ readPolicy => \E t : Reads(t)
    BY SomeReading
  <2>3. ASSUME NEW t, Reconcile(t) PROVE UNCHANGED <<source, isolation>>
    BY <2>3 DEF Reconcile, reconcileFacts, reconcileProviderQualityNotifications,
                reconcileProviderQualityPolicyNotification, reconcileCredentialInferenceFailures,
                WriteProviderQualityPolicy, Writes
  <2>4. QED
    BY <1>5, <2>1, <2>2, <2>3
    DEF Board, BecomesDurable, evaluateProviderQualityPolicy, Facts, ListOperationalAlerts,
        observeCredentialInferenceFailures, publishOffboardingCompletion, UpdateOperationalAlertState
<1>6. QED
  BY <1>1, <1>2, <1>3, <1>4, <1>5 DEF Next

\* Facts, recoveries, operators and readers in any order, any number of servers that write
\* what they read before others did, and batches of any length: the board tells the truth
\* (recordOperationalAlertOccurrenceProjection and its callers).
THEOREM AlertsTrueAlways == Spec => AlertsTrue
<1>1. BoardInv /\ BoardInv' /\ [Next]_vars =>
        [/\ board'.count = Cardinality(board'.occ)
         /\ Decision => view = board.count
         /\ Opened => Decision \/ board'.occ # board.occ
         /\ \A r \in DOMAIN board.notice : Unread(r) => board'.occ # board.occ
         /\ FindsAll =>
              /\ board'.occ # {} => board'.latest = Greatest(board'.occ)
              /\ Opened => Decision \/ (board'.latest > board.latest /\ (GoingOn /\ AfterRecovery)')
              /\ \A r \in DOMAIN board.notice : Unread(r) => board'.latest > board.latest]_board
  <2> SUFFICES ASSUME BoardInv, BoardInv', [Next]_vars, board' # board
               PROVE  /\ board'.count = Cardinality(board'.occ)
                      /\ Decision => view = board.count
                      /\ FindsAll /\ board'.occ # {} => board'.latest = Greatest(board'.occ)
                      /\ Honest
    BY DEF Honest
  <2>1. Honest
    BY BoardNext
  <2>2. board'.count = Cardinality(board'.occ)
    BY DEF BoardInv, IsBoard
  <2>3. Decision => view = board.count
    BY DEF Decision, UpdateOperationalAlertState, SameAlert, BoardInv, ViewTrue
  <2>4. ASSUME FindsAll, board'.occ # {} PROVE board'.latest = Greatest(board'.occ)
    <3>1. UNCHANGED <<source, isolation>>
      BY SameDatabase
    <3>2. FindsAll'
      BY <2>4, <3>1 DEF FindsAll
    <3>3. /\ board'.occ \in SUBSET Nat /\ board'.latest \in board'.occ
          /\ \A o \in board'.occ : o <= board'.latest
      BY <2>4, <3>2 DEF BoardInv, IsBoard
    <3>4. QED
      BY <3>3, GreatestOf
  <2>5. QED
    BY <2>1, <2>2, <2>3, <2>4
<1>2. QED
  BY <1>1, BoardInvariance, PTL DEF Spec, AlertsTrue
=============================================================================
