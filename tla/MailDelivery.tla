---------------------------- MODULE MailDelivery ----------------------------
(***************************************************************************)
(* The mail that follows an operational notice                             *)
(* (service/notification_delivery.go, smtp*.go, pkg/smtpclient).           *)
(*                                                                         *)
(* A notice leaves one intent per occurrence and recipient.  A server's    *)
(* worker claims an intent under a lease, checks the recipient and the     *)
(* SMTP settings, talks to the relay and records what became of it; it may *)
(* stop at any step, and any server turns an intent whose lease has run    *)
(* out to "unknown".  An administrator may send one test mail per request. *)
(*                                                                         *)
(* The lease token is fresh at every claim, and so is the number of the    *)
(* attempt: the attempt stands for both.  A lease is longer than a send    *)
(* may take, but a stalled server outlives any lease: it runs out at any   *)
(* moment.  Back-off and cool-down are left to the choice of the moment.   *)
(***************************************************************************)
EXTENDS Naturals, FiniteSets, Functions

CONSTANTS Recipients,    \* users
          Workers,       \* one delivery worker per server
          MaxAttempts,   \* notificationDeliveryMaxAttempts
          MaxSettings,   \* bound: SMTP settings are saved this often
          MaxCrashes     \* bound: workers and request handlers that stop midway

\* No worker has the name of the test's handler, and no user that of the test.
ASSUME MailAssumption ==
    /\ MaxAttempts \in Nat \ {0} /\ MaxSettings \in Nat /\ MaxCrashes \in Nat
    /\ "handler" \notin Workers /\ "test" \notin Recipients

VARIABLES role,      \* per recipient: operator, member or gone
          wants,     \* recipients who asked for mail
          smtp,      \* the settings row
          intent,    \* occurrence and recipient -> intent row
          test,      \* the row of the test request
          sender,    \* per worker, and the test's handler: the job at hand
          wire,      \* sends whose content may have reached the relay
          mailed,    \* sends the relay accepted
          crashes,
          changes    \* changes of people and of what they ask for that are still to come

mailVars == <<role, wants, smtp, intent, test, sender, wire, mailed, crashes, changes>>

Test == <<0, "test">>
Handler == "handler"
Senders == Workers \union {Handler}
Idle == [step |-> "idle"]

MailInit(enabled, bound) ==
    /\ role = [r \in Recipients |-> "operator"]
    /\ wants = Recipients
    /\ smtp = [enabled |-> enabled, etag |-> IF enabled THEN 1 ELSE MaxSettings + 1]
    /\ intent = <<>>
    /\ test = "none"
    /\ sender = [s \in Senders |-> Idle]
    /\ wire = {}
    /\ mailed = {}
    /\ crashes = 0
    /\ changes = bound

(***************************************************************************)
(* People and settings.                                                    *)
(***************************************************************************)
Changes == changes > 0 /\ changes' = changes - 1

ChangeRole(r, to) ==
    /\ Changes
    /\ role[r] # to
    /\ role' = [role EXCEPT ![r] = to]
    /\ UNCHANGED <<wants, smtp, intent, test, sender, wire, mailed, crashes>>

(* Compared by ETag and refused without system.write.                      *)
WriteNotificationSettings(r) ==
    /\ Changes
    /\ role[r] = "operator"
    /\ wants' = (wants \ {r}) \union ({r} \ wants)
    /\ UNCHANGED <<role, smtp, intent, test, sender, wire, mailed, crashes>>

(* The relay was reached with the new settings before they are saved under *)
(* a fresh ETag; WriteSMTPSender saves a new ETag and leaves the switch.   *)
WriteSMTPSettings(enabled) ==
    /\ smtp.etag <= MaxSettings
    /\ smtp' = [enabled |-> enabled, etag |-> smtp.etag + 1]
    /\ UNCHANGED <<role, wants, intent, test, sender, wire, mailed, crashes, changes>>

WriteSMTPSender == WriteSMTPSettings(smtp.enabled)

(***************************************************************************)
(* The worker.                                                             *)
(***************************************************************************)
Terminal == {"accepted", "unknown", "failed"}

(* The settings allow a mail to r: one intent, once.                       *)
Addressed(r) == smtp.enabled /\ r \in wants
NewIntent == [status |-> "pending", attempts |-> 0, etag |-> smtp.etag]

Due_PendingOnly(i) == intent[i].status = "pending"
Due(i) == intent[i].status \in {"pending", "retry"}

claimNotificationDelivery(w, i) ==
    /\ sender[w] = Idle
    /\ Due(i)
    /\ intent' = [intent EXCEPT ![i].status = "sending", ![i].attempts = @ + 1]
    /\ sender' = [sender EXCEPT ![w] = [step |-> "check", id |-> i, attempt |-> intent[i].attempts + 1]]
    /\ UNCHANGED <<role, wants, smtp, test, wire, mailed, crashes, changes>>

Step(s, step) == [sender EXCEPT ![s] = [@ EXCEPT !.step = step]]
SenderOnly(s, step) ==
    /\ sender' = Step(s, step)
    /\ UNCHANGED <<role, wants, smtp, intent, test, mailed, crashes, changes>>

Send(s) == <<sender[s].id, sender[s].attempt>>

(* An offboarding notice needs an admitted user, the others an operator.   *)
Entitled(i, members) == role[i[2]] \in {"operator"} \union IF members THEN {"member"} ELSE {}
SameSettings(i) == smtp.enabled /\ smtp.etag = intent[i].etag

(* Before any byte goes out: the checks pass, or the intent fails for good *)
(* (a secret that cannot be opened included).                              *)
executeNotificationDelivery(w, members) ==
    LET i == sender[w].id IN
    /\ sender[w].step = "check"
    /\ \/ /\ Entitled(i, members)
          /\ SameSettings(i)
          /\ SenderOnly(w, "send")
       \/ SenderOnly(w, "failed")
    /\ UNCHANGED wire

(* Connection, TLS, authentication, MAIL, RCPT or DATA is refused.         *)
NotSent(s) ==
    /\ sender[s].step = "send"
    /\ SenderOnly(s, IF s = Handler \/ sender[s].attempt >= MaxAttempts THEN "failed" ELSE "retry")
    /\ UNCHANGED wire

(* From here on the relay may have the content.                            *)
Data(s) ==
    /\ sender[s].step = "send"
    /\ wire' = wire \union {Send(s)}
    /\ SenderOnly(s, "data")

(* External: the relay takes the message, whoever still waits for it, or   *)
(* never does.                                                             *)
RelayAccepts(m) ==
    /\ wire' = wire \ {m}
    /\ mailed' = mailed \union {m}
    /\ UNCHANGED <<role, wants, smtp, intent, test, sender, crashes, changes>>

RelayDrops(m) ==
    /\ wire' = wire \ {m}
    /\ UNCHANGED <<role, wants, smtp, intent, test, sender, mailed, crashes, changes>>

Answered(s) ==
    /\ sender[s].step = "data"
    /\ Send(s) \in mailed
    /\ SenderOnly(s, "accepted")
    /\ UNCHANGED wire

Unanswered(s) ==
    /\ sender[s].step = "data"
    /\ SenderOnly(s, "unknown")
    /\ UNCHANGED wire

(* The intent is still under this lease; else the worker reports an error  *)
(* and the row stays.                                                      *)
Holds(w) ==
    /\ intent[sender[w].id].status = "sending"
    /\ intent[sender[w].id].attempts = sender[w].attempt

finishNotificationDelivery(w) ==
    /\ sender[w].step \in Terminal \union {"retry"}
    /\ sender' = [sender EXCEPT ![w] = Idle]
    /\ intent' = IF Holds(w)
                   THEN [intent EXCEPT ![sender[w].id].status = sender[w].step]
                   ELSE intent
    /\ UNCHANGED <<role, wants, smtp, test, wire, mailed, crashes, changes>>

(* The server stops, or cannot write: what it had in memory is gone.       *)
Stop(s) ==
    /\ sender[s] # Idle
    /\ crashes < MaxCrashes
    /\ crashes' = crashes + 1
    /\ sender' = [sender EXCEPT ![s] = Idle]
    /\ UNCHANGED <<role, wants, smtp, intent, test, wire, mailed, changes>>

ExpiredStatus_Retry == "retry"
ExpiredStatus == "unknown"

(* FlushNotificationDelivery of any server.                                *)
ExpireLease(i) ==
    /\ intent[i].status = "sending"
    /\ intent' = [intent EXCEPT ![i].status = ExpiredStatus]
    /\ UNCHANGED <<role, wants, smtp, test, sender, wire, mailed, crashes, changes>>

(***************************************************************************)
(* The test mail: one row per request, however often it is repeated.       *)
(***************************************************************************)
TestSMTP ==
    /\ sender[Handler] = Idle
    /\ test = "none"
    /\ smtp.enabled
    /\ test' = "pending"
    /\ sender' = [sender EXCEPT ![Handler] = [step |-> "send", id |-> Test, attempt |-> 1]]
    /\ UNCHANGED <<role, wants, smtp, intent, wire, mailed, crashes, changes>>

TestDone ==
    /\ sender[Handler].step \in Terminal
    /\ test' = IF test = "pending" THEN sender[Handler].step ELSE test
    /\ sender' = [sender EXCEPT ![Handler] = Idle]
    /\ UNCHANGED <<role, wants, smtp, intent, wire, mailed, crashes, changes>>

(* A pending row older than a send may take is shown as interrupted.       *)
smtpTestView == IF test = "pending" THEN {"pending", "unknown"} ELSE {test}

(***************************************************************************)
(* Properties.                                                             *)
(***************************************************************************)
Received(id) == {m \in mailed : m[1] = id}
OnTheWay(id) == {m \in wire : m[1] = id}
Told(id, status) ==
    /\ Cardinality(Received(id) \union OnTheWay(id)) <= 1
    /\ status = "accepted" => Received(id) # {}
    /\ status \in {"pending", "retry", "failed"} => Received(id) \union OnTheWay(id) = {}

(* What the rows say of a mail is true, whoever stopped or stalled and     *)
(* whatever lease ran out: no occurrence is mailed twice to a recipient,   *)
(* an accepted one has been mailed, and a failed one, or one that will be  *)
(* tried again, never was and never will be by an earlier attempt.  So is  *)
(* what the view says of a test mail.                                      *)
MailTruth ==
    /\ \A i \in DOMAIN intent : Told(i, intent[i].status)
    /\ \A v \in smtpTestView \ {"pending"} : Told(Test, v)
=============================================================================
