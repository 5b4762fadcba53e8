----------------------------- MODULE SignInProofs -----------------------------
(***************************************************************************)
(* Sessions, for every number of accounts, sign-ins and identities and for *)
(* every order of sign-ins, reconfigurations and revocations.              *)
(*                                                                         *)
(* A session row is justified by rows that other transactions rewrite, so  *)
(* the proof is about what each of them takes away: a row either stands on *)
(* accounts, policy, provider and link that did not change, or it is gone  *)
(* with the change (SessionsStand).  A sign-in that is still under way     *)
(* needs less, for its last transaction asks everything again; only that   *)
(* it was cut off cannot be asked again.  It is remembered in the status   *)
(* of a ceremony row; for a directory call and an emergency sign-in, which *)
(* have no row, in the revision they captured, the provider's or the       *)
(* policy's: it never comes back, because a new one is drawn among those   *)
(* that nothing refers to (FlowsTimely).  A password sign-in remembers     *)
(* nothing, and NoRevival says nothing of it.                              *)
(***************************************************************************)
EXTENDS SignIn, TLAPS

AllMethods == Methods \cup {"local", "emergency"}

ProofRows ==
  [config : Nat, policy : Nat, binding : Nat \cup {None}, pw : Nat, gen : Nat]
UserRows == [active : BOOLEAN, admin : BOOLEAN, pw : Nat]
FactorRows == [enabled : BOOLEAN, gen : Nat, failures : Nat]
ProviderRows ==
  [config : Nat, policy : Nat, review : Nat, enabled : BOOLEAN,
   verified : {None} \cup [by : Users, binding : Nat]]
BindingRows == [id : Nat, subject : Subjects \cup {None}, config : Nat]
SessionRows ==
  [user : Users, method : AllMethods, proof : ProofRows, pw : Nat, factor : BOOLEAN,
   cut : BOOLEAN, late : BOOLEAN]
ChallengeRows ==
  [user : Users, method : AllMethods, proof : ProofRows, pw : Nat, gen : Nat,
   attempts : Nat, session : SessionIds \cup {None}, cut : BOOLEAN, late : BOOLEAN]
FlowRows ==
  [method : AllMethods, purpose : {"login", "bind", "verify"},
   status : Open \cup {"failed", "consumed"}, config : Nat, policy : Nat, review : Nat,
   user : Users \cup {None}, pw : Nat, gen : Nat, session : SessionIds \cup {None},
   binding : Nat \cup {None}, subject : Subjects \cup {None}, seen : SUBSET Nat,
   cut : BOOLEAN]

\* What the administrators and the accounts' owners wrote.
Accounts ==
  /\ deployment \in Deployments
  /\ user \in [Users -> UserRows]
  /\ mfa \in [Users -> FactorRows]
  /\ policy \in [forced : BOOLEAN, admin : Users \cup {None}, rev : Nat]
  /\ provider \in [Methods -> ProviderRows]
  /\ binding \in [Methods -> [Users -> {None} \cup BindingRows]]

\* The row r stands on the present accounts, policy, provider and link.
Entitled(r) ==
  /\ user[r.user].active
  /\ policy.forced => r.method \in SSO \cup {"emergency"}
  /\ r.method \in Methods => ProviderPrimary(r)
  /\ r.method = "emergency" => emergencyCurrent(r)

\* The row r was not made by a sign-in that had been cut off.
Timely(r) == (r.method # "local" => ~ r.cut) /\ (r.method \in {"saml", "ldap"} => ~ r.late)

Stands(r) ==
  /\ Entitled(r) /\ Timely(r)
  /\ r.pw = user[r.user].pw
  /\ mfa[r.user].enabled => r.factor

SessionsStand ==
  /\ session \in [SessionIds -> {None} \cup SessionRows]
  /\ \A s \in SessionIds : session[s] # None => Stands(session[s])

ChallengesTimely ==
  /\ challenge \in [Users -> [Purposes -> {None} \cup ChallengeRows]]
  /\ \A u \in Users, p \in Purposes : challenge[u][p] # None =>
       /\ challenge[u][p].user = u /\ Timely(challenge[u][p])
       /\ p = "emergency" => challenge[u][p].method = "emergency"

\* Whose sign-in it is; and what keeps one that was cut off from completing.
FlowTimely(c) ==
  /\ c.method \in {"local", "emergency"} \/ c.purpose # "login" => c.user \in Users
  /\ c.method \in Redirect /\ c.status \in Open => ~ c.cut
  /\ c.method = "ldap" /\ c.purpose = "login" =>
       c.binding = None /\ (c.cut => c.policy # provider["ldap"].policy)
  /\ c.method = "emergency" /\ c.cut => c.policy # policy.rev

FlowsTimely ==
  /\ flow \in [Flows -> {None} \cup FlowRows]
  /\ \A f \in Flows : flow[f] # None => FlowTimely(flow[f])

(* Every row has its type, every session stands, and no sign-in that was   *)
(* cut off can still complete.                                             *)
SignInInv == Accounts /\ SessionsStand /\ ChallengesTimely /\ FlowsTimely

-----------------------------------------------------------------------------
(* A name that is drawn is one of Names, and nothing refers to it. *)
LEMMA FreshName ==
  ASSUME NEW used, NameLeft(used)
  PROVE  Fresh(used) \in Nat /\ Fresh(used) \notin used
<1>1. PICK n \in Names : Least(n, used)
  BY DEF NameLeft
<1>2. Least(Fresh(used), used) /\ Fresh(used) \in Names
  BY <1>1 DEF Fresh
<1> QED
  BY <1>2, SignInAssumption DEF Least

(* The revision a live sign-in captured is in use. *)
LEMMA CapturedRevisionUsed ==
  ASSUME NEW f \in Flows, flow[f] # None
  PROVE  flow[f].policy \in RevisionsUsed
<1> DEFINE captured == UNION {{flow[g].config, flow[g].policy, flow[g].review} : g \in FlowsLive}
<1>1. f \in FlowsLive
  BY DEF FlowsLive
<1>2. flow[f].policy \in captured
  BY <1>1
<1>3. \A x \in captured : x \in RevisionsUsed
  <2> HIDE DEF captured
  <2> DEFINE proved == UNION {{p.config, p.policy} : p \in Proofs}
             configured == UNION {{provider[m].config, provider[m].policy, provider[m].review} : m \in Methods}
             linked == {b.config : b \in Bindings}
  <2>1. RevisionsUsed = proved \cup configured \cup captured \cup linked \cup {policy.rev}
    BY DEF RevisionsUsed, captured
  <2> HIDE DEF proved, configured, linked
  <2> QED
    BY <2>1
<1> QED
  BY <1>2, <1>3

(* primaryValidateSession, method by method. *)
LEMMA PrimaryEntitled ==
  ASSUME NEW r, r.method \in AllMethods, user[r.user].active
  PROVE  primaryValidateSession(r) <=> Entitled(r)
BY DEF primaryValidateSession, Entitled, authenticationMethodAllowed, AllMethods, Methods,
       Redirect, SSO, oidcPrimary, oauthPrimary, samlPrimary, ldapPrimary,
       namedIdentityPrimary, emergencyCurrent

(* Nothing that a row stands on changes. *)
LEMMA StandsFrame ==
  ASSUME NEW r, Stands(r), UNCHANGED <<user, policy, provider, binding>>,
         mfa'[r.user].enabled = mfa[r.user].enabled, mfa'[r.user].gen = mfa[r.user].gen
  PROVE  Stands(r)'
BY DEF Stands, Entitled, Timely, ProviderPrimary, Usable, emergencyCurrent

(* The session table after a step, row by row. *)
LEMMA SessionsStandNext ==
  ASSUME session' \in [SessionIds -> {None} \cup SessionRows],
         \A s \in SessionIds : \A r : r = session'[s] /\ r # None => Stands(r)'
  PROVE  SessionsStand'
BY DEF SessionsStand, Stands, Entitled, Timely, ProviderPrimary, Usable, emergencyCurrent

(* A session is made over the table base. *)
LEMMA Created ==
  ASSUME NEW row \in SessionRows, NEW base \in [SessionIds -> {None} \cup SessionRows],
         createSession(row, base)
  PROVE  /\ session' \in [SessionIds -> {None} \cup SessionRows]
         /\ \A s \in SessionIds : session'[s] = row \/ session'[s] = base[s]
<1>1. PICK x : session' = [base EXCEPT ![x] = row]
  BY DEF createSession
<1> QED
  BY <1>1

(* The sign-ins after a step that leaves the directory's revision alone. *)
LEMMA FlowsFrame ==
  ASSUME FlowsTimely, UNCHANGED flow,
         provider'["ldap"].policy = provider["ldap"].policy, policy'.rev = policy.rev
  PROVE  FlowsTimely'
BY DEF FlowsTimely, FlowTimely

LEMMA FlowSet ==
  ASSUME FlowsTimely, NEW f \in Flows, NEW c \in {None} \cup FlowRows,
         flow' = [flow EXCEPT ![f] = c],
         provider'["ldap"].policy = provider["ldap"].policy, policy'.rev = policy.rev,
         c # None => FlowTimely(c)
  PROVE  FlowsTimely'
<1>1. flow' \in [Flows -> {None} \cup FlowRows]
  BY DEF FlowsTimely
<1>2. ASSUME NEW g \in Flows, flow'[g] # None
      PROVE  FlowTimely(flow[g])'
  <2>1. CASE g = f
    <3>1. flow'[g] = c /\ c # None
      BY <2>1, <1>2 DEF FlowsTimely
    <3> QED
      BY <3>1 DEF FlowTimely
  <2>2. CASE g # f
    <3>1. flow'[g] = flow[g] /\ FlowTimely(flow[g])
      BY <2>2, <1>2 DEF FlowsTimely
    <3> QED
      BY <3>1 DEF FlowTimely
  <2> QED
    BY <2>1, <2>2
<1> QED
  BY <1>1, <1>2 DEF FlowsTimely

(* A step that makes and takes no session and no challenge, and leaves     *)
(* what the sessions stand on alone.                                       *)
LEMMA AccountsFrame ==
  ASSUME SignInInv, UNCHANGED <<deployment, user, policy, provider, binding>>,
         mfa' \in [Users -> FactorRows],
         \A u \in Users : mfa'[u].enabled = mfa[u].enabled /\ mfa'[u].gen = mfa[u].gen
  PROVE  /\ Accounts'
         /\ \A r : Stands(r) /\ r.user \in Users => Stands(r)'
         /\ UNCHANGED session => SessionsStand'
         /\ UNCHANGED challenge => ChallengesTimely'
         /\ UNCHANGED flow => FlowsTimely'
<1>1. Accounts'
  BY DEF SignInInv, Accounts
<1>2. ASSUME NEW r, Stands(r), r.user \in Users
      PROVE  Stands(r)'
  BY <1>2, StandsFrame
<1>3. ASSUME UNCHANGED session
      PROVE  SessionsStand'
  <2>1. session' \in [SessionIds -> {None} \cup SessionRows]
    BY <1>3 DEF SignInInv, SessionsStand
  <2>2. ASSUME NEW s \in SessionIds, NEW r, r = session'[s], r # None
        PROVE  Stands(r)'
    <3>1. r = session[s] /\ r \in SessionRows
      BY <1>3, <2>2 DEF SignInInv, SessionsStand
    <3>2. Stands(r) /\ r.user \in Users
      BY <3>1, <2>2 DEF SignInInv, SessionsStand, SessionRows
    <3> QED
      BY <3>2, <1>2
  <2> QED
    BY <2>1, <2>2, SessionsStandNext
<1>4. UNCHANGED challenge => ChallengesTimely'
  BY DEF SignInInv, ChallengesTimely, Timely
<1>5. UNCHANGED flow => FlowsTimely'
  BY FlowsFrame DEF SignInInv
<1> QED
  BY <1>1, <1>2, <1>3, <1>4, <1>5

(* The same for steps that leave the factors alone. *)
LEMMA Untouched ==
  ASSUME SignInInv, UNCHANGED <<deployment, user, mfa, policy, provider, binding>>
  PROVE  /\ Accounts'
         /\ \A r : Stands(r) /\ r.user \in Users => Stands(r)'
         /\ UNCHANGED session => SessionsStand'
         /\ UNCHANGED challenge => ChallengesTimely'
         /\ UNCHANGED flow => FlowsTimely'
BY AccountsFrame DEF SignInInv, Accounts

(* A row that stands is added to a table of rows that stand. *)
LEMMA CreatedStands ==
  ASSUME SignInInv, NEW row \in SessionRows, Stands(row)', createSession(row, session),
         \A r : Stands(r) /\ r.user \in Users => Stands(r)'
  PROVE  SessionsStand'
<1>1. session \in [SessionIds -> {None} \cup SessionRows]
  BY DEF SignInInv, SessionsStand
<1>2. /\ session' \in [SessionIds -> {None} \cup SessionRows]
      /\ \A s \in SessionIds : session'[s] = row \/ session'[s] = session[s]
  BY <1>1, Created
<1>3. ASSUME NEW s \in SessionIds, NEW r, r = session'[s], r # None
      PROVE  Stands(r)'
  <2>1. CASE r = row
    BY <2>1
  <2>2. CASE r = session[s]
    <3>1. Stands(r)
      BY <2>2, <1>3 DEF SignInInv, SessionsStand
    <3>2. r.user \in Users
      BY <2>2, <1>1, <1>3 DEF SessionRows
    <3> QED
      BY <3>1, <3>2
  <2> QED
    BY <2>1, <2>2, <1>2, <1>3
<1> QED
  BY <1>2, <1>3, SessionsStandNext

(* One challenge row is written or removed. *)
LEMMA ChallengeSet ==
  ASSUME ChallengesTimely, NEW u \in Users, NEW p \in Purposes,
         NEW c \in {None} \cup ChallengeRows,
         challenge' = [challenge EXCEPT ![u][p] = c],
         c # None => c.user = u /\ Timely(c) /\ (p = "emergency" => c.method = "emergency")
  PROVE  ChallengesTimely'
<1>1. challenge' \in [Users -> [Purposes -> {None} \cup ChallengeRows]]
  BY DEF ChallengesTimely
<1>2. ASSUME NEW v \in Users, NEW q \in Purposes, NEW d, d = challenge'[v][q], d # None
      PROVE  d.user = v /\ Timely(d) /\ (q = "emergency" => d.method = "emergency")
  <2>1. CASE v = u /\ q = p
    <3>1. d = c
      BY <2>1, <1>2 DEF ChallengesTimely
    <3> QED
      BY <3>1, <2>1, <1>2
  <2>2. CASE ~ (v = u /\ q = p)
    <3>1. d = challenge[v][q]
      BY <2>2, <1>2 DEF ChallengesTimely
    <3> QED
      BY <3>1, <1>2 DEF ChallengesTimely
  <2> QED
    BY <2>1, <2>2
<1> QED
  BY <1>1, <1>2 DEF ChallengesTimely, Timely

(* A completed primary sign-in: its session, or the challenge before it. *)
LEMMA SignedInStands ==
  ASSUME SignInInv, UNCHANGED <<deployment, user, mfa, policy, provider, binding>>,
         NEW u \in Users, NEW m \in AllMethods, NEW proof \in ProofRows,
         NEW cut \in BOOLEAN, NEW late \in BOOLEAN,
         m # "local" => ~ cut, m \in {"saml", "ldap"} => ~ late,
         Entitled(SessionRow(u, m, proof, user[u].pw, FALSE, cut, late)),
         SignedIn(u, m, proof, cut, late)
  PROVE  Accounts' /\ SessionsStand' /\ ChallengesTimely'
<1>0. Accounts'
  BY Untouched
<1>1. CASE mfa[u].enabled
  <2>1. SessionsStand'
    BY <1>1, Untouched DEF SignedIn
  <2>2. PICK c : /\ c = [user |-> u, method |-> m, proof |-> proof, pw |-> user[u].pw,
                         gen |-> mfa[u].gen, attempts |-> 0, session |-> None,
                         cut |-> cut, late |-> late]
                 /\ challenge' = [challenge EXCEPT ![u]["login"] = c]
    BY <1>1 DEF SignedIn, issueMFALoginChallenge
  <2>3. user[u].pw \in Nat /\ mfa[u].gen \in Nat
    BY DEF SignInInv, Accounts, UserRows, FactorRows
  <2>4. c \in ChallengeRows /\ c.user = u /\ Timely(c)
    BY <2>2, <2>3 DEF ChallengeRows, Timely
  <2>5. ChallengesTimely'
    BY <2>2, <2>4, ChallengeSet DEF SignInInv, Purposes
  <2> QED
    BY <1>0, <2>1, <2>5
<1>2. CASE ~ mfa[u].enabled
  <2>1. PICK row : /\ row = SessionRow(u, m, proof, user[u].pw, FALSE, cut, late)
                   /\ createSession(row, session) /\ UNCHANGED challenge
    BY <1>2 DEF SignedIn
  <2>2. user[u].pw \in Nat
    BY DEF SignInInv, Accounts, UserRows
  <2>3. row \in SessionRows
    BY <2>1, <2>2 DEF SessionRow, SessionRows
  <2>4. Entitled(row)
    BY <2>1
  <2>5. Stands(row) /\ row.user \in Users
    BY <2>4, <2>1, <1>2 DEF Stands, Timely, SessionRow
  <2>6. Stands(row)'
    BY <2>5, Untouched
  <2>7. SessionsStand'
    BY <2>1, <2>3, <2>6, CreatedStands, Untouched
  <2> QED
    BY <1>0, <2>1, <2>7, Untouched
<1> QED
  BY <1>1, <1>2

-----------------------------------------------------------------------------
(* The first state. *)
LEMMA InitSignIn == Init => SignInInv
<1> SUFFICES ASSUME Init PROVE SignInInv
  OBVIOUS
<1>1. PICK d \in Deployments :
        /\ deployment = d
        /\ user = [u \in Users |-> [active |-> u \in d.people, admin |-> u = FirstAdmin, pw |-> 1]]
        /\ provider = [m \in Methods |-> Standing(m, d.ready)]
        /\ binding = [m \in Methods |-> [u \in Users |->
             IF m \in d.ready /\ u = FirstAdmin
               THEN [id |-> 1, subject |-> CHOOSE x \in Subjects : TRUE, config |-> 1]
               ELSE None]]
  BY DEF Init
<1>2. user \in [Users -> UserRows]
  BY <1>1 DEF UserRows
<1>3. mfa \in [Users -> FactorRows]
  BY DEF Init, FactorRows
<1>4. \A m \in Methods : Standing(m, d.ready) \in ProviderRows
  BY SignInAssumption DEF Standing, ProviderRows
<1>5. provider \in [Methods -> ProviderRows]
  BY <1>1, <1>4
<1>6. (CHOOSE x \in Subjects : TRUE) \in Subjects
  BY SignInAssumption
<1>7. [id |-> 1, subject |-> CHOOSE x \in Subjects : TRUE, config |-> 1] \in BindingRows
  BY <1>6 DEF BindingRows
<1>8. binding \in [Methods -> [Users -> {None} \cup BindingRows]]
  <2> DEFINE first == [id |-> 1, subject |-> CHOOSE x \in Subjects : TRUE, config |-> 1]
  <2>1. first \in BindingRows
    BY <1>7
  <2>2. binding = [m \in Methods |-> [u \in Users |->
                     IF m \in d.ready /\ u = FirstAdmin THEN first ELSE None]]
    BY <1>1
  <2> HIDE DEF first
  <2> QED
    BY <2>1, <2>2
<1>9. policy \in [forced : BOOLEAN, admin : Users \cup {None}, rev : Nat]
  BY DEF Init
<1>10. Accounts
  BY <1>1, <1>2, <1>3, <1>5, <1>8, <1>9 DEF Accounts
<1>11. SessionsStand /\ ChallengesTimely /\ FlowsTimely
  BY DEF Init, SessionsStand, ChallengesTimely, FlowsTimely
<1> QED
  BY <1>10, <1>11 DEF SignInInv

-----------------------------------------------------------------------------
(* Password sign-in, and sessions that end. *)

LEMMA NoFlowRow ==
  ASSUME NEW m \in AllMethods, NEW purpose \in {"login", "bind", "verify"},
         NEW status \in Open
  PROVE  NoFlow(m, purpose, status) \in FlowRows
BY DEF NoFlow, FlowRows

LEMMA BeginLoginStep ==
  ASSUME SignInInv, NEW f \in Flows, NEW u \in Users, beginLogin(f, u)
  PROVE  SignInInv'
<1>1. PICK c : /\ c = [NoFlow("local", "login", "exchanging") EXCEPT !.user = u, !.pw = user[u].pw]
               /\ flow' = [flow EXCEPT ![f] = c]
  BY DEF beginLogin
<1>2. user[u].pw \in Nat
  BY DEF SignInInv, Accounts, UserRows
<1>3. c \in FlowRows /\ c.user = u /\ c.method = "local"
  BY <1>1, <1>2 DEF NoFlow, FlowRows, AllMethods, Open
<1>4. FlowTimely(c)
  BY <1>3 DEF FlowTimely, Redirect
<1>5. FlowsTimely'
  BY <1>1, <1>3, <1>4, FlowSet DEF beginLogin, SignInInv
<1> QED
  BY <1>5, Untouched DEF beginLogin, SignInInv

(* A sign-in row goes. *)
LEMMA FlowGone ==
  ASSUME FlowsTimely, NEW f \in Flows, flow' = [flow EXCEPT ![f] = None],
         provider'["ldap"].policy = provider["ldap"].policy, policy'.rev = policy.rev
  PROVE  FlowsTimely'
BY FlowSet

LEMMA FinishLoginStep ==
  ASSUME SignInInv, NEW f \in Flows, finishLogin(f)
  PROVE  SignInInv'
<1> DEFINE c == flow[f]
<1>1. c # None /\ c.method = "local" /\ UNCHANGED <<deployment, user, mfa, policy, provider, binding>>
  BY DEF finishLogin
<1>2. FlowsTimely'
  BY FlowGone DEF finishLogin, SignInInv
<1>3. c.user \in Users /\ c.cut \in BOOLEAN
  BY <1>1 DEF SignInInv, FlowsTimely, FlowTimely, FlowRows
<1>4. CASE UNCHANGED <<session, challenge>>
  BY <1>1, <1>2, <1>4, Untouched DEF SignInInv
<1>5. CASE /\ authenticationMethodAllowed("local") /\ PasswordCurrent(c)
           /\ SignedIn(c.user, "local", NoProof, c.cut, FALSE)
  <2>1. NoProof \in ProofRows
    BY DEF NoProof, ProofRows
  <2>2. user[c.user].active /\ (policy.forced => "local" \in SSO)
    BY <1>5 DEF PasswordCurrent, authenticationMethodAllowed
  <2>3. Entitled(SessionRow(c.user, "local", NoProof, user[c.user].pw, FALSE, c.cut, FALSE))
    BY <2>2 DEF Entitled, SessionRow, SSO, Methods, Redirect
  <2>4. Accounts' /\ SessionsStand' /\ ChallengesTimely'
    BY <1>1, <1>3, <1>5, <2>1, <2>3, SignedInStands DEF AllMethods
  <2> QED
    BY <1>2, <2>4 DEF SignInInv
<1> QED
  BY <1>4, <1>5 DEF finishLogin

LEMMA SessionGone ==
  ASSUME SignInInv, NEW s \in SessionIds, session' = [session EXCEPT ![s] = None],
         UNCHANGED <<deployment, user, mfa, policy, provider, binding, challenge, flow>>
  PROVE  SignInInv'
<1>1. session' \in [SessionIds -> {None} \cup SessionRows]
  BY DEF SignInInv, SessionsStand
<1>2. ASSUME NEW t \in SessionIds, NEW r, r = session'[t], r # None
      PROVE  Stands(r)'
  <2>1. r = session[t]
    BY <1>2 DEF SignInInv, SessionsStand
  <2>2. Stands(r) /\ r.user \in Users
    BY <2>1, <1>2 DEF SignInInv, SessionsStand, SessionRows
  <2> QED
    BY <2>2, Untouched
<1>3. SessionsStand'
  BY <1>1, <1>2, SessionsStandNext
<1> QED
  BY <1>3, Untouched DEF SignInInv

LEMMA LogoutStep ==
  ASSUME SignInInv, NEW s \in SessionIds, Logout(s) \/ ExpireSession(s)
  PROVE  SignInInv'
BY SessionGone DEF Logout, ExpireSession

LEMMA ExpireFlowStep ==
  ASSUME SignInInv, NEW f \in Flows, ExpireFlow(f)
  PROVE  SignInInv'
BY FlowGone, Untouched DEF ExpireFlow, SignInInv

LEMMA ExpireChallengeStep ==
  ASSUME SignInInv, NEW u \in Users, NEW p \in Purposes, ExpireChallenge(u, p)
  PROVE  SignInInv'
BY ChallengeSet, Untouched DEF ExpireChallenge, SignInInv

LEMMA UnlockStep ==
  ASSUME SignInInv, NEW u \in Users, Unlock(u)
  PROVE  SignInInv'
<1>1. /\ mfa' \in [Users -> FactorRows]
      /\ \A v \in Users : mfa'[v].enabled = mfa[v].enabled /\ mfa'[v].gen = mfa[v].gen
  BY DEF Unlock, SignInInv, Accounts, FactorRows
<1> QED
  BY <1>1, AccountsFrame DEF Unlock, SignInInv

-----------------------------------------------------------------------------
(* The second factor. *)

(* The session that asks, and the account behind it. *)
LEMMA Asking ==
  ASSUME SignInInv, NEW s \in SessionIds, session[s] # None
  PROVE  /\ session[s] \in SessionRows /\ session[s].user \in Users
         /\ session[s].method \in AllMethods /\ Stands(session[s])
BY DEF SignInInv, SessionsStand, SessionRows

LEMMA mfaFailureStep ==
  ASSUME SignInInv, NEW u \in Users, NEW p \in Purposes \cup {None},
         p # None => challenge[u][p] # None, mfaFailure(u, p)
  PROVE  SignInInv'
<1>1. /\ mfa' \in [Users -> FactorRows]
      /\ \A v \in Users : mfa'[v].enabled = mfa[v].enabled /\ mfa'[v].gen = mfa[v].gen
  BY DEF mfaFailure, SignInInv, Accounts, FactorRows
<1>2. Accounts' /\ SessionsStand' /\ FlowsTimely' /\ (UNCHANGED challenge => ChallengesTimely')
  BY <1>1, AccountsFrame DEF mfaFailure
<1>3. CASE p # None
  <2>1. PICK c : /\ c = [challenge[u][p] EXCEPT !.attempts = @ + 1]
                 /\ challenge' = [challenge EXCEPT ![u][p] = c]
    BY <1>3 DEF mfaFailure
  <2>2. challenge[u][p] \in ChallengeRows /\ challenge[u][p].user = u
    BY <1>3 DEF SignInInv, ChallengesTimely
  <2>3. Timely(challenge[u][p]) /\ (p = "emergency" => challenge[u][p].method = "emergency")
    BY <1>3 DEF SignInInv, ChallengesTimely
  <2>4. c \in ChallengeRows /\ c.user = u
    BY <2>1, <2>2 DEF ChallengeRows
  <2>5. c.cut = challenge[u][p].cut /\ c.late = challenge[u][p].late
        /\ c.method = challenge[u][p].method
    BY <2>1, <2>2 DEF ChallengeRows
  <2>6. Timely(c) /\ (p = "emergency" => c.method = "emergency")
    BY <2>3, <2>5 DEF Timely
  <2>7. ChallengesTimely'
    BY <1>3, <2>1, <2>4, <2>6, ChallengeSet DEF SignInInv
  <2> QED
    BY <1>2, <2>7 DEF SignInInv
<1>4. CASE p = None
  BY <1>2, <1>4 DEF mfaFailure, SignInInv
<1> QED
  BY <1>3, <1>4

LEMMA WrongLocalProofStep ==
  ASSUME SignInInv, NEW s \in SessionIds, WrongLocalProof(s)
  PROVE  SignInInv'
BY Asking, mfaFailureStep DEF WrongLocalProof, mfaSession

(* All challenges of one account are rewritten. *)
LEMMA ChallengesSet ==
  ASSUME ChallengesTimely, NEW u \in Users,
         NEW cs \in [Purposes -> {None} \cup ChallengeRows],
         challenge' = [challenge EXCEPT ![u] = cs],
         \A p \in Purposes : cs[p] # None => cs[p].user = u /\ Timely(cs[p]) /\ (p = "emergency" => cs[p].method = "emergency")
  PROVE  ChallengesTimely'
<1>1. challenge' \in [Users -> [Purposes -> {None} \cup ChallengeRows]]
  BY DEF ChallengesTimely
<1>2. ASSUME NEW v \in Users, NEW q \in Purposes, NEW d, d = challenge'[v][q], d # None
      PROVE  d.user = v /\ Timely(d) /\ (q = "emergency" => d.method = "emergency")
  <2>1. CASE v = u
    <3>1. d = cs[q]
      BY <2>1, <1>2 DEF ChallengesTimely
    <3> QED
      BY <3>1, <2>1, <1>2
  <2>2. CASE v # u
    <3>1. d = challenge[v][q]
      BY <2>2, <1>2 DEF ChallengesTimely
    <3> QED
      BY <3>1, <1>2 DEF ChallengesTimely
  <2> QED
    BY <2>1, <2>2
<1> QED
  BY <1>1, <1>2 DEF ChallengesTimely, Timely

LEMMA NoChallengesRow == NoChallenges \in [Purposes -> {None} \cup ChallengeRows]
BY DEF NoChallenges

(* The account that asks has changed its password or its factor: of its    *)
(* sessions only the renewed one is left, and no emergency session.        *)
LEMMA RotateStands ==
  ASSUME SignInInv, NEW s \in SessionIds, session[s] # None,
         NEW pw \in Nat, NEW factor \in BOOLEAN, NEW u, u = session[s].user,
         rotateAuthenticatedMFASession(s, pw, factor),
         UNCHANGED <<deployment, policy, provider, binding, flow>>,
         user' \in [Users -> UserRows], mfa' \in [Users -> FactorRows],
         \A v \in Users : v # u => user'[v] = user[v] /\ mfa'[v] = mfa[v],
         user'[u].active, user'[u].pw = pw, mfa'[u].enabled => factor
  PROVE  SignInInv'
<1>1. /\ session[s] \in SessionRows /\ u \in Users /\ Stands(session[s])
      /\ session[s].method \in AllMethods
  BY Asking
<1>2. Accounts'
  BY DEF SignInInv, Accounts
<1>3. ChallengesTimely'
  <2>1. challenge' = [challenge EXCEPT ![u] = NoChallenges]
    BY DEF rotateAuthenticatedMFASession
  <2>2. \A p \in Purposes : NoChallenges[p] = None
    BY DEF NoChallenges
  <2> QED
    BY <1>1, <2>1, <2>2, NoChallengesRow, ChallengesSet DEF SignInInv
<1>4. FlowsTimely'
  BY FlowsFrame DEF SignInInv
<1>5. WithoutSessions(u) \in [SessionIds -> {None} \cup SessionRows]
  BY DEF WithoutSessions, SignInInv, SessionsStand
<1>6. ASSUME NEW t \in SessionIds, NEW r, r = WithoutSessions(u)[t], r # None
      PROVE  Stands(r)'
  <2>1. r = session[t] /\ r.user # u
    BY <1>6 DEF WithoutSessions
  <2>2. r.user \in Users /\ Stands(r)
    BY <2>1, <1>6 DEF SignInInv, SessionsStand, SessionRows
  <2>3. user'[r.user] = user[r.user] /\ mfa'[r.user] = mfa[r.user]
    BY <2>1, <2>2
  <2> QED
    BY <2>2, <2>3 DEF Stands, Entitled, Timely, ProviderPrimary, Usable, emergencyCurrent
<1>7. CASE session[s].method = "emergency"
  <2>1. session' = WithoutSessions(u)
    BY <1>7 DEF rotateAuthenticatedMFASession
  <2>2. SessionsStand'
    BY <2>1, <1>5, <1>6, SessionsStandNext
  <2> QED
    BY <1>2, <1>3, <1>4, <2>2 DEF SignInInv
<1>8. CASE session[s].method # "emergency"
  <2>1. PICK row : /\ row = [session[s] EXCEPT !.pw = pw, !.factor = factor]
                   /\ createSession(row, WithoutSessions(u))
    BY <1>8 DEF rotateAuthenticatedMFASession
  <2>2. /\ row \in SessionRows /\ row.user = u /\ row.method = session[s].method
        /\ row.proof = session[s].proof /\ row.cut = session[s].cut
        /\ row.late = session[s].late /\ row.pw = pw /\ row.factor = factor
    BY <1>1, <2>1 DEF SessionRows
  <2>3. Stands(row)'
    BY <1>1, <1>8, <2>2 DEF Stands, Entitled, Timely, ProviderPrimary, Usable
  <2>4. /\ session' \in [SessionIds -> {None} \cup SessionRows]
        /\ \A t \in SessionIds : session'[t] = row \/ session'[t] = WithoutSessions(u)[t]
    BY <2>1, <2>2, <1>5, Created
  <2>5. ASSUME NEW t \in SessionIds, NEW r, r = session'[t], r # None
        PROVE  Stands(r)'
    BY <2>3, <2>4, <2>5, <1>6
  <2>6. SessionsStand'
    BY <2>4, <2>5, SessionsStandNext
  <2> QED
    BY <1>2, <1>3, <1>4, <2>6 DEF SignInInv
<1> QED
  BY <1>7, <1>8

(* An account without a factor draws or drops a generation: no session     *)
(* stands on it.                                                           *)
LEMMA GenerationFrame ==
  ASSUME SignInInv, NEW u \in Users, NEW g \in Nat, ~ mfa[u].enabled,
         mfa' = [mfa EXCEPT ![u].gen = g],
         UNCHANGED <<deployment, user, policy, provider, binding, session, flow>>,
         ChallengesTimely'
  PROVE  SignInInv'
<1>1. /\ mfa' \in [Users -> FactorRows]
      /\ \A v \in Users : mfa'[v].enabled = mfa[v].enabled
      /\ \A v \in Users : v # u => mfa'[v] = mfa[v]
  BY DEF SignInInv, Accounts, FactorRows
<1>2. Accounts'
  BY <1>1 DEF SignInInv, Accounts
<1>3. session' \in [SessionIds -> {None} \cup SessionRows]
  BY DEF SignInInv, SessionsStand
<1>4. ASSUME NEW s \in SessionIds, NEW r, r = session'[s], r # None
      PROVE  Stands(r)'
  <2>1. Stands(r) /\ r.user \in Users
    BY <1>4 DEF SignInInv, SessionsStand, SessionRows
  <2>2. mfa'[r.user].enabled = mfa[r.user].enabled
    BY <2>1, <1>1
  <2>3. CASE r.user # u
    BY <2>1, <2>3, <1>1, StandsFrame
  <2>4. CASE r.user = u
    BY <2>1, <2>2, <2>4 DEF Stands, Entitled, Timely, ProviderPrimary, Usable, emergencyCurrent
  <2> QED
    BY <2>3, <2>4
<1>5. SessionsStand'
  BY <1>3, <1>4, SessionsStandNext
<1>6. FlowsTimely'
  BY FlowsFrame DEF SignInInv
<1> QED
  BY <1>2, <1>5, <1>6 DEF SignInInv

LEMMA BeginMFAEnrollmentStep ==
  ASSUME SignInInv, NEW s \in SessionIds, BeginMFAEnrollment(s)
  PROVE  SignInInv'
<1>1. PICK u, g : u = session[s].user /\ g = Fresh(SecretsUsed)
  OBVIOUS
<1>2. u \in Users /\ ~ mfa[u].enabled
  BY <1>1, Asking DEF BeginMFAEnrollment, mfaSession
<1>3. g \in Nat
  BY <1>1, FreshName DEF BeginMFAEnrollment
<1>4. PICK c : /\ c = [user |-> u, method |-> "local", proof |-> NoProof, pw |-> user[u].pw, gen |-> g,
                       attempts |-> 0, session |-> s, cut |-> FALSE, late |-> FALSE]
               /\ challenge' = [challenge EXCEPT ![u] = [NoChallenges EXCEPT !["enrollment"] = c]]
  BY <1>1 DEF BeginMFAEnrollment
<1>5. user[u].pw \in Nat
  BY <1>2 DEF SignInInv, Accounts, UserRows
<1>6. NoProof \in ProofRows
  BY DEF NoProof, ProofRows
<1>7. c \in ChallengeRows /\ c.user = u /\ Timely(c)
  BY <1>2, <1>3, <1>4, <1>5, <1>6 DEF ChallengeRows, AllMethods, Timely
<1>8. PICK cs : cs = [NoChallenges EXCEPT !["enrollment"] = c]
  OBVIOUS
<1>9. /\ cs \in [Purposes -> {None} \cup ChallengeRows]
      /\ \A p \in Purposes : cs[p] # None => p = "enrollment" /\ cs[p] = c
  BY <1>7, <1>8 DEF NoChallenges, Purposes
<1>10. ChallengesTimely'
  BY <1>2, <1>4, <1>7, <1>8, <1>9, ChallengesSet DEF SignInInv
<1> QED
  BY <1>1, <1>2, <1>3, <1>10, GenerationFrame DEF BeginMFAEnrollment

LEMMA CancelMFAEnrollmentStep ==
  ASSUME SignInInv, NEW s \in SessionIds, CancelMFAEnrollment(s)
  PROVE  SignInInv'
<1>1. PICK u : u = session[s].user
  OBVIOUS
<1>2. u \in Users /\ ~ mfa[u].enabled
  BY <1>1, Asking DEF CancelMFAEnrollment, mfaSession
<1>3. \A p \in Purposes : NoChallenges[p] = None
  BY DEF NoChallenges
<1>4. ChallengesTimely'
  BY <1>1, <1>2, <1>3, NoChallengesRow, ChallengesSet DEF CancelMFAEnrollment, SignInInv
<1> QED
  BY <1>1, <1>2, <1>4, GenerationFrame DEF CancelMFAEnrollment

LEMMA EnableMFAStep ==
  ASSUME SignInInv, NEW s \in SessionIds, EnableMFA(s)
  PROVE  SignInInv'
<1>1. PICK u : u = session[s].user
  OBVIOUS
<1>2. session[s] # None /\ u \in Users /\ Stands(session[s]) /\ session[s] \in SessionRows
  BY <1>1, Asking DEF EnableMFA, mfaSession
<1>3. CASE mfaFailure(u, "enrollment")
  BY <1>1, <1>2, <1>3, mfaFailureStep DEF EnableMFA, Purposes
<1>4. CASE /\ mfa' = [mfa EXCEPT ![u].enabled = TRUE, ![u].failures = 0]
           /\ rotateAuthenticatedMFASession(s, session[s].pw, TRUE)
           /\ UNCHANGED <<deployment, user, policy, provider, binding, flow>>
  <2>1. user' \in [Users -> UserRows]
    BY <1>4 DEF SignInInv, Accounts
  <2>2. mfa' \in [Users -> FactorRows] /\ \A v \in Users : v # u => mfa'[v] = mfa[v]
    BY <1>4 DEF SignInInv, Accounts, FactorRows
  <2>3. user'[u].active /\ user'[u].pw = session[s].pw /\ session[s].pw \in Nat
    BY <1>1, <1>2, <1>4 DEF Stands, Entitled, SessionRows
  <2>4. UNCHANGED <<deployment, user, policy, provider, binding, flow>>
        /\ rotateAuthenticatedMFASession(s, session[s].pw, TRUE)
    BY <1>4
  <2> QED
    BY <1>1, <1>2, <2>1, <2>2, <2>3, <2>4, RotateStands
<1> QED
  BY <1>1, <1>3, <1>4 DEF EnableMFA

LEMMA ChangeMFAStep ==
  ASSUME SignInInv, NEW s \in SessionIds, NEW disable \in BOOLEAN, ChangeMFA(s, disable)
  PROVE  SignInInv'
<1>1. PICK u : u = session[s].user
  OBVIOUS
<1>2. session[s] # None /\ u \in Users /\ Stands(session[s]) /\ session[s] \in SessionRows
  BY <1>1, Asking DEF ChangeMFA, mfaSession, identityLocalProof
<1>3. mfa' = [mfa EXCEPT ![u] = IF disable THEN [enabled |-> FALSE, gen |-> 0, failures |-> 0]
                                          ELSE [mfa[u] EXCEPT !.failures = 0]]
  BY <1>1 DEF ChangeMFA
<1>4. [mfa[u] EXCEPT !.failures = 0] \in FactorRows /\ [enabled |-> FALSE, gen |-> 0, failures |-> 0] \in FactorRows
  BY <1>2 DEF SignInInv, Accounts, FactorRows
<1>5. mfa' \in [Users -> FactorRows] /\ \A v \in Users : v # u => mfa'[v] = mfa[v]
  BY <1>3, <1>4 DEF SignInInv, Accounts
<1>6. UNCHANGED <<deployment, user, policy, provider, binding, flow>>
      /\ rotateAuthenticatedMFASession(s, session[s].pw, TRUE)
  BY DEF ChangeMFA
<1>7. user' \in [Users -> UserRows]
  BY <1>6 DEF SignInInv, Accounts
<1>8. user'[u].active /\ user'[u].pw = session[s].pw /\ session[s].pw \in Nat
  BY <1>1, <1>2, <1>6 DEF Stands, Entitled, SessionRows
<1> QED
  BY <1>1, <1>2, <1>5, <1>6, <1>7, <1>8, RotateStands

LEMMA ChangePasswordStep ==
  ASSUME SignInInv, NEW s \in SessionIds, changePassword(s)
  PROVE  SignInInv'
<1>1. PICK u, p : u = session[s].user /\ p = Fresh(SecretsUsed)
  OBVIOUS
<1>2. session[s] # None /\ u \in Users /\ Stands(session[s]) /\ session[s] \in SessionRows
  BY <1>1, Asking DEF changePassword, mfaSession
<1>3. p \in Nat
  BY <1>1, FreshName DEF changePassword
<1>4. user' = [user EXCEPT ![u].pw = p] /\ rotateAuthenticatedMFASession(s, p, session[s].factor)
      /\ UNCHANGED <<deployment, mfa, policy, provider, binding, flow>>
  BY <1>1 DEF changePassword
<1>5. user' \in [Users -> UserRows] /\ \A v \in Users : v # u => user'[v] = user[v]
  BY <1>3, <1>4 DEF SignInInv, Accounts, UserRows
<1>6. user'[u].active = user[u].active /\ user'[u].pw = p
  BY <1>2, <1>4 DEF SignInInv, Accounts, UserRows
<1>7. user'[u].active /\ session[s].factor \in BOOLEAN /\ (mfa[u].enabled => session[s].factor)
  BY <1>1, <1>2, <1>6 DEF Stands, Entitled, SessionRows
<1>8. mfa' \in [Users -> FactorRows]
  BY <1>4 DEF SignInInv, Accounts
<1> QED
  BY <1>1, <1>2, <1>3, <1>4, <1>5, <1>6, <1>7, <1>8, RotateStands

LEMMA EntitledSame ==
  ASSUME NEW r, NEW q, Entitled(q), r.user = q.user, r.method = q.method, r.proof = q.proof
  PROVE  Entitled(r)
BY DEF Entitled, ProviderPrimary, Usable, emergencyCurrent

(* The answered challenge goes and its session is made. *)
LEMMA AnsweredStands ==
  ASSUME SignInInv, NEW u \in Users, NEW p \in Purposes, NEW row \in SessionRows,
         mfa' = [mfa EXCEPT ![u].failures = 0],
         challenge' = [challenge EXCEPT ![u][p] = None],
         createSession(row, session), Stands(row),
         UNCHANGED <<deployment, user, policy, provider, binding, flow>>
  PROVE  SignInInv'
<1>1. /\ mfa' \in [Users -> FactorRows]
      /\ \A v \in Users : mfa'[v].enabled = mfa[v].enabled /\ mfa'[v].gen = mfa[v].gen
  BY DEF SignInInv, Accounts, FactorRows
<1>2. /\ Accounts' /\ FlowsTimely'
      /\ \A r : Stands(r) /\ r.user \in Users => Stands(r)'
  BY <1>1, AccountsFrame
<1>3. row.user \in Users
  BY DEF SessionRows
<1>4. SessionsStand'
  BY <1>2, <1>3, CreatedStands
<1>5. ChallengesTimely'
  BY ChallengeSet DEF SignInInv
<1> QED
  BY <1>2, <1>4, <1>5 DEF SignInInv

LEMMA CompleteMFALoginStep ==
  ASSUME SignInInv, NEW u \in Users, CompleteMFALogin(u)
  PROVE  SignInInv'
<1>1. PICK c : c = challenge[u]["login"]
  OBVIOUS
<1>2. /\ c # None /\ user[u].active /\ mfaChallengeValid(u, c) /\ primaryValidateSession(c)
  BY <1>1 DEF CompleteMFALogin
<1>3. c \in ChallengeRows /\ c.user = u /\ Timely(c)
  BY <1>1, <1>2 DEF SignInInv, ChallengesTimely, Purposes
<1>4. Entitled(c)
  BY <1>2, <1>3, PrimaryEntitled DEF ChallengeRows
<1>5. CASE mfaFailure(u, "login")
  BY <1>1, <1>2, <1>5, mfaFailureStep DEF Purposes
<1>6. CASE /\ mfa' = [mfa EXCEPT ![u].failures = 0]
           /\ challenge' = [challenge EXCEPT ![u]["login"] = None]
           /\ createSession(SessionRow(u, c.method, c.proof, c.pw, TRUE, c.cut, c.late), session)
           /\ UNCHANGED <<deployment, user, policy, provider, binding, flow>>
  <2>1. PICK row : row = SessionRow(u, c.method, c.proof, c.pw, TRUE, c.cut, c.late)
    OBVIOUS
  <2>2. /\ row \in SessionRows /\ row.user = u /\ row.method = c.method /\ row.proof = c.proof
        /\ row.pw = c.pw /\ row.factor = TRUE /\ row.cut = c.cut /\ row.late = c.late
    BY <1>3, <2>1 DEF SessionRow, SessionRows, ChallengeRows
  <2>3. Entitled(row)
    BY <1>3, <1>4, <2>2, EntitledSame
  <2>4. Stands(row)
    BY <1>2, <1>3, <2>2, <2>3 DEF Stands, Timely, mfaChallengeValid
  <2> QED
    BY <1>6, <2>1, <2>2, <2>4, AnsweredStands DEF Purposes
<1> QED
  BY <1>1, <1>5, <1>6 DEF CompleteMFALogin

-----------------------------------------------------------------------------
(* The emergency entry, the policy and the members. *)

LEMMA BeginEmergencyLoginStep ==
  ASSUME SignInInv, NEW f \in Flows, NEW u \in Users, BeginEmergencyLogin(f, u)
  PROVE  SignInInv'
<1>1. PICK c : /\ c = [NoFlow("emergency", "login", "exchanging") EXCEPT
                         !.user = u, !.pw = user[u].pw, !.policy = policy.rev]
               /\ flow' = [flow EXCEPT ![f] = c]
  BY DEF BeginEmergencyLogin
<1>2. user[u].pw \in Nat /\ policy.rev \in Nat
  BY DEF SignInInv, Accounts, UserRows
<1>3. c \in FlowRows /\ c.user = u /\ c.method = "emergency" /\ c.cut = FALSE
  BY <1>1, <1>2 DEF NoFlow, FlowRows, AllMethods, Open
<1>4. FlowTimely(c)
  BY <1>3 DEF FlowTimely, Redirect
<1>5. FlowsTimely'
  BY <1>1, <1>3, <1>4, FlowSet DEF BeginEmergencyLogin, SignInInv
<1> QED
  BY <1>5, Untouched DEF BeginEmergencyLogin, SignInInv

LEMMA FinishEmergencyLoginStep ==
  ASSUME SignInInv, NEW f \in Flows, finishEmergencyLogin(f)
  PROVE  SignInInv'
<1>1. PICK u : u = flow[f].user
  OBVIOUS
<1>2. /\ flow[f] # None /\ flow[f].method = "emergency"
      /\ flow' = [flow EXCEPT ![f] = None]
      /\ UNCHANGED <<deployment, user, mfa, policy, provider, binding, session>>
  BY DEF finishEmergencyLogin
<1>3. u \in Users
  BY <1>1, <1>2 DEF SignInInv, FlowsTimely, FlowTimely
<1>4. FlowsTimely'
  BY <1>2, FlowGone DEF SignInInv
<1>5. PICK row : row = [user |-> u, method |-> "emergency", proof |-> EmergencyProof(u),
              pw |-> user[u].pw, gen |-> mfa[u].gen, attempts |-> 0, session |-> None,
              cut |-> flow[f].cut, late |-> FALSE]
  OBVIOUS
<1>6. /\ flow[f].cut \in BOOLEAN
      /\ user[u].pw \in Nat /\ mfa[u].gen \in Nat /\ policy.rev \in Nat
  BY <1>2, <1>3 DEF SignInInv, Accounts, UserRows, FactorRows, FlowsTimely, FlowRows
<1>7. EmergencyProof(u) \in ProofRows
  BY <1>6 DEF EmergencyProof, NoProof, ProofRows
<1>8. /\ row \in ChallengeRows /\ row.user = u /\ row.method = "emergency"
      /\ row.cut = flow[f].cut /\ row.late = FALSE
  BY <1>3, <1>5, <1>6, <1>7 DEF ChallengeRows, AllMethods
<1>9. \/ challenge' = challenge
      \/ challenge' = [challenge EXCEPT ![u]["emergency"] = row] /\ flow[f].policy = policy.rev
  BY <1>1, <1>5 DEF finishEmergencyLogin
<1>10. ChallengesTimely'
  <2>1. CASE challenge' = challenge
    BY <2>1, <1>2, Untouched
  <2>2. CASE challenge' = [challenge EXCEPT ![u]["emergency"] = row] /\ flow[f].policy = policy.rev
    <3>1. ~ flow[f].cut
      BY <1>2, <2>2 DEF SignInInv, FlowsTimely, FlowTimely
    <3>2. Timely(row)
      BY <1>8, <3>1 DEF Timely
    <3> QED
      BY <2>2, <3>2, <1>3, <1>8, ChallengeSet DEF SignInInv, Purposes
  <2> QED
    BY <1>9, <2>1, <2>2
<1> QED
  BY <1>2, <1>4, <1>10, Untouched DEF SignInInv

LEMMA CompleteEmergencyLoginStep ==
  ASSUME SignInInv, NEW u \in Users, CompleteEmergencyLogin(u)
  PROVE  SignInInv'
<1>1. PICK c : c = challenge[u]["emergency"]
  OBVIOUS
<1>2. c # None /\ mfaChallengeValid(u, c) /\ emergencyCurrent(c)
  BY <1>1 DEF CompleteEmergencyLogin
<1>3. c \in ChallengeRows /\ c.user = u /\ c.method = "emergency" /\ Timely(c)
  BY <1>1, <1>2 DEF SignInInv, ChallengesTimely, Purposes
<1>4. CASE mfaFailure(u, "emergency")
  BY <1>1, <1>2, <1>4, mfaFailureStep DEF Purposes
<1>5. CASE /\ mfa' = [mfa EXCEPT ![u].failures = 0]
           /\ challenge' = [challenge EXCEPT ![u]["emergency"] = None]
           /\ createSession(SessionRow(u, "emergency", c.proof, c.pw, TRUE, c.cut, c.late), session)
           /\ UNCHANGED <<deployment, user, policy, provider, binding, flow>>
  <2>1. PICK row : row = SessionRow(u, "emergency", c.proof, c.pw, TRUE, c.cut, c.late)
    OBVIOUS
  <2>2. /\ row \in SessionRows /\ row.user = u /\ row.method = "emergency" /\ row.proof = c.proof
        /\ row.pw = c.pw /\ row.factor = TRUE /\ row.cut = c.cut /\ row.late = c.late
    BY <1>3, <2>1 DEF SessionRow, SessionRows, ChallengeRows, AllMethods
  <2>3. Entitled(row)
    BY <1>2, <1>3, <2>2 DEF Entitled, emergencyCurrent, Methods, Redirect
  <2>4. Stands(row)
    BY <1>2, <1>3, <2>2, <2>3 DEF Stands, Timely, mfaChallengeValid
  <2> QED
    BY <1>5, <2>1, <2>2, <2>4, AnsweredStands DEF Purposes
<1> QED
  BY <1>1, <1>4, <1>5 DEF CompleteEmergencyLogin

(* Challenges are only taken away. *)
LEMMA ChallengesFewer ==
  ASSUME ChallengesTimely, challenge' \in [Users -> [Purposes -> {None} \cup ChallengeRows]],
         \A u \in Users, p \in Purposes : challenge'[u][p] \in {None, challenge[u][p]}
  PROVE  ChallengesTimely'
<1>1. ASSUME NEW u \in Users, NEW p \in Purposes, challenge'[u][p] # None
      PROVE  challenge'[u][p] = challenge[u][p]
  BY <1>1
<1> QED
  BY <1>1 DEF ChallengesTimely, Timely

LEMMA SetAuthenticationPolicyStep ==
  ASSUME SignInInv, NEW s \in SessionIds, NEW forced \in BOOLEAN,
         NEW candidate \in Users \cup {None}, SetAuthenticationPolicy(s, forced, candidate)
  PROVE  SignInInv'
<1>1. UNCHANGED <<deployment, user, mfa, provider, binding>>
  BY DEF SetAuthenticationPolicy
<1>2. policy' = [forced |-> forced, admin |-> candidate, rev |-> Fresh(RevisionsUsed)]
  BY DEF SetAuthenticationPolicy
<1>3. Fresh(RevisionsUsed) \in Nat /\ Fresh(RevisionsUsed) \notin RevisionsUsed
  BY FreshName DEF SetAuthenticationPolicy
<1>4. Accounts'
  BY <1>1, <1>2, <1>3 DEF SignInInv, Accounts
<1>5. session' = [t \in SessionIds |->
        IF session[t] # None /\ (IF forced THEN Excluded(session[t].method)
                                 ELSE session[t].method = "emergency")
        THEN None ELSE session[t]]
  BY DEF SetAuthenticationPolicy
<1>6. session' \in [SessionIds -> {None} \cup SessionRows]
  BY <1>5 DEF SignInInv, SessionsStand
<1>7. ASSUME NEW t \in SessionIds, NEW r, r = session'[t], r # None
      PROVE  Stands(r)'
  <2>1. r = session[t] /\ (IF forced THEN ~ Excluded(r.method) ELSE r.method # "emergency")
    BY <1>5, <1>7
  <2>2. Stands(r)
    BY <1>7, <2>1 DEF SignInInv, SessionsStand
  <2>3. r.method # "emergency" /\ (forced => r.method \in SSO)
    BY <2>1 DEF Excluded, SSO
  <2> QED
    BY <1>1, <1>2, <2>2, <2>3 DEF Stands, Entitled, Timely, ProviderPrimary, Usable
<1>8. SessionsStand'
  BY <1>6, <1>7, SessionsStandNext
<1>9. \A u \in Users, p \in Purposes : challenge'[u][p] \in {None, challenge[u][p]}
  BY DEF SetAuthenticationPolicy
<1>10. ChallengesTimely'
  <2>1. challenge' = [u \in Users |-> [p \in Purposes |-> challenge'[u][p]]]
    BY DEF SetAuthenticationPolicy
  <2>2. challenge' \in [Users -> [Purposes -> {None} \cup ChallengeRows]]
    BY <1>9, <2>1 DEF SignInInv, ChallengesTimely
  <2> QED
    BY <1>9, <2>2, ChallengesFewer DEF SignInInv
<1>11. FlowsTimely'
  <2> DEFINE Shut(c) == IF forced THEN Excluded(c.method) ELSE c.method = "emergency"
             Ended(c) == forced /\ Terminalized(c)
             Hit(c) == Shut(c) /\ c.purpose = "login" /\ c.status \in Open
             Next1(c) == [c EXCEPT !.status = IF Ended(c) THEN "failed" ELSE @,
                                   !.cut = @ \/ Hit(c)]
  <2>1. flow' = [f \in Flows |-> IF flow[f] = None THEN None ELSE Next1(flow[f])]
    BY DEF SetAuthenticationPolicy
  <2>2. ASSUME NEW c \in FlowRows, FlowTimely(c), NEW d, d = Next1(c), c.policy # policy'.rev
        PROVE  d \in FlowRows /\ FlowTimely(d)'
    <3>1. /\ Ended(c) \in BOOLEAN /\ Hit(c) \in BOOLEAN
          /\ Hit(c) /\ c.method \in Redirect => Ended(c)
          /\ Hit(c) => c.method # "ldap"
      BY DEF Terminalized, Excluded, Redirect, SSO
    <3> HIDE DEF Ended, Hit
    <3>2. /\ d \in FlowRows /\ d.method = c.method /\ d.purpose = c.purpose /\ d.user = c.user
          /\ d.policy = c.policy /\ d.binding = c.binding
          /\ d.cut = (c.cut \/ Hit(c))
          /\ d.status = IF Ended(c) THEN "failed" ELSE c.status
      BY <2>2, <3>1 DEF FlowRows
    <3>3. d.method \in Redirect /\ d.status \in Open => ~ d.cut
      BY <2>2, <3>1, <3>2 DEF FlowTimely, Open
    <3>4. d.method = "ldap" => d.cut = c.cut
      BY <3>1, <3>2 DEF FlowRows
    <3> QED
      BY <1>1, <2>2, <3>2, <3>3, <3>4 DEF FlowTimely
  <2> HIDE DEF Next1
  <2>3. flow' \in [Flows -> {None} \cup FlowRows]
    <3>1. ASSUME NEW f \in Flows, flow[f] # None
          PROVE  Next1(flow[f]) \in FlowRows
      <4>1. flow[f] \in FlowRows /\ FlowTimely(flow[f])
        BY <3>1 DEF SignInInv, FlowsTimely
      <4>2. flow[f].policy # policy'.rev
        BY <1>2, <1>3, <3>1, CapturedRevisionUsed
      <4> QED
        BY <2>2, <4>1, <4>2
    <3> QED
      BY <2>1, <3>1
  <2>4. ASSUME NEW f \in Flows, NEW d, d = flow'[f], d # None
        PROVE  FlowTimely(d)'
    <3>1. flow[f] # None /\ d = Next1(flow[f])
      BY <2>1, <2>4
    <3>2. flow[f] \in FlowRows /\ FlowTimely(flow[f])
      BY <3>1 DEF SignInInv, FlowsTimely
    <3>3. flow[f].policy # policy'.rev
      BY <1>2, <1>3, <3>1, CapturedRevisionUsed
    <3> QED
      BY <2>2, <3>1, <3>2, <3>3
  <2> QED
    BY <2>3, <2>4 DEF FlowsTimely, FlowTimely
<1> QED
  BY <1>4, <1>8, <1>10, <1>11 DEF SignInInv

LEMMA MutateMemberStateStep ==
  ASSUME SignInInv, NEW a, NEW u \in Users, NEW active \in BOOLEAN, NEW admin \in BOOLEAN,
         mutateMemberState(a, u, [active |-> active, admin |-> admin])
  PROVE  SignInInv'
<1>1. UNCHANGED <<deployment, mfa, policy, provider, binding, flow>>
  BY DEF mutateMemberState
<1>2. user' = [user EXCEPT ![u].active = active, ![u].admin = admin]
  BY DEF mutateMemberState
<1>3. /\ user' \in [Users -> UserRows] /\ \A v \in Users : v # u => user'[v] = user[v]
      /\ \A v \in Users : user'[v].pw = user[v].pw
      /\ user'[u].active = active /\ user'[u].admin = admin
  BY <1>2 DEF SignInInv, Accounts, UserRows
<1>4. Accounts'
  BY <1>1, <1>3 DEF SignInInv, Accounts
<1>5. session' = [s \in SessionIds |->
       IF /\ session[s] # None /\ session[s].user = u
          /\ ~ active \/ (user[u].admin /\ ~ admin /\ session[s].method = "emergency")
       THEN None ELSE session[s]]
  BY DEF mutateMemberState
<1>6. session' \in [SessionIds -> {None} \cup SessionRows]
  BY <1>5 DEF SignInInv, SessionsStand
<1>7. ASSUME NEW t \in SessionIds, NEW r, r = session'[t], r # None
      PROVE  Stands(r)'
  <2>1. r = session[t] /\ (r.user = u => active /\ (r.method = "emergency" => admin \/ ~ user[u].admin))
    BY <1>5, <1>7
  <2>2. Stands(r) /\ r.user \in Users
    BY <1>7, <2>1 DEF SignInInv, SessionsStand, SessionRows
  <2>3. /\ user'[r.user].active /\ user'[r.user].pw = user[r.user].pw
        /\ r.method = "emergency" => user'[r.user].admin
    <3>1. CASE r.user = u
      BY <3>1, <1>3, <2>1, <2>2 DEF Stands, Entitled, emergencyCurrent
    <3>2. CASE r.user # u
      BY <3>2, <1>3, <2>2 DEF Stands, Entitled, emergencyCurrent
    <3> QED
      BY <3>1, <3>2
  <2> QED
    BY <1>1, <2>2, <2>3 DEF Stands, Entitled, Timely, ProviderPrimary, Usable, emergencyCurrent
<1>8. SessionsStand'
  BY <1>6, <1>7, SessionsStandNext
<1>9. PICK cs : /\ cs = IF ~ active THEN NoChallenges
                        ELSE IF user[u].admin /\ ~ admin
                          THEN [challenge[u] EXCEPT !["emergency"] = None] ELSE challenge[u]
                /\ challenge' = [challenge EXCEPT ![u] = cs]
  BY DEF mutateMemberState
<1>10. /\ cs \in [Purposes -> {None} \cup ChallengeRows]
       /\ \A p \in Purposes : cs[p] \in {None, challenge[u][p]}
  BY <1>9, NoChallengesRow DEF NoChallenges, SignInInv, ChallengesTimely
<1>11. ChallengesTimely'
  <2>1. challenge' \in [Users -> [Purposes -> {None} \cup ChallengeRows]]
    BY <1>9, <1>10 DEF SignInInv, ChallengesTimely
  <2>2. \A v \in Users, p \in Purposes : challenge'[v][p] \in {None, challenge[v][p]}
    BY <1>9, <1>10 DEF SignInInv, ChallengesTimely
  <2> QED
    BY <2>1, <2>2, ChallengesFewer DEF SignInInv
<1>12. FlowsTimely'
  BY <1>1, FlowsFrame DEF SignInInv
<1> QED
  BY <1>4, <1>8, <1>11, <1>12 DEF SignInInv

-----------------------------------------------------------------------------
(* A provider's configuration, and the links through it. *)

(* The sessions that a revocation leaves, and the challenges. *)
LEMMA RevokeLeaves ==
  ASSUME SignInInv, NEW m, NEW b, Revoke(m, b)
  PROVE  /\ session' \in [SessionIds -> {None} \cup SessionRows]
         /\ \A s \in SessionIds : session'[s] # None =>
              session'[s] = session[s] /\ ~ Revoked(session[s], m, b)
         /\ ChallengesTimely'
<1>1. /\ session' \in [SessionIds -> {None} \cup SessionRows]
      /\ \A s \in SessionIds : session'[s] # None =>
           session'[s] = session[s] /\ ~ Revoked(session[s], m, b)
  BY DEF Revoke, SignInInv, SessionsStand
<1>2. challenge' \in [Users -> [Purposes -> {None} \cup ChallengeRows]]
  BY DEF Revoke, SignInInv, ChallengesTimely, Purposes
<1>3. \A u \in Users, p \in Purposes : challenge'[u][p] \in {None, challenge[u][p]}
  BY DEF Revoke, SignInInv, ChallengesTimely, Purposes
<1>4. ChallengesTimely'
  BY <1>2, <1>3, ChallengesFewer DEF SignInInv
<1> QED
  BY <1>1, <1>4

(* The sign-ins a revocation cuts off fail, or are directory calls whose   *)
(* captured revision is gone.                                              *)
LEMMA RevokeCuts ==
  ASSUME SignInInv, NEW m \in Methods, NEW b \in Nat \cup {None}, Revoke(m, b),
         policy'.rev = policy.rev,
         \/ /\ m # "ldap" \/ b # None
            /\ provider'["ldap"].policy = provider["ldap"].policy
         \/ \A f \in Flows : flow[f] # None => flow[f].policy # provider'["ldap"].policy
  PROVE  FlowsTimely'
<1> DEFINE Cut(c) == [c EXCEPT !.status = IF m = "ldap" THEN @ ELSE "failed", !.cut = TRUE]
<1>1. flow' = [f \in Flows |->
        IF flow[f] # None /\ RevokedFlow(flow[f], m, b) THEN Cut(flow[f]) ELSE flow[f]]
  BY DEF Revoke
<1>2. ASSUME NEW c \in FlowRows, NEW d, d = Cut(c)
      PROVE  /\ d \in FlowRows /\ d.method = c.method /\ d.purpose = c.purpose
             /\ d.user = c.user /\ d.policy = c.policy /\ d.binding = c.binding /\ d.cut
             /\ d.status = IF m = "ldap" THEN c.status ELSE "failed"
  BY <1>2 DEF FlowRows
<1> HIDE DEF Cut
<1>3. flow' \in [Flows -> {None} \cup FlowRows]
  BY <1>1, <1>2 DEF SignInInv, FlowsTimely
<1>4. ASSUME NEW f \in Flows, NEW d, d = flow'[f], d # None
      PROVE  FlowTimely(d)'
  <2>1. flow[f] # None
    BY <1>1, <1>4
  <2>2. PICK c \in FlowRows : c = flow[f] /\ FlowTimely(c)
    BY <2>1 DEF SignInInv, FlowsTimely
  <2>3. CASE d = c
    <3>1. \/ provider'["ldap"].policy = provider["ldap"].policy
          \/ c.policy # provider'["ldap"].policy
      BY <2>1, <2>2
    <3> QED
      BY <2>2, <2>3, <3>1 DEF FlowTimely
  <2>4. CASE d = Cut(c) /\ RevokedFlow(c, m, b)
    <3>1. c.method = m /\ (b = None \/ c.binding = b)
      BY <2>4 DEF RevokedFlow
    <3>2. /\ d.method = m /\ d.purpose = c.purpose /\ d.cut
          /\ d.user = c.user /\ d.policy = c.policy /\ d.binding = c.binding
          /\ d.status = IF m = "ldap" THEN c.status ELSE "failed"
      BY <1>2, <2>4, <3>1
    <3>3. CASE m # "ldap"
      BY <2>2, <3>1, <3>2, <3>3 DEF FlowTimely, Open, Methods, Redirect
    <3>4. CASE m = "ldap"
      <4>1. c.purpose = "login" => c.policy # provider'["ldap"].policy
        <5>1. CASE b # None
          BY <2>2, <3>1, <3>4, <5>1 DEF FlowTimely
        <5>2. CASE b = None
          BY <2>1, <2>2, <3>4, <5>2
        <5> QED
          BY <5>1, <5>2
      <4> QED
        BY <2>2, <3>1, <3>2, <3>4, <4>1 DEF FlowTimely, Redirect, Methods
    <3> QED
      BY <3>3, <3>4
  <2> QED
    BY <1>1, <1>4, <2>1, <2>2, <2>3, <2>4
<1> QED
  BY <1>3, <1>4 DEF FlowsTimely, FlowTimely

(* The provider's row changes and every session through it is gone; the    *)
(* other providers, and the links of the other providers, stay.            *)
LEMMA ProviderChanged ==
  ASSUME SignInInv, NEW m \in Methods, Revoke(m, None),
         UNCHANGED <<deployment, user, mfa, policy>>,
         provider' \in [Methods -> ProviderRows],
         binding' \in [Methods -> [Users -> {None} \cup BindingRows]],
         \A n \in Methods : n # m => provider'[n] = provider[n] /\ binding'[n] = binding[n],
         \A f \in Flows : flow[f] # None => flow[f].policy # provider'[m].policy
  PROVE  SignInInv'
<1>1. Accounts'
  BY DEF SignInInv, Accounts
<1>2. ChallengesTimely' /\ session' \in [SessionIds -> {None} \cup SessionRows]
  BY RevokeLeaves
<1>3. ASSUME NEW s \in SessionIds, NEW r, r = session'[s], r # None
      PROVE  Stands(r)'
  <2>1. r = session[s] /\ r.method # m
    BY <1>3, RevokeLeaves DEF Revoked
  <2>2. Stands(r)
    BY <1>3, <2>1 DEF SignInInv, SessionsStand
  <2>3. r.method \in Methods => provider'[r.method] = provider[r.method] /\ binding'[r.method] = binding[r.method]
    BY <2>1
  <2> QED
    BY <2>2, <2>3 DEF Stands, Entitled, Timely, ProviderPrimary, Usable, emergencyCurrent
<1>4. SessionsStand'
  BY <1>2, <1>3, SessionsStandNext
<1>5. FlowsTimely'
  <2>1. CASE m = "ldap"
    BY <2>1, RevokeCuts
  <2>2. CASE m # "ldap"
    <3>1. provider'["ldap"] = provider["ldap"]
      BY <2>2 DEF Methods
    <3> QED
      BY <2>2, <3>1, RevokeCuts
  <2> QED
    BY <2>1, <2>2
<1> QED
  BY <1>1, <1>2, <1>4, <1>5 DEF SignInInv

LEMMA SaveProviderStep ==
  ASSUME SignInInv, NEW m \in Methods, NEW a, SaveProvider(m, a)
  PROVE  SignInInv'
<1>1. PICK c, p : c = Fresh(RevisionsUsed) /\ p = Fresh(RevisionsUsed \cup {c})
  OBVIOUS
<1>2. c \in Nat /\ p \in Nat /\ p \notin RevisionsUsed
  <2>1. NameLeft(RevisionsUsed) /\ NameLeft(RevisionsUsed \cup {c})
    BY <1>1 DEF SaveProvider
  <2> QED
    BY <1>1, <2>1, FreshName
<1>3. PICK row : row = [config |-> c, policy |-> p, review |-> p, enabled |-> FALSE, verified |-> None]
  OBVIOUS
<1>4. row \in ProviderRows /\ row.policy = p
  BY <1>2, <1>3 DEF ProviderRows
<1>5. provider' = [provider EXCEPT ![m] = row]
  BY <1>1, <1>3 DEF SaveProvider
<1>6. binding' = [binding EXCEPT ![m] = [u \in Users |-> None]]
  BY DEF SaveProvider
<1>7. /\ provider' \in [Methods -> ProviderRows] /\ provider'[m].policy = p
      /\ \A n \in Methods : n # m => provider'[n] = provider[n]
  BY <1>4, <1>5 DEF SignInInv, Accounts
<1>8. /\ binding' \in [Methods -> [Users -> {None} \cup BindingRows]]
      /\ \A n \in Methods : n # m => binding'[n] = binding[n]
  BY <1>6 DEF SignInInv, Accounts
<1>9. \A f \in Flows : flow[f] # None => flow[f].policy # p
  BY <1>2, CapturedRevisionUsed
<1> QED
  BY <1>7, <1>8, <1>9, ProviderChanged DEF SaveProvider

LEMMA SetEnabledStep ==
  ASSUME SignInInv, NEW m \in Methods, NEW a, NEW on \in BOOLEAN, SetEnabled(m, a, on)
  PROVE  SignInInv'
<1>1. PICK p : p = Fresh(RevisionsUsed)
  OBVIOUS
<1>2. p \in Nat /\ p \notin RevisionsUsed
  BY <1>1, FreshName DEF SetEnabled
<1>3. PICK row : row = [provider[m] EXCEPT !.enabled = on, !.policy = p, !.review = p]
  OBVIOUS
<1>4. row \in ProviderRows /\ row.policy = p
  BY <1>2, <1>3 DEF SignInInv, Accounts, ProviderRows
<1>5. provider' = [provider EXCEPT ![m] = row]
  BY <1>1, <1>3 DEF SetEnabled, SignInInv, Accounts
<1>6. /\ provider' \in [Methods -> ProviderRows] /\ provider'[m].policy = p
      /\ \A n \in Methods : n # m => provider'[n] = provider[n]
  BY <1>4, <1>5 DEF SignInInv, Accounts
<1>7. UNCHANGED binding /\ binding \in [Methods -> [Users -> {None} \cup BindingRows]]
  BY DEF SetEnabled, SignInInv, Accounts
<1>8. \A f \in Flows : flow[f] # None => flow[f].policy # p
  BY <1>2, CapturedRevisionUsed
<1> QED
  BY <1>6, <1>7, <1>8, ProviderChanged DEF SetEnabled

(* A good code only clears the count of wrong ones. *)
LEMMA ProofTakenFrame ==
  ASSUME Accounts, NEW u \in Users, ProofTaken(u)
  PROVE  /\ mfa' \in [Users -> FactorRows]
         /\ \A v \in Users : mfa'[v].enabled = mfa[v].enabled /\ mfa'[v].gen = mfa[v].gen
<1>1. PICK k \in Nat : mfa' = [mfa EXCEPT ![u].failures = k]
  BY DEF ProofTaken, Accounts, FactorRows
<1> QED
  BY <1>1 DEF Accounts, FactorRows

LEMMA UnlinkStep ==
  ASSUME SignInInv, NEW m \in Methods, NEW s \in SessionIds, Unlink(m, s)
  PROVE  SignInInv'
<1>1. PICK u, b : u = session[s].user /\ b = binding[m][u]
  OBVIOUS
<1>2. u \in Users
  BY <1>1, Asking DEF Unlink, identityLocalProof, mfaSession
<1>3. /\ b # None /\ ProofTaken(u) /\ Revoke(m, b.id)
      /\ binding' = [binding EXCEPT ![m][u] = None]
      /\ UNCHANGED <<deployment, user, policy, provider>>
  BY <1>1 DEF Unlink
<1>4. b.id \in Nat
  BY <1>1, <1>2, <1>3 DEF SignInInv, Accounts, BindingRows
<1>5. /\ mfa' \in [Users -> FactorRows]
      /\ \A v \in Users : mfa'[v].enabled = mfa[v].enabled /\ mfa'[v].gen = mfa[v].gen
  BY <1>2, <1>3, ProofTakenFrame DEF SignInInv
<1>6. /\ binding' \in [Methods -> [Users -> {None} \cup BindingRows]]
      /\ \A n \in Methods, v \in Users : n # m \/ v # u => binding'[n][v] = binding[n][v]
  BY <1>2, <1>3 DEF SignInInv, Accounts
<1>7. Accounts'
  BY <1>3, <1>5, <1>6 DEF SignInInv, Accounts
<1>8. ChallengesTimely' /\ session' \in [SessionIds -> {None} \cup SessionRows]
  BY <1>3, RevokeLeaves
<1>9. ASSUME NEW t \in SessionIds, NEW r, r = session'[t], r # None
      PROVE  Stands(r)'
  <2>1. r = session[t] /\ ~ Revoked(r, m, b.id)
    BY <1>3, <1>9, RevokeLeaves
  <2>2. Stands(r) /\ r.user \in Users
    BY <1>9, <2>1 DEF SignInInv, SessionsStand, SessionRows
  <2>3. ~ (r.method = m /\ r.user = u)
    BY <1>1, <2>1, <2>2 DEF Stands, Entitled, ProviderPrimary, Revoked
  <2>4. r.method \in Methods => binding'[r.method][r.user] = binding[r.method][r.user]
    BY <1>6, <2>2, <2>3
  <2>5. mfa'[r.user].enabled = mfa[r.user].enabled /\ mfa'[r.user].gen = mfa[r.user].gen
    BY <1>5, <2>2
  <2> QED
    BY <1>3, <2>2, <2>4, <2>5 DEF Stands, Entitled, Timely, ProviderPrimary, Usable, emergencyCurrent
<1>10. SessionsStand'
  BY <1>8, <1>9, SessionsStandNext
<1>11. FlowsTimely'
  <2>1. b.id # None
    BY <1>4, SignInAssumption
  <2> QED
    BY <1>3, <1>4, <2>1, RevokeCuts
<1> QED
  BY <1>7, <1>8, <1>10, <1>11 DEF SignInInv

-----------------------------------------------------------------------------
(* The ceremonies. *)

(* A sign-in as it is captured: not cut off, and with an owner unless it   *)
(* is a login.                                                             *)
LEMMA CapturedRow ==
  ASSUME SignInInv, NEW m \in Methods, NEW purpose \in {"login", "bind", "verify"},
         NEW status \in Open, NEW s \in SessionIds \cup {None},
         purpose # "login" => s # None /\ session[s] # None
  PROVE  /\ Captured(m, purpose, status, s) \in FlowRows
         /\ Captured(m, purpose, status, s).method = m
         /\ Captured(m, purpose, status, s).purpose = purpose
         /\ ~ Captured(m, purpose, status, s).cut
         /\ purpose = "login" => Captured(m, purpose, status, s).binding = None
         /\ purpose # "login" => Captured(m, purpose, status, s).user \in Users
<1>1. NoFlow(m, purpose, status) \in FlowRows
  BY NoFlowRow DEF AllMethods
<1>2. provider[m].config \in Nat /\ provider[m].policy \in Nat
  BY DEF SignInInv, Accounts, ProviderRows
<1>3. BindingIds(m) \in SUBSET Nat
  BY DEF BindingIds, SignInInv, Accounts, BindingRows
<1>4. PICK c : c = [NoFlow(m, purpose, status) EXCEPT !.config = provider[m].config,
                      !.policy = provider[m].policy, !.seen = BindingIds(m)]
  OBVIOUS
<1>5. NoFlow(m, purpose, status).cut = FALSE /\ NoFlow(m, purpose, status).binding = None
      /\ NoFlow(m, purpose, status).method = m /\ NoFlow(m, purpose, status).purpose = purpose
  BY DEF NoFlow
<1>6. c \in FlowRows /\ c.method = m /\ c.purpose = purpose /\ c.cut = FALSE /\ c.binding = None
  BY <1>1, <1>2, <1>3, <1>4, <1>5 DEF FlowRows
<1>7. CASE purpose = "login"
  BY <1>4, <1>6, <1>7 DEF Captured
<1>8. CASE purpose # "login"
  <2>1. PICK u : u = session[s].user
    OBVIOUS
  <2>2. s \in SessionIds /\ u \in Users
    BY <1>8, <2>1, Asking
  <2>3. user[u].pw \in Nat /\ mfa[u].gen \in Nat
    BY <2>2 DEF SignInInv, Accounts, UserRows, FactorRows
  <2>4. BindingId(m, u) \in Nat \cup {None}
    BY <2>2 DEF BindingId, SignInInv, Accounts, BindingRows
  <2>5. PICK d : d = [c EXCEPT !.user = u, !.pw = user[u].pw, !.gen = mfa[u].gen, !.session = s,
                               !.binding = BindingId(m, u)]
    OBVIOUS
  <2>6. d \in FlowRows /\ d.method = m /\ d.purpose = purpose /\ d.cut = FALSE /\ d.user = u
    BY <1>6, <2>2, <2>3, <2>4, <2>5 DEF FlowRows
  <2>7. Captured(m, purpose, status, s) = d
    BY <1>4, <1>8, <2>1, <2>5 DEF Captured
  <2> QED
    BY <1>8, <2>2, <2>6, <2>7
<1> QED
  BY <1>7, <1>8

LEMMA StartStep ==
  ASSUME SignInInv, NEW m \in Redirect, NEW f \in Flows,
         NEW purpose \in {"login", "bind", "verify"}, NEW s \in SessionIds \cup {None},
         Start(m, f, purpose, s)
  PROVE  SignInInv'
<1>1. purpose # "login" => s # None /\ session[s] # None
  BY DEF Start, identityLocalProof, mfaSession
<1>2. PICK c : c = Captured(m, purpose, "starting", s) /\ flow' = [flow EXCEPT ![f] = c]
  BY DEF Start
<1>3. /\ c \in FlowRows /\ c.method = m /\ c.purpose = purpose /\ ~ c.cut
      /\ purpose # "login" => c.user \in Users
  BY <1>1, <1>2, CapturedRow DEF Methods, Open
<1>4. FlowTimely(c)
  BY <1>3 DEF FlowTimely, Redirect
<1>5. FlowsTimely'
  BY <1>2, <1>3, <1>4, FlowSet DEF Start, SignInInv
<1>6. /\ mfa' \in [Users -> FactorRows]
      /\ \A v \in Users : mfa'[v].enabled = mfa[v].enabled /\ mfa'[v].gen = mfa[v].gen
  <2>1. CASE purpose = "login"
    BY <2>1 DEF Start, SignInInv, Accounts
  <2>2. CASE purpose # "login"
    <3>1. s \in SessionIds /\ session[s].user \in Users
      BY <2>2, <1>1, Asking
    <3> QED
      BY <2>2, <3>1, ProofTakenFrame DEF Start, SignInInv
  <2> QED
    BY <2>1, <2>2
<1> QED
  BY <1>5, <1>6, AccountsFrame DEF Start, SignInInv

(* A ceremony row moves on: it keeps what it captured. *)
LEMMA FlowMoves ==
  ASSUME SignInInv, NEW f \in Flows, NEW c, c = flow[f], c # None, c.method \in Redirect,
         NEW d \in FlowRows, flow' = [flow EXCEPT ![f] = d],
         d.method = c.method, d.purpose = c.purpose, d.cut = c.cut,
         d.user = c.user \/ d.user \in Users,
         d.status \in Open => c.status \in Open,
         provider'["ldap"].policy = provider["ldap"].policy, policy'.rev = policy.rev
  PROVE  FlowsTimely'
<1>1. FlowTimely(c)
  BY DEF SignInInv, FlowsTimely
<1>2. FlowTimely(d)
  BY <1>1 DEF FlowTimely, Redirect
<1> QED
  BY <1>2, FlowSet DEF SignInInv

LEMMA StatusMoves ==
  ASSUME SignInInv, NEW m \in Redirect, NEW f \in Flows, flow[f] # None, flow[f].method = m,
         NEW to \in Open \cup {"failed", "consumed"}, to \in Open => flow[f].status \in Open,
         flow' = [flow EXCEPT ![f].status = to],
         provider'["ldap"].policy = provider["ldap"].policy, policy'.rev = policy.rev
  PROVE  FlowsTimely'
<1>1. flow[f] \in FlowRows
  BY DEF SignInInv, FlowsTimely
<1>2. PICK d : d = [flow[f] EXCEPT !.status = to]
  OBVIOUS
<1>3. /\ d \in FlowRows /\ d.method = flow[f].method /\ d.purpose = flow[f].purpose
      /\ d.cut = flow[f].cut /\ d.user = flow[f].user /\ d.status = to
  BY <1>1, <1>2 DEF FlowRows
<1>4. flow' = [flow EXCEPT ![f] = d]
  BY <1>2
<1>5. PICK c : c = flow[f]
  OBVIOUS
<1>6. /\ c # None /\ c.method \in Redirect /\ d.method = c.method /\ d.purpose = c.purpose
      /\ d.cut = c.cut /\ d.user = c.user /\ (d.status \in Open => c.status \in Open)
  BY <1>3, <1>5
<1>7. FlowTimely(c)
  BY <1>5, <1>6 DEF SignInInv, FlowsTimely
<1>8. FlowTimely(d)
  BY <1>6, <1>7 DEF FlowTimely, Redirect
<1> QED
  BY <1>3, <1>4, <1>8, FlowSet DEF SignInInv

LEMMA AdvanceStep ==
  ASSUME SignInInv, NEW m \in Redirect, NEW f \in Flows, NEW from \in Open,
         NEW to \in Open \cup {"failed"}, NEW ok, Advance(m, f, from, to, ok)
  PROVE  SignInInv'
<1>1. PICK t : t = IF ok /\ StillAdmitted(flow[f]) THEN to ELSE "failed"
  OBVIOUS
<1>2. FlowsTimely'
  BY <1>1, StatusMoves DEF Advance
<1> QED
  BY <1>2, Untouched DEF Advance, SignInInv

LEMMA CallbackStep ==
  ASSUME SignInInv, NEW m \in Redirect, NEW f \in Flows, Callback(m, f)
  PROVE  SignInInv'
<1>1. FlowsTimely'
  BY StatusMoves DEF Callback, Open
<1> QED
  BY <1>1, Untouched DEF Callback, SignInInv

LEMMA ExchangedStep ==
  ASSUME SignInInv, NEW m \in Redirect, NEW f \in Flows, NEW x \in Subjects, Exchanged(m, f, x)
  PROVE  SignInInv'
<1>1. PICK c : c = flow[f]
  OBVIOUS
<1>2. /\ c # None /\ c.method = m /\ c.status = "exchanging"
      /\ UNCHANGED <<deployment, user, mfa, policy, provider, binding, session, challenge>>
  BY <1>1 DEF Exchanged
<1>3. c \in FlowRows
  BY <1>1, <1>2 DEF SignInInv, FlowsTimely
<1>4. PICK d : /\ flow' = [flow EXCEPT ![f] = d]
               /\ \/ d = [c EXCEPT !.status = "failed"]
                  \/ d = [c EXCEPT !.status = "verified", !.subject = x]
                  \/ \E u \in Users : /\ binding[m][u] # None
                                      /\ d = [c EXCEPT !.status = "verified", !.subject = x,
                                                !.user = u, !.binding = binding[m][u].id]
  <2> DEFINE bound == {u \in Linked(m, x) : user[u].active /\ binding[m][u].config = provider[m].config}
             v == CHOOSE u \in bound : TRUE
             e == IF ~ StillAdmitted(c) \/ (m = "named" /\ c.purpose = "login" /\ bound = {})
                    THEN [c EXCEPT !.status = "failed"]
                  ELSE IF m = "named" /\ c.purpose = "login"
                    THEN [c EXCEPT !.status = "verified", !.subject = x, !.user = v,
                                   !.binding = binding[m][v].id]
                  ELSE [c EXCEPT !.status = "verified", !.subject = x]
  <2>1. flow' = [flow EXCEPT ![f] = e]
    BY <1>1 DEF Exchanged
  <2>2. bound # {} => v \in Users /\ binding[m][v] # None
    BY DEF Linked
  <2> HIDE DEF bound, v
  <2>3. \/ e = [c EXCEPT !.status = "failed"]
        \/ e = [c EXCEPT !.status = "verified", !.subject = x]
        \/ bound # {} /\ e = [c EXCEPT !.status = "verified", !.subject = x,
                                      !.user = v, !.binding = binding[m][v].id]
    OBVIOUS
  <2> HIDE DEF e
  <2> QED
    BY <2>1, <2>2, <2>3
<1>5. /\ d \in FlowRows /\ d.method = c.method /\ d.purpose = c.purpose /\ d.cut = c.cut
      /\ d.user = c.user \/ d.user \in Users
  <2>1. CASE d = [c EXCEPT !.status = "failed"]
    BY <1>3, <2>1 DEF FlowRows
  <2>2. CASE d = [c EXCEPT !.status = "verified", !.subject = x]
    BY <1>3, <2>2 DEF FlowRows, Open
  <2>3. ASSUME NEW u \in Users, binding[m][u] # None,
               d = [c EXCEPT !.status = "verified", !.subject = x,
                             !.user = u, !.binding = binding[m][u].id]
        PROVE  /\ d \in FlowRows /\ d.method = c.method /\ d.purpose = c.purpose /\ d.cut = c.cut
               /\ d.user = u
    <3>1. binding[m][u].id \in Nat
      BY <2>3 DEF SignInInv, Accounts, BindingRows, Methods
    <3> QED
      BY <1>3, <2>3, <3>1 DEF FlowRows, Open
  <2> QED
    BY <1>4, <2>1, <2>2, <2>3
<1>6. /\ c.method \in Redirect /\ (d.status \in Open => c.status \in Open)
      /\ flow' = [flow EXCEPT ![f] = d] /\ provider'["ldap"].policy = provider["ldap"].policy
  BY <1>2, <1>4 DEF Open
<1>7. FlowsTimely'
  BY <1>1, <1>2, <1>5, <1>6, FlowMoves
<1> QED
  BY <1>2, <1>7, Untouched DEF SignInInv

(* A login through the present link of an active account. *)
LEMMA LinkedEntitled ==
  ASSUME SignInInv, NEW m \in Methods, NEW u \in Users, binding[m][u] # None,
         user[u].active, binding[m][u].config = provider[m].config, Usable(m),
         authenticationMethodAllowed(m), NEW pw, NEW factor, NEW cut, NEW late
  PROVE  /\ ProviderProof(m, binding[m][u].id) \in ProofRows
         /\ Entitled(SessionRow(u, m, ProviderProof(m, binding[m][u].id), pw, factor, cut, late))
<1>1. provider[m].config \in Nat /\ provider[m].policy \in Nat
  BY DEF SignInInv, Accounts, ProviderRows
<1>2. binding[m][u].id \in Nat
  BY DEF SignInInv, Accounts, BindingRows
<1>3. PICK p : p = ProviderProof(m, binding[m][u].id)
  OBVIOUS
<1>4. /\ p \in ProofRows /\ p.config = provider[m].config /\ p.policy = provider[m].policy
      /\ p.binding = binding[m][u].id
  BY <1>1, <1>2, <1>3 DEF ProviderProof, NoProof, ProofRows
<1>5. PICK r : r = SessionRow(u, m, p, pw, factor, cut, late)
  OBVIOUS
<1>6. r.user = u /\ r.method = m /\ r.proof = p
  BY <1>5 DEF SessionRow
<1>7. policy.forced => m \in SSO
  BY DEF authenticationMethodAllowed, Methods, Redirect
<1>8. Entitled(r)
  BY <1>4, <1>6, <1>7 DEF Entitled, ProviderPrimary, Methods, Redirect
<1> QED
  BY <1>3, <1>4, <1>5, <1>8

LEMMA CompleteLoginStep ==
  ASSUME SignInInv, NEW m \in Redirect, NEW f \in Flows, NEW earlier \in BOOLEAN,
         NEW fixed \in BOOLEAN, m = "saml" => earlier, CompleteLogin(m, f, earlier, fixed)
  PROVE  SignInInv'
<1>1. PICK c : c = flow[f]
  OBVIOUS
<1>2. /\ c # None /\ c.method = m /\ c.status = "verified" /\ c.purpose = "login" /\ StillAdmitted(c)
      /\ flow' = [flow EXCEPT ![f].status = "consumed"]
      /\ UNCHANGED <<deployment, user, mfa, policy, provider, binding>>
  BY <1>1 DEF CompleteLogin
<1>3. PICK u \in Linked(m, c.subject) :
        /\ user[u].active /\ binding[m][u].config = provider[m].config
        /\ earlier => BoundBefore(c, m, u)
        /\ SignedIn(u, m, ProviderProof(m, binding[m][u].id), c.cut, binding[m][u].id \notin c.seen)
  BY <1>1 DEF CompleteLogin
<1>4. u \in Users /\ binding[m][u] # None /\ m \in Methods
  BY <1>3 DEF Linked, Methods
<1>5. Usable(m) /\ authenticationMethodAllowed(m)
  BY <1>2 DEF StillAdmitted, CeremonyCurrent
<1>6. c \in FlowRows /\ ~ c.cut
  BY <1>1, <1>2 DEF SignInInv, FlowsTimely, FlowTimely, Open
<1>7. FlowsTimely'
  <2>1. flow[f] # None /\ flow[f].method = m /\ "consumed" \notin Open
    BY <1>1, <1>2 DEF Open
  <2> QED
    BY <1>2, <2>1, StatusMoves
<1>8. PICK late \in BOOLEAN : late = (binding[m][u].id \notin c.seen)
  OBVIOUS
<1>9. m \in {"saml", "ldap"} => ~ late
  BY <1>3, <1>8 DEF Redirect, BoundBefore
<1>10. PICK p : p = ProviderProof(m, binding[m][u].id)
  OBVIOUS
<1>11. p \in ProofRows /\ Entitled(SessionRow(u, m, p, user[u].pw, FALSE, c.cut, late))
  BY <1>3, <1>4, <1>5, <1>10, LinkedEntitled
<1>12. c.cut \in BOOLEAN /\ m \in AllMethods
  BY <1>4, <1>6 DEF FlowRows, AllMethods
<1>13. Accounts' /\ SessionsStand' /\ ChallengesTimely'
  BY <1>2, <1>3, <1>4, <1>6, <1>8, <1>9, <1>10, <1>11, <1>12, SignedInStands
<1> QED
  BY <1>7, <1>13 DEF SignInInv

(* A link is made or kept, and with it the provider may be verified: the   *)
(* sessions stand on links and providers that were there before.           *)
LEMMA LinkStands ==
  ASSUME SignInInv, NEW m \in Methods, NEW u \in Users, NEW x \in Subjects \cup {None},
         Bind(m, u, x), VerifiedBy(m, u) \/ UNCHANGED provider,
         UNCHANGED <<deployment, user, policy, session, challenge>>,
         mfa' \in [Users -> FactorRows],
         \A v \in Users : mfa'[v].enabled = mfa[v].enabled /\ mfa'[v].gen = mfa[v].gen
  PROVE  /\ Accounts' /\ SessionsStand' /\ ChallengesTimely'
         /\ provider'["ldap"].policy = provider["ldap"].policy
<1>1. /\ binding' \in [Methods -> [Users -> {None} \cup BindingRows]]
      /\ binding'[m][u].id \in Nat
      /\ \A n \in Methods, v \in Users : binding[n][v] # None => binding'[n][v] = binding[n][v]
  <2>1. CASE binding[m][u] # None
    <3>1. binding' = binding
      BY <2>1 DEF Bind
    <3> QED
      BY <2>1, <3>1 DEF SignInInv, Accounts, BindingRows
  <2>2. CASE binding[m][u] = None
    <3>1. PICK b : /\ b = [id |-> Fresh(BindingsUsed), subject |-> x, config |-> provider[m].config]
                   /\ binding' = [binding EXCEPT ![m][u] = b]
      BY <2>2 DEF Bind
    <3>2. Fresh(BindingsUsed) \in Nat
      BY FreshName DEF Bind
    <3>3. provider[m].config \in Nat
      BY DEF SignInInv, Accounts, ProviderRows
    <3>4. b \in BindingRows /\ b.id \in Nat
      BY <3>1, <3>2, <3>3 DEF BindingRows
    <3>5. binding'[m][u] = b
      BY <3>1 DEF SignInInv, Accounts
    <3>6. /\ binding' \in [Methods -> [Users -> {None} \cup BindingRows]]
          /\ \A n \in Methods, v \in Users : n # m \/ v # u => binding'[n][v] = binding[n][v]
      BY <3>1, <3>4 DEF SignInInv, Accounts
    <3> QED
      BY <2>2, <3>4, <3>5, <3>6
  <2> QED
    BY <2>1, <2>2
<1>2. /\ provider' \in [Methods -> ProviderRows]
      /\ \A n \in Methods : /\ provider'[n].config = provider[n].config
                            /\ provider'[n].policy = provider[n].policy
                            /\ provider'[n].enabled = provider[n].enabled
                            /\ provider[n].verified # None => provider'[n].verified # None
  <2>1. CASE UNCHANGED provider
    BY <2>1 DEF SignInInv, Accounts
  <2>2. CASE VerifiedBy(m, u)
    <3>1. PICK v, w : v = [by |-> u, binding |-> binding'[m][u].id] /\ w = Fresh(RevisionsUsed)
      OBVIOUS
    <3>2. v \in [by : Users, binding : Nat] /\ w \in Nat
      BY <1>1, <2>2, <3>1, FreshName DEF VerifiedBy
    <3>3. v # None
      BY <3>2, SignInAssumption
    <3>4. PICK q : q = [provider[m] EXCEPT !.verified = v, !.review = w]
      OBVIOUS
    <3>5. provider[m] \in ProviderRows
      BY DEF SignInInv, Accounts
    <3>6. /\ q \in ProviderRows /\ q.config = provider[m].config /\ q.policy = provider[m].policy
          /\ q.enabled = provider[m].enabled /\ q.verified = v
      BY <3>2, <3>4, <3>5 DEF ProviderRows
    <3>7. provider' = [provider EXCEPT ![m] = q]
      BY <2>2, <3>1, <3>4 DEF VerifiedBy, SignInInv, Accounts
    <3>8. ASSUME NEW n \in Methods
          PROVE  provider'[n] = IF n = m THEN q ELSE provider[n]
      BY <3>7 DEF SignInInv, Accounts
    <3>9. provider' \in [Methods -> ProviderRows]
      BY <3>6, <3>7 DEF SignInInv, Accounts
    <3> QED
      BY <3>3, <3>6, <3>8, <3>9
  <2> QED
    BY <2>1, <2>2
<1>3. Accounts'
  BY <1>1, <1>2 DEF SignInInv, Accounts
<1>4. session' \in [SessionIds -> {None} \cup SessionRows]
  BY DEF SignInInv, SessionsStand
<1>5. ASSUME NEW s \in SessionIds, NEW r, r = session'[s], r # None
      PROVE  Stands(r)'
  <2>1. Stands(r) /\ r.user \in Users
    BY <1>5 DEF SignInInv, SessionsStand, SessionRows
  <2>2. mfa'[r.user].enabled = mfa[r.user].enabled /\ mfa'[r.user].gen = mfa[r.user].gen
    BY <2>1
  <2>3. r.method \in Methods => binding'[r.method][r.user] = binding[r.method][r.user]
    BY <1>1, <2>1 DEF Stands, Entitled, ProviderPrimary
  <2> QED
    BY <1>2, <2>1, <2>2, <2>3
       DEF Stands, Entitled, Timely, ProviderPrimary, Usable, emergencyCurrent
<1>6. SessionsStand'
  BY <1>4, <1>5, SessionsStandNext
<1>7. ChallengesTimely'
  BY DEF SignInInv, ChallengesTimely, Timely
<1>8. provider'["ldap"].policy = provider["ldap"].policy
  BY <1>2 DEF Methods
<1> QED
  BY <1>3, <1>6, <1>7, <1>8

LEMMA CompleteLinkStep ==
  ASSUME SignInInv, NEW m \in Redirect, NEW f \in Flows, CompleteLink(m, f)
  PROVE  SignInInv'
<1>1. PICK c : c = flow[f]
  OBVIOUS
<1>2. /\ c # None /\ c.method = m /\ c.purpose # "login" /\ Bind(m, c.user, c.subject)
      /\ VerifiedBy(m, c.user) \/ UNCHANGED provider
      /\ flow' = [flow EXCEPT ![f].status = "consumed"]
      /\ UNCHANGED <<deployment, user, mfa, policy, session, challenge>>
  BY <1>1 DEF CompleteLink
<1>3. c.user \in Users /\ c.subject \in Subjects \cup {None}
  BY <1>1, <1>2 DEF SignInInv, FlowsTimely, FlowTimely, FlowRows
<1>4. mfa' \in [Users -> FactorRows]
  BY <1>2 DEF SignInInv, Accounts
<1>5. /\ Accounts' /\ SessionsStand' /\ ChallengesTimely'
      /\ provider'["ldap"].policy = provider["ldap"].policy
  BY <1>2, <1>3, <1>4, LinkStands DEF Methods
<1>6. FlowsTimely'
  <2>1. flow[f] # None /\ flow[f].method = m /\ "consumed" \notin Open
    BY <1>1, <1>2 DEF Open
  <2> QED
    BY <1>2, <1>5, <2>1, StatusMoves
<1> QED
  BY <1>5, <1>6 DEF SignInInv

-----------------------------------------------------------------------------
(* The directory. *)

LEMMA CaptureLDAPStep ==
  ASSUME SignInInv, NEW f \in Flows, NEW purpose \in {"login", "bind", "verify"},
         NEW s \in SessionIds \cup {None}, captureLDAP(f, purpose, s)
  PROVE  SignInInv'
<1>1. purpose # "login" => s # None /\ session[s] # None
  BY DEF captureLDAP, identityLocalProof, mfaSession
<1>2. PICK c : c = Captured("ldap", purpose, "exchanging", s)
  OBVIOUS
<1>3. /\ c \in FlowRows /\ c.method = "ldap" /\ c.purpose = purpose /\ ~ c.cut
      /\ purpose = "login" => c.binding = None
      /\ purpose # "login" => c.user \in Users
  <2>1. "ldap" \in Methods /\ "exchanging" \in Open
    BY DEF Methods, Open
  <2> QED
    BY <1>1, <1>2, <2>1, CapturedRow
<1>4. provider["ldap"].review \in Nat
  BY DEF SignInInv, Accounts, ProviderRows, Methods
<1>5. PICK d : d = [c EXCEPT !.review = provider["ldap"].review] /\ flow' = [flow EXCEPT ![f] = d]
  BY <1>2 DEF captureLDAP, LDAPCaptured
<1>6. /\ d \in FlowRows /\ d.method = c.method /\ d.purpose = c.purpose /\ d.cut = c.cut
      /\ d.binding = c.binding /\ d.user = c.user
  BY <1>3, <1>4, <1>5 DEF FlowRows
<1>7. FlowTimely(d)
  BY <1>3, <1>6 DEF FlowTimely, Redirect
<1>8. FlowsTimely'
  BY <1>5, <1>6, <1>7, FlowSet DEF captureLDAP, SignInInv
<1> QED
  BY <1>8, Untouched DEF captureLDAP, SignInInv

LEMMA LoginLDAPStep ==
  ASSUME SignInInv, NEW f \in Flows, NEW x, LoginLDAP(f, x)
  PROVE  SignInInv'
<1>1. PICK c : c = flow[f]
  OBVIOUS
<1>2. /\ c # None /\ c.method = "ldap" /\ c.purpose = "login"
      /\ authenticationMethodAllowed("ldap") /\ ldapSameProvider(c) /\ Usable("ldap")
      /\ flow' = [flow EXCEPT ![f] = None]
      /\ UNCHANGED <<deployment, user, mfa, policy, provider, binding>>
  BY <1>1 DEF LoginLDAP
<1>3. PICK u \in Linked("ldap", x) :
        /\ user[u].active /\ binding["ldap"][u].config = provider["ldap"].config
        /\ SignedIn(u, "ldap", ProviderProof("ldap", binding["ldap"][u].id), c.cut,
                    binding["ldap"][u].id \notin c.seen)
        /\ BoundBefore(c, "ldap", u)
  BY <1>1 DEF LoginLDAP
<1>4. u \in Users /\ binding["ldap"][u] # None /\ "ldap" \in Methods
  BY <1>3 DEF Linked, Methods
<1>5. c \in FlowRows /\ ~ c.cut
  BY <1>1, <1>2 DEF SignInInv, FlowsTimely, FlowTimely, ldapSameProvider
<1>6. FlowsTimely'
  BY <1>2, FlowGone DEF SignInInv
<1>7. PICK p : p = ProviderProof("ldap", binding["ldap"][u].id)
  OBVIOUS
<1>8. PICK late \in BOOLEAN : late = (binding["ldap"][u].id \notin c.seen)
  OBVIOUS
<1>9. ~ late
  BY <1>3, <1>8 DEF BoundBefore
<1>10. p \in ProofRows /\ Entitled(SessionRow(u, "ldap", p, user[u].pw, FALSE, c.cut, late))
  BY <1>2, <1>3, <1>4, <1>7, LinkedEntitled
<1>11. c.cut \in BOOLEAN /\ "ldap" \in AllMethods
  BY <1>4, <1>5 DEF FlowRows, AllMethods
<1>12. Accounts' /\ SessionsStand' /\ ChallengesTimely'
  BY <1>2, <1>3, <1>4, <1>5, <1>7, <1>8, <1>9, <1>10, <1>11, SignedInStands
<1> QED
  BY <1>6, <1>12 DEF SignInInv

LEMMA LdapIdentityStep ==
  ASSUME SignInInv, NEW f \in Flows, NEW x \in Subjects, ldapIdentity(f, x)
  PROVE  SignInInv'
<1>1. PICK c : c = flow[f]
  OBVIOUS
<1>2. /\ c # None /\ c.purpose # "login" /\ Bind("ldap", c.user, x) /\ ProofTaken(c.user)
      /\ VerifiedBy("ldap", c.user) \/ UNCHANGED provider
      /\ flow' = [flow EXCEPT ![f] = None]
      /\ UNCHANGED <<deployment, user, policy, session, challenge>>
  BY <1>1 DEF ldapIdentity
<1>3. c.user \in Users
  BY <1>1, <1>2 DEF SignInInv, FlowsTimely, FlowTimely
<1>4. /\ mfa' \in [Users -> FactorRows]
      /\ \A v \in Users : mfa'[v].enabled = mfa[v].enabled /\ mfa'[v].gen = mfa[v].gen
  BY <1>2, <1>3, ProofTakenFrame DEF SignInInv
<1>5. /\ Accounts' /\ SessionsStand' /\ ChallengesTimely'
      /\ provider'["ldap"].policy = provider["ldap"].policy
  BY <1>2, <1>3, <1>4, LinkStands DEF Methods
<1>6. FlowsTimely'
  BY <1>2, <1>5, FlowGone DEF SignInInv
<1> QED
  BY <1>5, <1>6 DEF SignInInv

-----------------------------------------------------------------------------
(* One step per action. *)

LEMMA FlowStepInv ==
  ASSUME SignInInv, NEW f \in deployment.flows, FlowStep(f)
  PROVE  SignInInv'
<1>1. f \in Flows /\ deployment.people \subseteq Users
  BY SignInAssumption DEF SignInInv, Accounts
<1>2. \A m \in {"oidc", "oauth", "saml", "named"} : m \in Redirect
  BY DEF Redirect
<1>3. "starting" \in Open /\ "pending" \in Open /\ "exchanging" \in Open
  BY DEF Open
<1>4. ASSUME NEW m \in Redirect, ReceiveCallback(m, f) PROVE SignInInv'
  BY <1>1, <1>3, <1>4, CallbackStep, ExchangedStep, AdvanceStep DEF ReceiveCallback
<1>5. CASE \E u \in deployment.people : beginLogin(f, u) \/ BeginEmergencyLogin(f, u)
  BY <1>1, <1>5, BeginLoginStep, BeginEmergencyLoginStep
<1>6. CASE finishLogin(f) \/ finishEmergencyLogin(f)
  BY <1>1, <1>6, FinishLoginStep, FinishEmergencyLoginStep
<1>7. CASE \E p \in {"login", "bind", "verify"}, s \in SessionIds \cup {None} :
             \/ startOIDC(f, p, s) \/ startOAuth(f, p, s) \/ startSAML(f, p, s)
             \/ startNamedIdentity(f, p, s) \/ captureLDAP(f, p, s)
  BY <1>1, <1>2, <1>7, StartStep, CaptureLDAPStep
     DEF startOIDC, startOAuth, startSAML, startNamedIdentity
<1>8. CASE \E m \in Redirect, ok \in BOOLEAN : Advance(m, f, "starting", "pending", ok)
  BY <1>1, <1>3, <1>8, AdvanceStep
<1>9. CASE \/ ReceiveOIDCCallback(f) \/ ReceiveOAuthCallback(f)
           \/ ReceiveSAMLAssertion(f) \/ receiveNamedIdentityCallback(f)
  BY <1>2, <1>4, <1>9 DEF ReceiveOIDCCallback, ReceiveOAuthCallback, ReceiveSAMLAssertion,
                          receiveNamedIdentityCallback
<1>10. CASE CompleteOIDC(f) \/ CompleteOAuth(f) \/ CompleteSAML(f) \/ completeNamedIdentity(f)
  BY <1>1, <1>2, <1>10, CompleteLoginStep, CompleteLinkStep
     DEF CompleteOIDC, CompleteOAuth, CompleteSAML, completeNamedIdentity
<1>11. CASE \E x \in Subjects : LoginLDAP(f, x) \/ ldapIdentity(f, x)
  BY <1>1, <1>11, LoginLDAPStep, LdapIdentityStep
<1>12. CASE ExpireFlow(f)
  BY <1>1, <1>12, ExpireFlowStep
<1> QED
  BY <1>5, <1>6, <1>7, <1>8, <1>9, <1>10, <1>11, <1>12 DEF FlowStep

LEMMA SessionStepInv ==
  ASSUME SignInInv, NEW s \in SessionIds, SessionStep(s)
  PROVE  SignInInv'
<1>1. \A m \in {"oidc", "oauth", "saml", "ldap", "named"} : m \in Methods
  BY DEF Methods, Redirect
<1>2. CASE Logout(s) \/ WrongLocalProof(s) \/ changePassword(s) \/ ExpireSession(s)
  BY <1>2, LogoutStep, WrongLocalProofStep, ChangePasswordStep
<1>3. CASE BeginMFAEnrollment(s) \/ CancelMFAEnrollment(s) \/ EnableMFA(s)
  BY <1>3, BeginMFAEnrollmentStep, CancelMFAEnrollmentStep, EnableMFAStep
<1>4. CASE \E disable \in BOOLEAN : ChangeMFA(s, disable)
  BY <1>4, ChangeMFAStep
<1>5. CASE \E forced \in BOOLEAN, u \in Users \cup {None} : SetAuthenticationPolicy(s, forced, u)
  BY <1>5, SetAuthenticationPolicyStep
<1>6. CASE UnlinkOIDC(s) \/ UnlinkOAuth(s) \/ UnlinkSAML(s) \/ UnlinkLDAP(s) \/ unlinkNamedIdentity(s)
  BY <1>1, <1>6, UnlinkStep
     DEF UnlinkOIDC, UnlinkOAuth, UnlinkSAML, UnlinkLDAP, unlinkNamedIdentity
<1> QED
  BY <1>2, <1>3, <1>4, <1>5, <1>6 DEF SessionStep

LEMMA UserStepInv ==
  ASSUME SignInInv, NEW u \in deployment.people, UserStep(u)
  PROVE  SignInInv'
<1>1. u \in Users /\ deployment.people \subseteq Users
  BY SignInAssumption DEF SignInInv, Accounts
<1>2. \A m \in {"oidc", "oauth", "saml", "ldap", "named"} : m \in Methods
  BY DEF Methods, Redirect
<1>3. CASE CompleteMFALogin(u) \/ CompleteEmergencyLogin(u) \/ Unlock(u)
  BY <1>1, <1>3, CompleteMFALoginStep, CompleteEmergencyLoginStep, UnlockStep
<1>4. CASE \E p \in Purposes : ExpireChallenge(u, p)
  BY <1>1, <1>4, ExpireChallengeStep
<1>5. CASE \E v \in deployment.people, active, admin \in BOOLEAN :
             mutateMemberState(u, v, [active |-> active, admin |-> admin])
  BY <1>1, <1>5, MutateMemberStateStep
<1>6. CASE \/ SaveOIDCProvider(u) \/ SaveOAuthProvider(u) \/ SaveSAML(u) \/ SaveLDAPProvider(u)
           \/ saveNamedIdentityProvider(u)
  BY <1>2, <1>6, SaveProviderStep
     DEF SaveOIDCProvider, SaveOAuthProvider, SaveSAML, SaveLDAPProvider, saveNamedIdentityProvider
<1>7. CASE \E on \in BOOLEAN : SetOIDCEnabled(u, on) \/ SetOAuthEnabled(u, on)
             \/ SetSAMLStatus(u, on) \/ SetLDAPEnabled(u, on) \/ setNamedIdentityEnabled(u, on)
  BY <1>2, <1>7, SetEnabledStep
     DEF SetOIDCEnabled, SetOAuthEnabled, SetSAMLStatus, SetLDAPEnabled, setNamedIdentityEnabled
<1> QED
  BY <1>3, <1>4, <1>5, <1>6, <1>7 DEF UserStep

LEMMA SignInStutter ==
  ASSUME SignInInv, UNCHANGED vars
  PROVE  SignInInv'
BY Untouched DEF vars, SignInInv

LEMMA NextSignIn ==
  ASSUME SignInInv, [Next]_vars
  PROVE  SignInInv'
BY FlowStepInv, SessionStepInv, UserStepInv, SignInStutter DEF Next

-----------------------------------------------------------------------------
(* Every session row stands on present rows, and no sign-in that was cut   *)
(* off by a policy, a disabled or a reconfigured provider can complete:    *)
(* the invariant that the transactions of sign-in keep together.           *)
THEOREM SignInInvariance == Spec => []SignInInv
<1>1. Init => SignInInv
  BY InitSignIn
<1>2. SignInInv /\ [Next]_vars => SignInInv'
  BY NextSignIn
<1> QED
  BY <1>1, <1>2, PTL DEF Spec

(* EverySessionJustified, whatever is changed in whatever order: what      *)
(* Authenticate would find wrong with a session row has already removed    *)
(* it.                                                                     *)
THEOREM SessionsJustified == Spec => []EverySessionJustified
<1>1. SignInInv => EverySessionJustified
  <2> SUFFICES ASSUME SignInInv, NEW s \in Sessions
               PROVE  /\ user[session[s].user].active /\ primaryValidateSession(session[s])
                      /\ session[s].pw = user[session[s].user].pw
    BY DEF EverySessionJustified
  <2>1. s \in SessionIds /\ session[s] # None
    BY DEF Sessions
  <2>2. Stands(session[s]) /\ session[s].method \in AllMethods
    BY <2>1, Asking
  <2>3. Entitled(session[s]) /\ user[session[s].user].active
    BY <2>2 DEF Stands, Entitled
  <2>4. primaryValidateSession(session[s])
    BY <2>2, <2>3, PrimaryEntitled
  <2> QED
    BY <2>2, <2>3, <2>4 DEF Stands
<1> QED
  BY <1>1, SignInInvariance, PTL

(* FactorRequired: switching the factor on ends every session that was     *)
(* made without it, and the sign-ins under way meet it at their last step. *)
THEOREM FactorNeverSkipped == Spec => []FactorRequired
<1>1. SignInInv => FactorRequired
  BY DEF FactorRequired, Sessions, SignInInv, SessionsStand, Stands
<1> QED
  BY <1>1, SignInInvariance, PTL

(* NoRevival: for every interleaving of sign-ins with enforcement,         *)
(* disabling and reconfiguration, also when the change is undone before    *)
(* the sign-in completes.                                                  *)
THEOREM NothingRevived == Spec => []NoRevival
<1>1. SignInInv => NoRevival
  BY DEF NoRevival, Sessions, SignInInv, SessionsStand, Stands, Timely
<1> QED
  BY <1>1, SignInInvariance, PTL
=============================================================================
