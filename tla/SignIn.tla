------------------------------- MODULE SignIn -------------------------------
(***************************************************************************)
(* How a person obtains a console session: by password, through one of the *)
(* identity providers (OIDC, OAuth, SAML and the named providers by a      *)
(* redirect that leaves the server; LDAP by a directory call made inside   *)
(* the request), through the emergency entry, and with a second factor     *)
(* when the account has one.  And everything that takes a session away:    *)
(* the provider's configuration and status, an unlinked identity, the      *)
(* single sign-on policy, a password or factor change, a disabled member.  *)
(*                                                                         *)
(* The database rows are the state.  Every transaction of the code takes   *)
(* the governance lock first, so one transaction is one action; between    *)
(* two transactions of a sign-in anything may happen.  A review tag        *)
(* (etag) compared inside a transaction can only refuse it and is left     *)
(* out, as are audit rows and the assertion receipts of SAML.  The serving *)
(* copy of the rows is RuntimeSnapshot's subject.                          *)
(*                                                                         *)
(* Revisions, generations, passwords and row ids are random values that    *)
(* are only compared for equality: a new one is the least name that        *)
(* nothing refers to, which keeps the state finite without a counter.      *)
(***************************************************************************)
EXTENDS Integers, FiniteSets

CONSTANTS
  Users,         \* accounts; the first administrator is one of them
  FirstAdmin,
  Subjects,      \* identities at the providers
  Flows,         \* sign-ins under way: a ceremony row, or a request in memory
  SessionIds,    \* ids of session rows
  Names,         \* the numbers to take fresh values from: a step that draws
                 \* one is bounded by there being one left
  Deployments,   \* the providers a behaviour uses, those that stand
                 \* ready, the people, their sign-ins and sessions
  AttemptLimit,  \* mfaAttemptLimit: wrong codes before the account is locked
  None

ASSUME SignInAssumption ==
  /\ FirstAdmin \in Users /\ Subjects # {}
  /\ Names \subseteq Nat \ {0}
  /\ AttemptLimit \in Nat \ {0}
  /\ None \notin Users \cup Subjects \cup Flows \cup SessionIds \cup Nat
  /\ None \notin [by : Users, binding : Nat]
  /\ \A d \in Deployments : d.people \subseteq Users /\ d.flows \subseteq Flows

Redirect == {"oidc", "oauth", "saml", "named"}
Methods  == Redirect \cup {"ldap"}
SSO      == {"oidc", "ldap"}       \* the only methods a forced policy admits
Open     == {"starting", "pending", "exchanging", "verified"}

VARIABLES
  deployment,  \* the providers that are configured and used, and by whom
  user,        \* users: active (admitted and not disabled), admin, password hash
  mfa,         \* user_mfas: enabled, generation (0 is none), failed attempts
  policy,      \* governance_settings: forced, emergency administrator, revision
  provider,    \* the five provider rows
  binding,     \* bindings: method and user to the linked subject
  session,     \* sessions
  challenge,   \* mfa_challenges: user and purpose
  flow         \* ceremonies, and requests between two transactions

vars == <<deployment, user, mfa, policy, provider, binding, session, challenge, flow>>

Purposes == {"login", "enrollment", "emergency"}

(* A deployment starts with no provider configured, or with some that the  *)
(* first administrator has verified and enabled: people sign in through    *)
(* those, and nobody reconfigures or links them again.                     *)
Standing(m, ready) ==
  IF m \in ready
    THEN [config |-> 1, policy |-> 1, review |-> 1, enabled |-> TRUE,
          verified |-> [by |-> FirstAdmin, binding |-> 1]]
    ELSE [config |-> 0, policy |-> 0, review |-> 0, enabled |-> FALSE, verified |-> None]

Init ==
  /\ \E d \in Deployments :
       /\ deployment = d
       /\ user = [u \in Users |-> [active |-> u \in d.people, admin |-> u = FirstAdmin, pw |-> 1]]
       /\ provider = [m \in Methods |-> Standing(m, d.ready)]
       /\ binding = [m \in Methods |-> [u \in Users |->
            IF m \in d.ready /\ u = FirstAdmin
              THEN [id |-> 1, subject |-> CHOOSE x \in Subjects : TRUE, config |-> 1]
              ELSE None]]
  /\ mfa = [u \in Users |-> [enabled |-> FALSE, gen |-> 0, failures |-> 0]]
  /\ policy = [forced |-> FALSE, admin |-> None, rev |-> 1]
  /\ session = [s \in SessionIds |-> None]
  /\ challenge = [u \in Users |-> [p \in Purposes |-> None]]
  /\ flow = [f \in Flows |-> None]

-----------------------------------------------------------------------------
(* Names that some row still holds. *)

Sessions   == {s \in SessionIds : session[s] # None}
FlowsLive  == {f \in Flows : flow[f] # None}
Challenges == {c \in Users \X Purposes : challenge[c[1]][c[2]] # None}
Proofs     == {session[s].proof : s \in Sessions}
              \cup {challenge[c[1]][c[2]].proof : c \in Challenges}
Bindings   == {binding[m][u] : m \in Methods, u \in Users} \ {None}

Least(n, used) == n \in Names \ used /\ \A k \in Names \ used : n <= k
Fresh(used) == CHOOSE n \in Names : Least(n, used)
NameLeft(used) == \E n \in Names : Least(n, used)

RevisionsUsed ==
  (UNION {{p.config, p.policy} : p \in Proofs})
  \cup (UNION {{provider[m].config, provider[m].policy, provider[m].review} : m \in Methods})
  \cup (UNION {{flow[f].config, flow[f].policy, flow[f].review} : f \in FlowsLive})
  \cup {b.config : b \in Bindings} \cup {policy.rev}

BindingsUsed ==
  {b.id : b \in Bindings} \cup {p.binding : p \in Proofs}
  \cup (UNION {flow[f].seen \cup {flow[f].binding} : f \in FlowsLive})

SecretsUsed ==
  {user[u].pw : u \in Users} \cup {mfa[u].gen : u \in Users}
  \cup (UNION {{p.pw, p.gen} : p \in Proofs})
  \cup (UNION {{flow[f].pw, flow[f].gen} : f \in FlowsLive})
  \cup (UNION {{challenge[c[1]][c[2]].pw, challenge[c[1]][c[2]].gen} : c \in Challenges})
  \cup {session[s].pw : s \in Sessions}

SessionsFree ==
  deployment.sessions \ (Sessions \cup {flow[f].session : f \in {g \in FlowsLive : flow[g].status \in Open}}
                \cup {challenge[c[1]][c[2]].session : c \in Challenges})

-----------------------------------------------------------------------------
(* What a session row must still prove. *)

authenticationMethodAllowed(m) ==
  IF m = "emergency" THEN policy.forced ELSE policy.forced => m \in SSO

Usable(m) == provider[m].enabled /\ provider[m].verified # None

(* The provider a row came through, and the link it used, are unchanged.   *)
ProviderPrimary(r) ==
  LET m == r.method  b == binding[m][r.user] IN
  /\ Usable(m)
  /\ provider[m].config = r.proof.config /\ provider[m].policy = r.proof.policy
  /\ b # None /\ b.id = r.proof.binding /\ b.config = r.proof.config
  /\ user[r.user].active

oidcPrimary(r)          == r.method = "oidc" /\ ProviderPrimary(r)
oauthPrimary(r)         == r.method = "oauth" /\ ProviderPrimary(r)
samlPrimary(r)          == r.method = "saml" /\ ProviderPrimary(r)
ldapPrimary(r)          == r.method = "ldap" /\ ProviderPrimary(r)
namedIdentityPrimary(r) == r.method = "named" /\ ProviderPrimary(r)

emergencyCurrent(r) ==
  /\ policy.forced /\ policy.admin = r.user /\ r.proof.policy = policy.rev
  /\ user[r.user].active /\ user[r.user].admin
  /\ mfa[r.user].enabled /\ mfa[r.user].gen = r.proof.gen
  /\ user[r.user].pw = r.proof.pw

primaryValidateSession(r) ==
  /\ authenticationMethodAllowed(r.method)
  /\ \/ r.method = "local"
     \/ oidcPrimary(r) \/ oauthPrimary(r) \/ samlPrimary(r)
     \/ ldapPrimary(r) \/ namedIdentityPrimary(r)
     \/ r.method = "emergency" /\ emergencyCurrent(r)

(* Authenticate, mfaSession, oidcCurrentSession: the row is there and valid. *)
mfaSession(s) ==
  session[s] # None /\ user[session[s].user].active /\ primaryValidateSession(session[s])

AdminActive(u) == user[u].active /\ user[u].admin

(* A local proof: the password is right (compared before the transaction   *)
(* and its hash again inside), and, with a factor, an unlocked good code.  *)
mfaLocked(u) == mfa[u].failures >= AttemptLimit
identityLocalProof(s) ==
  mfaSession(s) /\ (mfa[session[s].user].enabled => ~ mfaLocked(session[s].user))

(* A good code clears the count of wrong ones. *)
ProofTaken(u) == mfa' = [mfa EXCEPT ![u].failures = IF mfa[u].enabled THEN 0 ELSE @]

NoProof == [config |-> 0, policy |-> 0, binding |-> None, pw |-> 0, gen |-> 0]
ProviderProof(m, b) ==
  [NoProof EXCEPT !.config = provider[m].config, !.policy = provider[m].policy, !.binding = b]

(* cut and late are history: the sign-in this row came from was open when  *)
(* its method was shut or reconfigured; its binding was made after the     *)
(* sign-in began.                                                          *)
SessionRow(u, m, proof, pw, factor, cut, late) ==
  [user |-> u, method |-> m, proof |-> proof, pw |-> pw, factor |-> factor,
   cut |-> cut, late |-> late]

createSession(row, base) ==
  /\ SessionsFree # {}
  /\ session' = [base EXCEPT ![CHOOSE s \in SessionsFree : TRUE] = row]

issueMFALoginChallenge(u, m, proof, cut, late) ==
  /\ ~ mfaLocked(u)
  /\ challenge' = [challenge EXCEPT ![u]["login"] =
       [user |-> u, method |-> m, proof |-> proof, pw |-> user[u].pw, gen |-> mfa[u].gen,
        attempts |-> 0, session |-> None, cut |-> cut, late |-> late]]

(* A completed primary sign-in: a challenge when the account has a factor. *)
SignedIn(u, m, proof, cut, late) ==
  IF mfa[u].enabled
    THEN issueMFALoginChallenge(u, m, proof, cut, late) /\ UNCHANGED session
    ELSE /\ createSession(SessionRow(u, m, proof, user[u].pw, FALSE, cut, late), session)
         /\ UNCHANGED challenge

NoFlow(m, purpose, status) ==
  [method |-> m, purpose |-> purpose, status |-> status, config |-> 0, policy |-> 0,
   review |-> 0, user |-> None, pw |-> 0, gen |-> 0, session |-> None, binding |-> None,
   subject |-> None, seen |-> {}, cut |-> FALSE]

-----------------------------------------------------------------------------
(* Password sign-in: the hash is compared, then a transaction rechecks the *)
(* account, the hash and the policy as they are then: that the policy      *)
(* excluded passwords for a while in between ends nothing.                 *)

beginLogin(f, u) ==
  /\ flow[f] = None /\ user[u].active
  /\ flow' = [flow EXCEPT ![f] =
       [NoFlow("local", "login", "exchanging") EXCEPT !.user = u, !.pw = user[u].pw]]
  /\ UNCHANGED <<deployment, user, mfa, policy, provider, binding, session, challenge>>

PasswordCurrent(c) == user[c.user].active /\ user[c.user].pw = c.pw

finishLogin(f) ==
  LET c == flow[f] IN
  /\ c # None /\ c.method = "local"
  /\ flow' = [flow EXCEPT ![f] = None]
  /\ \/ /\ authenticationMethodAllowed("local") /\ PasswordCurrent(c)
        /\ SignedIn(c.user, "local", NoProof, c.cut, FALSE)
     \/ /\ ~ (authenticationMethodAllowed("local") /\ PasswordCurrent(c))
        /\ UNCHANGED <<session, challenge>>
  /\ UNCHANGED <<deployment, user, mfa, policy, provider, binding>>

Logout(s) ==
  /\ mfaSession(s)
  /\ session' = [session EXCEPT ![s] = None]
  /\ UNCHANGED <<deployment, user, mfa, policy, provider, binding, challenge, flow>>

-----------------------------------------------------------------------------
(* The second factor. *)

(* A wrong code: it counts against the account, and against a challenge.   *)
mfaFailure(u, p) ==
  /\ mfa' = [mfa EXCEPT ![u].failures = @ + 1]
  /\ challenge' = IF p = None THEN challenge
                  ELSE [challenge EXCEPT ![u][p].attempts = @ + 1]
  /\ UNCHANGED <<deployment, user, policy, provider, binding, session, flow>>

(* A wrong code given where a local proof is asked for. *)
WrongLocalProof(s) ==
  /\ mfaSession(s) /\ mfa[session[s].user].enabled /\ ~ mfaLocked(session[s].user)
  /\ mfaFailure(session[s].user, None)

mfaChallengeValid(u, c) ==
  c.attempts < AttemptLimit /\ c.pw = user[u].pw /\ c.gen = mfa[u].gen

NoChallenges == [p \in Purposes |-> None]
WithoutSessions(u) ==
  [s \in SessionIds |-> IF session[s] # None /\ session[s].user = u THEN None ELSE session[s]]

(* Mutant: the factor is switched on and the account's other sessions stay. *)
rotateAuthenticatedMFASession_Keep(s, pw, factor) ==
  /\ session' = [session EXCEPT ![s].pw = pw, ![s].factor = factor]
  /\ challenge' = [challenge EXCEPT ![session[s].user] = NoChallenges]
(* All sessions and challenges go; the one that asked comes back renewed,  *)
(* unless it is an emergency session.                                      *)
rotateAuthenticatedMFASession(s, pw, factor) ==
  LET r == session[s] IN
  /\ challenge' = [challenge EXCEPT ![r.user] = NoChallenges]
  /\ IF r.method = "emergency"
       THEN session' = WithoutSessions(r.user)
       ELSE createSession([r EXCEPT !.pw = pw, !.factor = factor], WithoutSessions(r.user))

BeginMFAEnrollment(s) ==
  LET u == session[s].user  g == Fresh(SecretsUsed) IN
  /\ mfaSession(s) /\ ~ mfa[u].enabled /\ ~ mfaLocked(u) /\ NameLeft(SecretsUsed)
  /\ mfa' = [mfa EXCEPT ![u].gen = g]
  /\ challenge' = [challenge EXCEPT ![u] = [NoChallenges EXCEPT !["enrollment"] =
       [user |-> u, method |-> "local", proof |-> NoProof, pw |-> user[u].pw, gen |-> g,
        attempts |-> 0, session |-> s, cut |-> FALSE, late |-> FALSE]]]
  /\ UNCHANGED <<deployment, user, policy, provider, binding, session, flow>>

CancelMFAEnrollment(s) ==
  LET u == session[s].user IN
  /\ mfaSession(s) /\ ~ mfa[u].enabled
  /\ mfa' = [mfa EXCEPT ![u].gen = 0]
  /\ challenge' = [challenge EXCEPT ![u] = NoChallenges]
  /\ UNCHANGED <<deployment, user, policy, provider, binding, session, flow>>

EnableMFA(s) ==
  LET u == session[s].user  c == challenge[u]["enrollment"] IN
  /\ mfaSession(s) /\ ~ mfa[u].enabled /\ ~ mfaLocked(u)
  /\ c # None /\ c.session = s /\ mfaChallengeValid(u, c)
  /\ \/ /\ mfa' = [mfa EXCEPT ![u].enabled = TRUE, ![u].failures = 0]
        /\ rotateAuthenticatedMFASession(s, session[s].pw, TRUE)
        /\ UNCHANGED <<deployment, user, policy, provider, binding, flow>>
     \/ mfaFailure(u, "enrollment")

ChangeMFA(s, disable) ==
  LET u == session[s].user IN
  /\ identityLocalProof(s) /\ mfa[u].enabled
  /\ disable => ~ (policy.forced /\ policy.admin = u)
  /\ mfa' = [mfa EXCEPT ![u] = IF disable THEN [enabled |-> FALSE, gen |-> 0, failures |-> 0]
                                          ELSE [@ EXCEPT !.failures = 0]]
  /\ rotateAuthenticatedMFASession(s, session[s].pw, TRUE)
  /\ UNCHANGED <<deployment, user, policy, provider, binding, flow>>

CompleteMFALogin(u) ==
  LET c == challenge[u]["login"] IN
  /\ c # None /\ user[u].active /\ mfa[u].enabled /\ ~ mfaLocked(u)
  /\ mfaChallengeValid(u, c) /\ primaryValidateSession(c)
  /\ \/ /\ mfa' = [mfa EXCEPT ![u].failures = 0]
        /\ challenge' = [challenge EXCEPT ![u]["login"] = None]
        /\ createSession(SessionRow(u, c.method, c.proof, c.pw, TRUE, c.cut, c.late), session)
        /\ UNCHANGED <<deployment, user, policy, provider, binding, flow>>
     \/ mfaFailure(u, "login")

changePassword(s) ==
  LET u == session[s].user  p == Fresh(SecretsUsed) IN
  /\ mfaSession(s) /\ NameLeft(SecretsUsed)
  /\ user' = [user EXCEPT ![u].pw = p]
  /\ rotateAuthenticatedMFASession(s, p, session[s].factor)
  /\ UNCHANGED <<deployment, mfa, policy, provider, binding, flow>>

-----------------------------------------------------------------------------
(* Single sign-on policy, its emergency entry, and the members. *)

(* The policy and the password are read before the transaction. *)
BeginEmergencyLogin(f, u) ==
  /\ flow[f] = None
  /\ flow' = [flow EXCEPT ![f] = [NoFlow("emergency", "login", "exchanging") EXCEPT
       !.user = u, !.pw = user[u].pw, !.policy = policy.rev]]
  /\ UNCHANGED <<deployment, user, mfa, policy, provider, binding, session, challenge>>

EmergencyProof(u) ==
  [NoProof EXCEPT !.policy = policy.rev, !.pw = user[u].pw, !.gen = mfa[u].gen]

finishEmergencyLogin(f) ==
  LET c == flow[f]  u == c.user
      row == [user |-> u, method |-> "emergency", proof |-> EmergencyProof(u),
              pw |-> user[u].pw, gen |-> mfa[u].gen, attempts |-> 0, session |-> None,
              cut |-> c.cut, late |-> FALSE]
      admitted == /\ c.policy = policy.rev /\ c.pw = user[u].pw
                  /\ ~ mfaLocked(u) /\ emergencyCurrent(row) IN
  /\ c # None /\ c.method = "emergency"
  /\ flow' = [flow EXCEPT ![f] = None]
  /\ challenge' = IF admitted THEN [challenge EXCEPT ![u]["emergency"] = row] ELSE challenge
  /\ UNCHANGED <<deployment, user, mfa, policy, provider, binding, session>>

CompleteEmergencyLogin(u) ==
  LET c == challenge[u]["emergency"] IN
  /\ c # None /\ ~ mfaLocked(u) /\ mfaChallengeValid(u, c) /\ emergencyCurrent(c)
  /\ \/ /\ mfa' = [mfa EXCEPT ![u].failures = 0]
        /\ challenge' = [challenge EXCEPT ![u]["emergency"] = None]
        /\ createSession(SessionRow(u, "emergency", c.proof, c.pw, TRUE, c.cut, c.late), session)
        /\ UNCHANGED <<deployment, user, policy, provider, binding, flow>>
     \/ mfaFailure(u, "emergency")

(* Mutant: enforcement leaves the sign-ins it excludes open. *)
Terminalized_Forgotten(c) == FALSE
(* The ceremonies that enforcement ends: logins through excluded methods. *)
Terminalized(c) ==
  c.method \in Redirect \ SSO /\ c.purpose = "login" /\ c.status \in Open

Excluded(m) == m \notin SSO

SetAuthenticationPolicy(s, forced, candidate) ==
  LET goneSession(r) == IF forced THEN Excluded(r.method) ELSE r.method = "emergency"
      sessions == [t \in SessionIds |->
        IF session[t] # None /\ goneSession(session[t]) THEN None ELSE session[t]]
      goneChallenge(p, c) ==
        \/ p = "emergency"
        \/ forced /\ p = "login" /\ Excluded(c.method)
        \/ forced /\ p = "enrollment" /\ sessions[c.session] = None IN
  /\ mfaSession(s) /\ AdminActive(session[s].user)
  /\ IF forced
       THEN /\ candidate # None /\ AdminActive(candidate) /\ mfa[candidate].enabled
            /\ \E m \in SSO : Usable(m)
       ELSE candidate = None
  /\ policy.forced # forced \/ policy.admin # candidate
  /\ NameLeft(RevisionsUsed)
  /\ policy' = [forced |-> forced, admin |-> candidate, rev |-> Fresh(RevisionsUsed)]
  /\ session' = sessions
  /\ challenge' = [u \in Users |-> [p \in Purposes |->
       IF challenge[u][p] # None /\ goneChallenge(p, challenge[u][p]) THEN None
       ELSE challenge[u][p]]]
  /\ flow' = [f \in Flows |->
       IF flow[f] = None THEN None
       ELSE LET c == flow[f]
                cut == goneSession(c) /\ c.purpose = "login" /\ c.status \in Open IN
            [c EXCEPT !.status = IF forced /\ Terminalized(c) THEN "failed" ELSE @,
                      !.cut = @ \/ cut]]
  /\ UNCHANGED <<deployment, user, mfa, provider, binding>>

(* mutateMemberState: disable, enable, promote, demote.  The last admitted *)
(* administrator is neither disabled nor demoted.                          *)
mutateMemberState(a, u, next) ==
  LET t == user[u]
      loses == AdminActive(u) /\ ~ (next.active /\ next.admin) IN
  /\ AdminActive(a) /\ [t EXCEPT !.active = next.active, !.admin = next.admin] # t
  /\ (next.active = t.active) # (next.admin = t.admin)
  /\ loses => Cardinality({v \in Users : AdminActive(v)}) > 1
  /\ user' = [user EXCEPT ![u].active = next.active, ![u].admin = next.admin]
  /\ session' = [s \in SessionIds |->
       IF /\ session[s] # None /\ session[s].user = u
          /\ ~ next.active \/ (t.admin /\ ~ next.admin /\ session[s].method = "emergency")
       THEN None ELSE session[s]]
  /\ challenge' = [challenge EXCEPT ![u] =
       IF ~ next.active THEN NoChallenges
       ELSE IF t.admin /\ ~ next.admin THEN [@ EXCEPT !["emergency"] = None] ELSE @]
  /\ UNCHANGED <<deployment, mfa, policy, provider, binding, flow>>

-----------------------------------------------------------------------------
(* A provider's configuration. *)

(* xRevoke: what goes with the whole method (b = None) or one binding. *)
Revoked(r, m, b) == r.method = m /\ (b = None \/ r.proof.binding = b)
RevokedFlow(c, m, b) ==
  c.method = m /\ c.status \in Open /\ (b = None \/ c.binding = b)

(* Mutant: the ceremonies fail, and the sessions live on. *)
Revoke_Ceremonies(m, b) ==
  /\ UNCHANGED <<session, challenge>>
  /\ flow' = [f \in Flows |->
       IF flow[f] # None /\ RevokedFlow(flow[f], m, b)
       THEN [flow[f] EXCEPT !.status = IF m = "ldap" THEN @ ELSE "failed", !.cut = TRUE]
       ELSE flow[f]]
(* LDAP has no ceremony row: a directory call in flight is only marked. *)
Revoke(m, b) ==
  /\ session' = [s \in SessionIds |->
       IF session[s] # None /\ Revoked(session[s], m, b) THEN None ELSE session[s]]
  /\ challenge' = [u \in Users |-> [challenge[u] EXCEPT !["login"] =
       IF @ # None /\ Revoked(@, m, b) THEN None ELSE @]]
  /\ flow' = [f \in Flows |->
       IF flow[f] # None /\ RevokedFlow(flow[f], m, b)
       THEN [flow[f] EXCEPT !.status = IF m = "ldap" THEN @ ELSE "failed", !.cut = TRUE]
       ELSE flow[f]]

(* A change of the connection or its secret: a new configuration and       *)
(* policy, disabled, unverified; every identity linked through it is gone. *)
SaveProvider(m, a) ==
  LET c == Fresh(RevisionsUsed)  p == Fresh(RevisionsUsed \cup {c}) IN
  /\ m \in deployment.used /\ AdminActive(a)
  /\ NameLeft(RevisionsUsed) /\ NameLeft(RevisionsUsed \cup {c})
  /\ provider' = [provider EXCEPT ![m] =
       [config |-> c, policy |-> p, review |-> p, enabled |-> FALSE, verified |-> None]]
  /\ binding' = [binding EXCEPT ![m] = [u \in Users |-> None]]
  /\ Revoke(m, None)
  /\ UNCHANGED <<deployment, user, mfa, policy>>

(* Enabling needs a verification by a member who is still an admitted      *)
(* administrator and still holds the binding that verified it.             *)
SetEnabled(m, a, on) ==
  LET v == provider[m].verified  p == Fresh(RevisionsUsed) IN
  /\ m \in deployment.used /\ AdminActive(a) /\ provider[m].enabled # on
  /\ NameLeft(RevisionsUsed)
  /\ on => /\ v # None /\ AdminActive(v.by)
           /\ binding[m][v.by] # None /\ binding[m][v.by].id = v.binding
           /\ binding[m][v.by].config = provider[m].config
  /\ provider' = [provider EXCEPT ![m].enabled = on, ![m].policy = p, ![m].review = p]
  /\ Revoke(m, None)
  /\ UNCHANGED <<deployment, user, mfa, policy, binding>>

Unlink(m, s) ==
  LET u == session[s].user  b == binding[m][u] IN
  /\ m \in deployment.used /\ identityLocalProof(s) /\ b # None
  /\ ProofTaken(u)
  /\ Revoke(m, b.id)
  /\ binding' = [binding EXCEPT ![m][u] = None]
  /\ UNCHANGED <<deployment, user, policy, provider>>

SaveOIDCProvider(a)          == SaveProvider("oidc", a)
SaveOAuthProvider(a)         == SaveProvider("oauth", a)
SaveSAML(a)                  == SaveProvider("saml", a)
SaveLDAPProvider(a)          == SaveProvider("ldap", a)
saveNamedIdentityProvider(a) == SaveProvider("named", a)
SetOIDCEnabled(a, on)          == SetEnabled("oidc", a, on)
SetOAuthEnabled(a, on)         == SetEnabled("oauth", a, on)
SetSAMLStatus(a, on)           == SetEnabled("saml", a, on)
SetLDAPEnabled(a, on)          == SetEnabled("ldap", a, on)
setNamedIdentityEnabled(a, on) == SetEnabled("named", a, on)
UnlinkOIDC(s)          == Unlink("oidc", s)
UnlinkOAuth(s)         == Unlink("oauth", s)
UnlinkSAML(s)          == Unlink("saml", s)
UnlinkLDAP(s)          == Unlink("ldap", s)
unlinkNamedIdentity(s) == Unlink("named", s)

-----------------------------------------------------------------------------
(* A redirect ceremony: start (two transactions around the discovery of    *)
(* the provider), callback (two around the exchange), completion (one).    *)

CapturedBinding(c) ==
  IF binding[c.method][c.user] = None THEN c.binding = None
  ELSE binding[c.method][c.user].id = c.binding

OriginalSession(c) ==
  /\ user[c.user].active /\ user[c.user].pw = c.pw
  /\ mfaSession(c.session) /\ session[c.session].user = c.user
  /\ mfa[c.user].gen = c.gen
  /\ CapturedBinding(c)

CeremonyCurrent(c) ==
  /\ c.config = provider[c.method].config /\ c.policy = provider[c.method].policy
  /\ c.purpose = "verify" \/ Usable(c.method)

(* What each of the later transactions asks again. *)
StillAdmitted(c) ==
  /\ CeremonyCurrent(c)
  /\ IF c.purpose = "login" THEN authenticationMethodAllowed(c.method)
     ELSE OriginalSession(c) /\ (c.purpose = "verify" => AdminActive(c.user))

BindingIds(m) == {binding[m][u].id : u \in {v \in Users : binding[m][v] # None}}
BindingId(m, u) == IF binding[m][u] = None THEN None ELSE binding[m][u].id

(* The provider and, for a signed-in user, the account as it is now. *)
Captured(m, purpose, status, s) ==
  LET c == [NoFlow(m, purpose, status) EXCEPT !.config = provider[m].config,
              !.policy = provider[m].policy, !.seen = BindingIds(m)] IN
  IF purpose = "login" THEN c
  ELSE [c EXCEPT !.user = session[s].user, !.pw = user[session[s].user].pw,
                 !.gen = mfa[session[s].user].gen, !.session = s,
                 !.binding = BindingId(m, session[s].user)]

Offered(m, purpose) ==
  m \in deployment.used \/ (m \in deployment.ready /\ purpose = "login")

Start(m, f, purpose, s) ==
  /\ flow[f] = None /\ Offered(m, purpose) /\ provider[m].config # 0
  /\ purpose = "verify" \/ Usable(m)
  /\ IF purpose = "login" THEN s = None /\ authenticationMethodAllowed(m) /\ UNCHANGED mfa
     ELSE /\ s # None /\ identityLocalProof(s) /\ ProofTaken(session[s].user)
          /\ purpose = "verify" => AdminActive(session[s].user)
  /\ flow' = [flow EXCEPT ![f] = Captured(m, purpose, "starting", s)]
  /\ UNCHANGED <<deployment, user, policy, provider, binding, session, challenge>>

(* The remote answer came: recheck, or the ceremony fails. *)
Advance(m, f, from, to, ok) ==
  /\ flow[f] # None /\ flow[f].method = m /\ flow[f].status = from
  /\ flow' = [flow EXCEPT ![f].status = IF ok /\ StillAdmitted(flow[f]) THEN to ELSE "failed"]
  /\ UNCHANGED <<deployment, user, mfa, policy, provider, binding, session, challenge>>

(* The browser comes back: an ill-timed callback changes nothing. *)
Callback(m, f) ==
  /\ flow[f] # None /\ flow[f].method = m /\ flow[f].status = "pending" /\ StillAdmitted(flow[f])
  /\ flow' = [flow EXCEPT ![f].status = "exchanging"]
  /\ UNCHANGED <<deployment, user, mfa, policy, provider, binding, session, challenge>>

Linked(m, x) == {u \in Users : binding[m][u] # None /\ binding[m][u].subject = x}

(* The exchange named a subject; a named provider's login also fixes the   *)
(* account and the binding it stands for.                                  *)
Exchanged(m, f, x) ==
  LET c == flow[f]
      fixes == m = "named" /\ c.purpose = "login"
      bound == {u \in Linked(m, x) : user[u].active /\ binding[m][u].config = provider[m].config} IN
  /\ c # None /\ c.method = m /\ c.status = "exchanging"
  /\ flow' = [flow EXCEPT ![f] =
       IF ~ StillAdmitted(c) \/ (fixes /\ bound = {}) THEN [c EXCEPT !.status = "failed"]
       ELSE IF fixes THEN LET u == CHOOSE v \in bound : TRUE IN
              [c EXCEPT !.status = "verified", !.subject = x, !.user = u,
                        !.binding = binding[m][u].id]
       ELSE [c EXCEPT !.status = "verified", !.subject = x]]
  /\ UNCHANGED <<deployment, user, mfa, policy, provider, binding, session, challenge>>

(* xBind: the account's own binding must be the same subject; a subject    *)
(* linked to another account is refused.                                   *)
Bindable(m, u, x) ==
  IF binding[m][u] # None
    THEN binding[m][u].subject = x /\ binding[m][u].config = provider[m].config
    ELSE Linked(m, x) = {}
Bind(m, u, x) ==
  /\ NameLeft(BindingsUsed)
  /\ binding' = IF binding[m][u] # None THEN binding
                ELSE [binding EXCEPT ![m][u] = [id |-> Fresh(BindingsUsed), subject |-> x,
                                                config |-> provider[m].config]]

VerifiedBy(m, u) ==
  /\ NameLeft(RevisionsUsed)
  /\ provider' = [provider EXCEPT
       ![m].verified = [by |-> u, binding |-> binding'[m][u].id], ![m].review = Fresh(RevisionsUsed)]

(* The binding was there when the sign-in began. *)
BoundBefore(c, m, u) == binding[m][u].id \in c.seen

(* earlier: a login only through a binding that is as old as the ceremony; *)
(* fixed: only through the binding the callback fixed.                     *)
CompleteLogin(m, f, earlier, fixed) ==
  LET c == flow[f] IN
  /\ c # None /\ c.method = m /\ c.status = "verified" /\ c.purpose = "login" /\ StillAdmitted(c)
  /\ \E u \in Linked(m, c.subject) :
       /\ user[u].active /\ binding[m][u].config = provider[m].config
       /\ earlier => BoundBefore(c, m, u)
       /\ fixed => c.user = u /\ c.binding = binding[m][u].id
       /\ SignedIn(u, m, ProviderProof(m, binding[m][u].id), c.cut,
                   binding[m][u].id \notin c.seen)
  /\ flow' = [flow EXCEPT ![f].status = "consumed"]
  /\ UNCHANGED <<deployment, user, mfa, policy, provider, binding>>

CompleteLink(m, f) ==
  LET c == flow[f] IN
  /\ c # None /\ c.method = m /\ c.status = "verified" /\ c.purpose # "login" /\ StillAdmitted(c)
  /\ Bindable(m, c.user, c.subject) /\ Bind(m, c.user, c.subject)
  /\ IF c.purpose = "verify" THEN VerifiedBy(m, c.user) ELSE UNCHANGED provider
  /\ flow' = [flow EXCEPT ![f].status = "consumed"]
  /\ UNCHANGED <<deployment, user, mfa, policy, session, challenge>>

(* The same control, provider by provider. *)
startOIDC(f, purpose, s)          == Start("oidc", f, purpose, s)
startOAuth(f, purpose, s)         == Start("oauth", f, purpose, s)
startSAML(f, purpose, s)          == Start("saml", f, purpose, s)
startNamedIdentity(f, purpose, s) == Start("named", f, purpose, s)

ReceiveCallback(m, f) ==
  \/ Callback(m, f)
  \/ \E x \in Subjects : Exchanged(m, f, x)
  \/ Advance(m, f, "exchanging", "failed", FALSE)
ReceiveOIDCCallback(f)          == ReceiveCallback("oidc", f)
ReceiveOAuthCallback(f)         == ReceiveCallback("oauth", f)
ReceiveSAMLAssertion(f)         == ReceiveCallback("saml", f)
receiveNamedIdentityCallback(f) == ReceiveCallback("named", f)

CompleteOIDC(f)  == CompleteLogin("oidc", f, FALSE, FALSE) \/ CompleteLink("oidc", f)
CompleteOAuth(f) == CompleteLogin("oauth", f, FALSE, FALSE) \/ CompleteLink("oauth", f)
CompleteSAML(f)  == CompleteLogin("saml", f, TRUE, FALSE) \/ CompleteLink("saml", f)
completeNamedIdentity(f) == CompleteLogin("named", f, FALSE, TRUE) \/ CompleteLink("named", f)

-----------------------------------------------------------------------------
(* LDAP: capture, call the directory, and compare in one transaction. *)

LDAPCaptured(purpose, s) ==
  [Captured("ldap", purpose, "exchanging", s) EXCEPT !.review = provider["ldap"].review]
ldapSameProvider(c) ==
  /\ c.config = provider["ldap"].config /\ c.policy = provider["ldap"].policy
  /\ c.review = provider["ldap"].review

(* No policy check and no lock before the directory is asked. *)
captureLDAP(f, purpose, s) ==
  /\ flow[f] = None /\ Offered("ldap", purpose) /\ provider["ldap"].config # 0
  /\ purpose = "verify" \/ Usable("ldap")
  /\ IF purpose = "login" THEN s = None
     ELSE /\ s # None /\ identityLocalProof(s)
          /\ purpose = "verify" => AdminActive(session[s].user)
  /\ flow' = [flow EXCEPT ![f] = LDAPCaptured(purpose, s)]
  /\ UNCHANGED <<deployment, user, mfa, policy, provider, binding, session, challenge>>

LoginLDAP(f, x) ==
  LET c == flow[f] IN
  /\ c # None /\ c.method = "ldap" /\ c.purpose = "login"
  /\ authenticationMethodAllowed("ldap") /\ ldapSameProvider(c) /\ Usable("ldap")
  /\ \E u \in Linked("ldap", x) :
       /\ user[u].active /\ BoundBefore(c, "ldap", u)
       /\ binding["ldap"][u].config = provider["ldap"].config
       /\ SignedIn(u, "ldap", ProviderProof("ldap", binding["ldap"][u].id), c.cut,
                   binding["ldap"][u].id \notin c.seen)
  /\ flow' = [flow EXCEPT ![f] = None]
  /\ UNCHANGED <<deployment, user, mfa, policy, provider, binding>>

ldapIdentity(f, x) ==
  LET c == flow[f] IN
  /\ c # None /\ c.method = "ldap" /\ c.purpose # "login"
  /\ ldapSameProvider(c) /\ OriginalSession(c) /\ identityLocalProof(c.session)
  /\ IF c.purpose = "verify" THEN AdminActive(c.user) ELSE Usable("ldap")
  /\ Bindable("ldap", c.user, x) /\ Bind("ldap", c.user, x) /\ ProofTaken(c.user)
  /\ IF c.purpose = "verify" THEN VerifiedBy("ldap", c.user) ELSE UNCHANGED provider
  /\ flow' = [flow EXCEPT ![f] = None]
  /\ UNCHANGED <<deployment, user, policy, session, challenge>>

-----------------------------------------------------------------------------
(* Time: a row expires (and is pruned), a request dies, a lock ends. *)

ExpireFlow(f) ==
  /\ flow[f] # None /\ flow' = [flow EXCEPT ![f] = None]
  /\ UNCHANGED <<deployment, user, mfa, policy, provider, binding, session, challenge>>
ExpireSession(s) ==
  /\ session[s] # None /\ session' = [session EXCEPT ![s] = None]
  /\ UNCHANGED <<deployment, user, mfa, policy, provider, binding, challenge, flow>>
ExpireChallenge(u, p) ==
  /\ challenge[u][p] # None /\ challenge' = [challenge EXCEPT ![u][p] = None]
  /\ UNCHANGED <<deployment, user, mfa, policy, provider, binding, session, flow>>
Unlock(u) ==
  /\ mfaLocked(u) /\ mfa' = [mfa EXCEPT ![u].failures = 0]
  /\ UNCHANGED <<deployment, user, policy, provider, binding, session, challenge, flow>>

FlowStep(f) ==
  \/ \E u \in deployment.people : beginLogin(f, u) \/ BeginEmergencyLogin(f, u)
  \/ finishLogin(f) \/ finishEmergencyLogin(f)
  \/ \E p \in {"login", "bind", "verify"}, s \in SessionIds \cup {None} :
       \/ startOIDC(f, p, s) \/ startOAuth(f, p, s) \/ startSAML(f, p, s)
       \/ startNamedIdentity(f, p, s) \/ captureLDAP(f, p, s)
  \/ \E m \in Redirect, ok \in BOOLEAN : Advance(m, f, "starting", "pending", ok)
  \/ ReceiveOIDCCallback(f) \/ ReceiveOAuthCallback(f)
  \/ ReceiveSAMLAssertion(f) \/ receiveNamedIdentityCallback(f)
  \/ CompleteOIDC(f) \/ CompleteOAuth(f) \/ CompleteSAML(f) \/ completeNamedIdentity(f)
  \/ \E x \in Subjects : LoginLDAP(f, x) \/ ldapIdentity(f, x)
  \/ ExpireFlow(f)

SessionStep(s) ==
  \/ Logout(s) \/ WrongLocalProof(s) \/ changePassword(s) \/ ExpireSession(s)
  \/ BeginMFAEnrollment(s) \/ CancelMFAEnrollment(s) \/ EnableMFA(s)
  \/ \E disable \in BOOLEAN : ChangeMFA(s, disable)
  \/ \E forced \in BOOLEAN, u \in Users \cup {None} : SetAuthenticationPolicy(s, forced, u)
  \/ UnlinkOIDC(s) \/ UnlinkOAuth(s) \/ UnlinkSAML(s) \/ UnlinkLDAP(s) \/ unlinkNamedIdentity(s)

UserStep(u) ==
  \/ CompleteMFALogin(u) \/ CompleteEmergencyLogin(u) \/ Unlock(u)
  \/ \E p \in Purposes : ExpireChallenge(u, p)
  \/ \E v \in deployment.people, active, admin \in BOOLEAN :
       mutateMemberState(u, v, [active |-> active, admin |-> admin])
  \/ SaveOIDCProvider(u) \/ SaveOAuthProvider(u) \/ SaveSAML(u) \/ SaveLDAPProvider(u)
  \/ saveNamedIdentityProvider(u)
  \/ \E on \in BOOLEAN : SetOIDCEnabled(u, on) \/ SetOAuthEnabled(u, on)
       \/ SetSAMLStatus(u, on) \/ SetLDAPEnabled(u, on) \/ setNamedIdentityEnabled(u, on)

Next ==
  \/ \E f \in deployment.flows : FlowStep(f)
  \/ \E s \in SessionIds : session[s] # None /\ SessionStep(s)
  \/ \E u \in deployment.people : UserStep(u)

Spec == Init /\ [][Next]_vars

-----------------------------------------------------------------------------
(* The properties. *)

(* Revocation is eager: a session row that is in the database still proves *)
(* what primaryValidateSession asks of it, whatever was changed since it   *)
(* was made (provider, policy, link, role, factor), and it was obtained    *)
(* under the account's present password.                                   *)
EverySessionJustified ==
  \A s \in Sessions :
    /\ user[session[s].user].active /\ primaryValidateSession(session[s])
    /\ session[s].pw = user[session[s].user].pw

(* An account with a second factor has no session that was obtained        *)
(* without it: not one older than the factor, and not one whose sign-in    *)
(* was under way when the factor was switched on.                          *)
FactorRequired ==
  \A s \in Sessions : mfa[session[s].user].enabled => session[s].factor

(* A sign-in through a provider, or through the emergency entry, that was  *)
(* open when the policy excluded its method, or when the provider was      *)
(* disabled or reconfigured, never becomes a session, not even after the   *)
(* change is undone ("disabling later must not revive an authorization     *)
(* response admitted before the enforcement cutoff").  A password sign-in  *)
(* is excepted: finishLogin looks at the policy of its own moment, so one  *)
(* in flight outlives a policy that was forced and lifted meanwhile.  And  *)
(* through SAML and LDAP nobody enters by a binding younger than the       *)
(* sign-in, as it may replace the one the person signed in with.           *)
NoRevival ==
  \A s \in Sessions :
    /\ session[s].method # "local" => ~ session[s].cut
    /\ session[s].method \in {"saml", "ldap"} => ~ session[s].late
=============================================================================
