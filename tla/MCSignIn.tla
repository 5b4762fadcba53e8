------------------------------ MODULE MCSignIn ------------------------------
(* SignIn for TLC.  Two states that differ only in which random names they *)
(* use are one state: View keeps of every copied revision, generation,     *)
(* password and binding whether it is empty (0), the present one (1) or an *)
(* old one (2), which is all that the actions and the properties can tell, *)
(* and of a session's id who refers to it.                                 *)
EXTENDS SignIn, TLC

CONSTANTS u1, u2, f1, f2, s1, s2, x1

Age(v, present) == IF v \in {0, None} THEN 0 ELSE IF v = present THEN 1 ELSE 2

AgedProof(r) ==
  IF r.method = "emergency"
    THEN <<Age(r.proof.policy, policy.rev), Age(r.proof.gen, mfa[r.user].gen),
           Age(r.proof.pw, user[r.user].pw)>>
  ELSE IF r.method = "local" THEN <<>>
  ELSE <<Age(r.proof.config, provider[r.method].config),
         Age(r.proof.policy, provider[r.method].policy),
         Age(r.proof.binding, BindingId(r.method, r.user))>>

AgedSession(s) ==
  LET r == session[s] IN
  <<r.user, r.method, AgedProof(r), Age(r.pw, user[r.user].pw), r.factor, r.cut, r.late,
    {f \in FlowsLive : flow[f].status \in Open /\ flow[f].session = s},
    {u \in Users : challenge[u]["enrollment"] # None /\ challenge[u]["enrollment"].session = s}>>

AgedChallenge(u, p) ==
  LET c == challenge[u][p] IN
  IF c = None THEN None
  ELSE <<c.method, AgedProof(c), Age(c.pw, user[u].pw), Age(c.gen, mfa[u].gen),
         c.attempts, c.cut, c.late>>

AgedFlow(f) ==
  LET c == flow[f] IN
  IF c = None THEN None
  ELSE IF c.status \in {"consumed", "failed"} THEN c.status
  ELSE <<c.method, c.purpose, c.status, c.user, c.cut, c.subject,
         IF c.method \in Methods
           THEN <<Age(c.config, provider[c.method].config),
                  Age(c.policy, provider[c.method].policy),
                  Age(c.review, provider[c.method].review),
                  {u \in Users : BindingId(c.method, u) \in c.seen},
                  IF c.user = None THEN 0 ELSE Age(c.binding, BindingId(c.method, c.user))>>
           ELSE <<Age(c.policy, policy.rev)>>,
         IF c.user = None THEN <<>>
           ELSE <<Age(c.pw, user[c.user].pw), Age(c.gen, mfa[c.user].gen)>>,
         c.session # None /\ session[c.session] = None>>

AgedProvider(m) ==
  LET p == provider[m] IN
  <<p.config # 0, p.enabled,
    IF p.verified = None THEN None
    ELSE <<p.verified.by, Age(p.verified.binding, BindingId(m, p.verified.by))>>>>

AgedBinding(m, u) ==
  LET b == binding[m][u] IN
  IF b = None THEN None ELSE <<b.subject, Age(b.config, provider[m].config)>>

View ==
  <<deployment, [u \in Users |-> <<user[u].active, user[u].admin>>],
    [u \in Users |-> <<mfa[u].enabled, mfa[u].gen # 0, mfa[u].failures>>],
    policy.forced, policy.admin,
    [m \in deployment.used |-> AgedProvider(m)],
    [m \in deployment.used |-> [u \in Users |-> AgedBinding(m, u)]],
    LET aged == {AgedSession(s) : s \in Sessions} IN
      [a \in aged |-> Cardinality({s \in Sessions : AgedSession(s) = a})],
    [u \in Users |-> [p \in Purposes |-> AgedChallenge(u, p)]],
    [f \in Flows |-> AgedFlow(f)]>>

MCUsers == {u1, u2}
MCFlows == {f1, f2}
MCSessionIds == {s1, s2}
MCNames == 1..20

(* Two members and the policy; one member and each provider, once with     *)
(* forced single sign-on resting on another one; two sign-ins at once.     *)
Alone(used, ready) ==
  [used |-> used, ready |-> ready, people |-> {u1}, flows |-> {f1}, sessions |-> {s1, s2}]
Overlapping(used) ==
  [used |-> used, ready |-> {}, people |-> {u1}, flows |-> {f1, f2}, sessions |-> {s1}]
MCDeployments ==
  {[used |-> {}, ready |-> {"oidc"}, people |-> {u1, u2}, flows |-> {f1}, sessions |-> {s1}],
   Alone({"oidc"}, {}), Alone({"ldap"}, {}),
   Alone({"saml"}, {"ldap"}), Alone({"oauth"}, {}), Alone({"named"}, {}),
   Overlapping({"saml"}), Overlapping({"ldap"})}
=============================================================================
