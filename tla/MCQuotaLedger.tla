---------------------------- MODULE MCQuotaLedger ----------------------------
(* Small instances of QuotaLedger for TLC.                                 *)
EXTENDS QuotaLedger, TLC

CONSTANTS r1, r2, r3, p1, p2, user, key, usd, eur, b1, b2, utc

NoTokens == [w \in Windows |-> Unlimited]

Limit(tokens, money, born) ==
  [rpm |-> Unlimited, concurrency |-> Unlimited, tokens |-> tokens, money |-> money,
   currency |-> "USD", tokensSoft |-> FALSE, moneySoft |-> FALSE, created |-> born]

Bound(t, m, r) == [tokens |-> t, money |-> m, currency |-> "USD", revision |-> r]
Settled(t, m) == [tokens |-> t, money |-> m, currency |-> IF m = Nil THEN Nil ELSE "USD"]

MCLength == [w \in Rolling |-> 1]
MCOffset == [z \in Zones |-> 0]

\* Tokens only: a rolling and a calendar ceiling for one account; three requests
\* over a receipt history of two.
TokenPolicies == {user :> Limit([w \in Windows |-> IF w = "month" THEN 2 ELSE 1], Unlimited, 1)}
TokenBounds == {Bound(1, Nil, b1)}
TokenSettlements == {Unsettled, Settled(0, Nil), Settled(2, Nil)}
TokenTimes == 1..3

\* Money and unknown amounts: a key on an alert-only limit under a user with a
\* hard ceiling, which is lifted at times; calls priced in either currency or in none.
MoneyPolicies ==
  LET hard == Limit(NoTokens, 2, 1)
  IN { (key :> [hard EXCEPT !.money = 1, !.moneySoft = TRUE]) @@ (user :> hard),
       user :> [hard EXCEPT !.money = Unlimited] }
MoneyBounds == {Bound(Nil, 1, b1), Bound(Nil, Nil, Nil), [Bound(1, 1, b2) EXCEPT !.currency = "EUR"]}
MoneySettlements ==
  {Unsettled, Settled(Nil, 0), Settled(1, 2), [Settled(Nil, 1) EXCEPT !.currency = "EUR"]}
MoneyTimes == 1..2

Symmetry == Permutations(Ids)
=============================================================================
