\* Token windows of one account: three requests over a receipt history of two,
\* a rolling window of one tick, a month of three.
SPECIFICATION Spec
CONSTANTS
  r1 = r1
  r2 = r2
  r3 = r3
  p1 = p1
  p2 = p2
  user = user
  key = key
  usd = usd
  eur = eur
  b1 = b1
  b2 = b2
  utc = utc
  Ids = {r1, r2, r3}
  Payloads = {p1}
  Accounts = {user}
  Policies <- TokenPolicies
  Capacity = 3
  HistoryCapacity = 9
  Minute = 2
  Times <- TokenTimes
  Absent = Absent
  Unlimited = Unlimited
  Rolling = {"minute"}
  Length <- MCLength
  MonthLength = 3
  Zones = {utc}
  Offset <- MCOffset
  Currencies = {"USD"}
  Bounds <- TokenBounds
  Settlements <- TokenSettlements
  QuotaCapacity = 2
  Nil = Nil
SYMMETRY Symmetry
INVARIANTS
  RecoveryNeverRefused
  CountersAreProjections
  ReceiptsOutliveFacts
PROPERTIES
  CeilingsRespected
  ImplementsSettledFacts
