\* Money ceilings in two currencies, unknown amounts, a key under its user.
SPECIFICATION Spec
CONSTANTS
  r1 = r1
  r2 = r2
  r3 = r3
  p1 = p1
  p2 = p2
  user = user
  key = key
  usd = usd
  eur = eur
  b1 = b1
  b2 = b2
  utc = utc
  Ids = {r1, r2}
  Payloads = {p1}
  Accounts = {key, user}
  Policies <- MoneyPolicies
  Capacity = 3
  HistoryCapacity = 9
  Minute = 2
  Times <- MoneyTimes
  Absent = Absent
  Unlimited = Unlimited
  Rolling = {}
  Length <- MCLength
  MonthLength = 2
  Zones = {utc}
  Offset <- MCOffset
  Currencies = {"USD", "EUR"}
  Bounds <- MoneyBounds
  Settlements <- MoneySettlements
  QuotaCapacity = 2
  Nil = Nil
SYMMETRY Symmetry
PROPERTIES
  CeilingsRespected
