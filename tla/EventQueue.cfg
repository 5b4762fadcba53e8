\* Three requests, two accounts, a minute of two ticks.
SPECIFICATION QueueSpec
CONSTANTS
  r1 = r1
  r2 = r2
  r3 = r3
  p1 = p1
  p2 = p2
  key = key
  user = user
  Ids = {r1, r2, r3}
  Payloads = {p1, p2}
  Accounts = {key, user}
  Policies <- MCPolicies
  Capacity = 2
  HistoryCapacity = 3
  Minute = 2
  Times <- MCTimes
  Absent = Absent
  Unlimited = Unlimited
INVARIANTS SlotsExact WithinBounds
PROPERTIES LimitsRespected ImplementsCallFacts
