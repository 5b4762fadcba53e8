SPECIFICATION Spec
CONSTANTS
    Recipients = {r1}
    Workers = {w1, w2}
    MaxAttempts = 2
    MaxSettings = 1
    MaxCrashes = 1
    MaxChanges <- MCMaxChanges
    Sources = {"fact", "discovery", "quality", "inference", "offboarding", "quota", "test"}
    Places = {1, 2, 3}
    Batch = 1
    Threshold = 2
    MaxPolicies = 1
    FactPlaces <- MCFactPlaces
    MaxOpen = 2
    MaxCalls = 6
    Isolations <- MCIsolations
    Accounts <- MCAccounts
    Times = {1, 2, 3}
    Months = {1}
    Caps = {0, 10}
    Amounts = {7, 8, 9, 10}
    MaxRevisions = 1
INVARIANTS
    MailTruth
    WarnedOnce
PROPERTIES
    AlertsTrue
    DeliverySettles
CHECK_DEADLOCK FALSE
