SPECIFICATION Spec
CONSTANTS
    h1 = h1
    h2 = h2
    Handlers = {h1, h2}
    Operations <- MCOperations
    Subjects = {s1}
    Lease = 1
INVARIANTS RevocationHonoured StalenessBounded CommandOutcomeTrue
PROPERTY RevocationTakesEffect
CHECK_DEADLOCK FALSE
