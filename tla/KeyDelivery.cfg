SPECIFICATION IssueSpec
CONSTANTS
    Requests = {r1}
    Processes = {p1, p2}
SYMMETRY MCSymmetry
INVARIANTS ServedWasDelivered OutcomeTrue
PROPERTY OutcomeIsFinal
CHECK_DEADLOCK FALSE
