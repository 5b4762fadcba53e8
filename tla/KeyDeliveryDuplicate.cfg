SPECIFICATION IssueSpec
CONSTANTS
    Requests = {r1}
    Processes = {p1}
PROPERTY DuplicateCannotStop
CHECK_DEADLOCK FALSE
