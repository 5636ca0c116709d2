SPECIFICATION Spec
CONSTANTS
    Paths = {p1, p2}
    Callers = {conn, job}
    Conns = {conn}
    NoPath = NoPath
    Requests <- MCRequests
    Steps = {"enrich"}
    TTL = 1
    Timeout = 1
    Threshold = 1
    Attempts = 2
    MaxTime = 2
    MaxChanges = 1
INVARIANTS
    TypeOK
PROPERTIES
    AnswersAreRecent
    RequestsEnd
