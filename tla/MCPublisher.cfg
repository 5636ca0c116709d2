SPECIFICATION Spec
CONSTANTS
    p1 = p1
    p2 = p2
    Absent = Absent
    NoOne = NoOne
    Sections = {s1}
    Evidence = {e1}
    Stamps = {t1, t2, t3, t4, t5, t6, t7}
    Publishers = {p1, p2}
    ModeOf <- MCDailyAndExport
    FaultKinds = {"crash", "prepare", "section", "evidence", "record", "cut", "append", "manifest", "validate", "sync", "extras", "commit", "push"}
    MaxFaults <- MCFaults
INVARIANTS
    TypeOK
    CommitsAreConsistent
    EvidenceIsLogged
PROPERTIES
    RemoteCatchesUp
