SPECIFICATION Spec
CONSTANTS
    c1 = c1
    e1 = e1
    e2 = e2
    None = None
    Versions <- MCVersions
    Summaries = {"s", "t"}
    SummaryOf <- MCSummaryOf
    ChunksOf <- MCChunksOf
    Chunkers = {c1}
    Embedders = {e1, e2}
    MaxWrites <- MCWrites
    Batches = {1, 2, 3, 4, 5, 6, 7}
    MaxFaults = 1
INVARIANTS
    TypeOK
    VectorsMatchTexts
PROPERTIES
    EventuallySearchable
