SPECIFICATION Spec
CONSTANTS
    Request = {r1}
    personal = personal
    factual = factual
    Question = {personal, factual}
    Source = {s1}
    Distance <- MCDistance
    Threshold = 1
    AdviceByRule = {personal}
    Cap = 1
    ChunkCount <- MCChunkCount
    Writers = {"other"}
    RefreshJobs = 1
    MaxDay = 2
    MaxFaults = 1
SYMMETRY Symmetry
INVARIANTS
    RowsFollowCorpus
