CONSTANTS
    Writers = {w1, w2}
    Records <- MCRecords
    Fields = {"f", "g"}
    Values = {1, 2}
    Absent = 0
    NoKey = NoKey
    Url <- MCUrl
    ExternalId <- MCExternalId
    Name <- MCName
    Content <- MCContent
    MaxPersists = 4
    MaxFaults = 1
SPECIFICATION Spec
SYMMETRY Symmetry
INVARIANTS TypeOK Provenance LatestEvidence OneEntityPerKey MergedOnSharedKey
CHECK_DEADLOCK FALSE
