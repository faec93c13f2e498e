SPECIFICATION FairSpec
CONSTANTS
    Requests = {q1}
    Fields = {f1, f2}
    Plans = {p1, p2}
    Handlers = {h1, h2}
    MaxRevision = 3
    MaxCrashes = 1
    NoPlan = NoPlan
    NoRequest = NoRequest
INVARIANTS
    TypeOK
    NoIllegalTransition
    LedgerIsChained
    RunsWhatWasApproved
    EvidenceIsWhole
PROPERTIES
    AnswersAreKept
    RunsAreSettled
CHECK_DEADLOCK FALSE
