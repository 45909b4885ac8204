\* Every kind of input, every answer of every tool, cancelled at any moment.
CONSTANTS
    Limit = 1
    MaxSize = 2
    Slots = 1
    Requests <- MCRequests
    Outputs <- MCOutputs
SPECIFICATION FairSpec
INVARIANTS TypeOK SuccessIsCanonical OutputWithinLimit NothingLeftBehind PolicyKept FaststartAgrees
PROPERTIES CancelEnds OverLimitEnds
