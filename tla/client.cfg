\* A query, two calls in any order on its response of three rows, and one
\* other operation of the client.
SPECIFICATION ClientFairSpec
CONSTANTS
    Platforms <- BothPlatforms
    Formats <- AllFormats
    Calls = {c1, c2}
    Total = 3
    None = None
    Operations = {q, o}
    TheQuery = q
    UserAttributes <- Colliding
    LogsQueryText = FALSE
INVARIANTS
    FulfilledIsComplete
    ReadingEndsSpan
    SpanTellsOutcome
    NotLost
    OperationTold
PROPERTIES
    SpansKept
    SpanEndsWithResponse
\* A result set that was read or lost accepts no more calls than there are.
CHECK_DEADLOCK FALSE
