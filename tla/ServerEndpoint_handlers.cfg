\* A request to any operation, by either handler.
SPECIFICATION FairSpec
CONSTANTS
    Requests = {1}
    MCMethods = {"delete", "download", "text", "export", "create", "touch", "update", "list"}
    Operations <- MCOperations
    Handles <- MCHandles
    RemoteStatuses = {404, 409}
    DescribedBodies <- MCDescribedBodies
    DescribedResults <- MCDescribedResults
    NoOperation = NoOperation
\* A settled request is left alone.
CHECK_DEADLOCK FALSE
INVARIANTS
    TypeOK
    UnboundNeverExecutes
    ThrownErrorsAreProblems
    SuccessMeansReturned
    ContentIsReleased
PROPERTIES
    ResponseIsFinal
    EndedCallsAreAnswered
