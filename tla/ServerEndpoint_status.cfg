\* The status of bytes.
SPECIFICATION Spec
CONSTANTS
    Requests = {1}
    MCMethods = {"export"}
    Operations <- MCOperations
    Handles <- MCHandles
    RemoteStatuses = {404, 409}
    DescribedBodies <- MCDescribedBodies
    DescribedResults <- MCDescribedResults
    NoOperation = NoOperation
\* A settled request is left alone.
CHECK_DEADLOCK FALSE
INVARIANT ExpectedStatusIsSent
