\* The owner of a file that the service returned.
SPECIFICATION Spec
CONSTANTS
    Requests = {1}
    MCMethods = {"download"}
    Operations <- MCOperations
    Handles <- MCHandles
    RemoteStatuses = {404, 409}
    DescribedBodies <- MCDescribedBodies
    DescribedResults <- MCDescribedResults
    NoOperation = NoOperation
\* A settled request is left alone.
CHECK_DEADLOCK FALSE
INVARIANT OwnerIsReleased
