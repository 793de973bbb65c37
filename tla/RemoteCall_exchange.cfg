\* One call of any method, from end to end.
SPECIFICATION Spec
CONSTANTS
    NoVerb = NoVerb
    NoAnswer = NoAnswer
    NoOperation = NoOperation
    Methods = {"find", "download", "store", "label", "touch"}
    Verbs <- MCVerbs
    Exposed <- MCExposed
    ClientDefault <- MCClientDefault
    Handles <- MCHandles
    DescribedBodies <- Every
    DescribedResults <- MCDescribedResults
    Files <- MCFiles
    Calls = {c1}
    Uploads = {u1, u2}
    LeaveOpen = {u1}
    MaximumFiles = 2
    Hosts <- MCHosts
    BadArguments = TRUE
    RemoteStatuses = {400, 404}
    Dynamic = {"find", "label"}
CHECK_DEADLOCK FALSE
INVARIANTS
    ErrorsKeepTheirMeaning
    RefusedLeavesNoTrace
    NothingIsLeftOpen
PROPERTIES
    ImplementsInvocation
    ImplementsClient
