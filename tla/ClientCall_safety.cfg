\* Two concurrent calls of any methods on a host of either kind,
\* under the fairness of the scheduler, of HttpClient.Timeout and of cancellation.
SPECIFICATION FairSpec
CONSTANTS
    c1 = c1
    c2 = c2
    u1 = u1
    u2 = u2
    NoVerb = NoVerb
    NoAnswer = NoAnswer
    Methods <- MCMethods
    Verbs <- AllVerbs
    Exposed <- MCExposed
    ClientDefault <- MCClientDefault
    Operation <- MCOperation
    Calls = {c1, c2}
    MCMethods = {"find", "download", "store", "label"}
    Answers <- MCAnswers
    MaximumFiles = 2
    Hosts <- MCHosts
    BadArguments = TRUE
    Uploads = {u1, u2}
    LeaveOpen = {u1}
INVARIANTS
    TypeOK
    ResponseHasOwner
    UploadsFollowRequests
    OutcomeAgreesWithAnswer
    RefusedBeforeSending
    CancellationHasAuthor
    BufferedFailureIsReported
    AssignmentRaceNeedsAnotherCall
    MetadataFailureIsTheHosts
PROPERTIES
    ImplementsContract
    OptionsSettle
    BufferedCallsSettle
    CancelledCallsSettle
\* Every call ends, and then nothing is left to do.
CHECK_DEADLOCK FALSE
