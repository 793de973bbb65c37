\* Two first calls at once: only good arguments, only good answers.
SPECIFICATION Spec
CONSTANTS
    c1 = c1
    c2 = c2
    u1 = u1
    u2 = u2
    NoVerb = NoVerb
    NoAnswer = NoAnswer
    Methods <- MCMethods
    Verbs <- AllVerbs
    Exposed <- MCExposed
    ClientDefault <- MCClientDefault
    Operation <- MCOperation
    Calls = {c1, c2}
    MCMethods = {"find"}
    Answers <- GoodAnswers
    MaximumFiles = 2
    Hosts <- FreshHost
    BadArguments = FALSE
    Uploads = {u1, u2}
    LeaveOpen = {u1}
INVARIANTS
    TransportMeansExchangeFailure
\* Every call ends, and then nothing is left to do.
CHECK_DEADLOCK FALSE
