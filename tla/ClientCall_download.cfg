\* A download whose stream cannot be opened.
SPECIFICATION Spec
CONSTANTS
    c1 = c1
    u1 = u1
    NoVerb = NoVerb
    NoAnswer = NoAnswer
    Methods <- MCMethods
    Verbs <- AllVerbs
    Exposed <- MCExposed
    ClientDefault <- MCClientDefault
    Operation <- MCOperation
    Calls = {c1}
    MCMethods = {"download"}
    Answers <- MCAnswers
    MaximumFiles = 2
    Hosts <- FreshHost
    BadArguments = FALSE
    Uploads = {u1}
    LeaveOpen = {u1}
INVARIANTS
    DownloadsAreOwned
\* Every call ends, and then nothing is left to do.
CHECK_DEADLOCK FALSE
