\* Hosts of one contract, with any three conventions of theirs.
SPECIFICATION Spec
CONSTANTS
    Names <- MCNames
    Contract <- MCContract
    Registrations <- MCRegistrations
    MaxCalls = 3
    Any = Any
INVARIANTS
    ConventionsFollowScopes
    FailedMappingIsProtected
\* The host starts, or does not.
CHECK_DEADLOCK FALSE
