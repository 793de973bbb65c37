\* Every hierarchy of a service and three interfaces, and every declaration of a few.
SPECIFICATION FairSpec
CONSTANTS
    Interfaces <- MCInterfaces
    Service <- MCService
    Methods = {"m", "n"}
    Contracts <- MCContracts
    NoDeclaration = NoDeclaration
\* The parser returns.
CHECK_DEADLOCK FALSE
INVARIANTS
    TypeOK
    SourcesAreTheHierarchy
    MostSpecificVerbsWin
    ExplicitBindingsAreInherited
    PoliciesFollowInheritance
    ModelIsServable
PROPERTIES
    ParsingEnds
