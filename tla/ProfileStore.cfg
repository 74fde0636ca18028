SPECIFICATION Spec
CONSTANTS
    Roots = {"p", "q", "r"}
    Fields = {"vendor"}
    Unknown = "unknown"
    Abstract = {"_base"}
    Libraries <- MCLibraries
INVARIANTS
    EachMergedOnce
    ChildWins
    MostSpecificWins
    OneClaimantWins
PROPERTIES
    ResolveReturns
CHECK_DEADLOCK FALSE
