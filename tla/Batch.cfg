SPECIFICATION Spec
CONSTANTS
    Loads <- MCLoads
    Permits = 1
    Limit = 3
    SourcePermits = 1
    None = None
CHECK_DEADLOCK FALSE
INVARIANTS BooksExact MembersApart WavesBounded
PROPERTIES EveryRequestEnds
