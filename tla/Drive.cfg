SPECIFICATION FairSpec
CONSTANTS
    Plans <- MCPlans
    None = None
CHECK_DEADLOCK FALSE
INVARIANTS BooksExact WithinPolicy
PROPERTIES NothingTooLate EveryRequestEnds
