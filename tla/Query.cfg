\* What a text is parsed to, and where a predicate goes.
SPECIFICATION QuerySpec
CONSTANTS
    Texts <- TextsDef
    Predicates <- PredicatesDef
    Depth <- DepthDef
    Operands <- OperandsDef
    Items <- ItemsDef
    Collection = own
    Quoted = {3}
    Columns = {"a", "b"}
    Sorted <- SortedDef
    None = None
INVARIANTS TypeOK PassedIsFetched FetchedIsPassed ShownMeans ReadLeftToRight
CHECK_DEADLOCK FALSE
