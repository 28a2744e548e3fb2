CONSTANTS
    Width = 2
    Table <- ModelTables
    Predicate <- ModelPredicates
    Projection <- ModelProjections
    Order <- ModelOrders
    Count = {1}
SPECIFICATION Spec
CHECK_DEADLOCK FALSE
INVARIANTS
    RewritesAnswer
    PredicateKept
