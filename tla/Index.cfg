\* Two subscriptions with any of the predicates, added and removed in any order.
SPECIFICATION Spec
CONSTANTS
    Subs = {s1, s2}
    Predicates <- MCPredicates
    Depth <- MCDepths
    Texts <- MCTexts
    None = None
INVARIANTS
    TypeOK
    IndexCompleteFor
    IndexPrecise
    IndexExact
