\* Any two predicates, reliable or not.
SPECIFICATION Spec
CONSTANTS
    Subs = {s1, s2}
    Predicates <- MCPredicates
    Depth <- MCDepths
    Texts <- MCTexts
    None = None
INVARIANT
    IndexComplete
