\* Two commits of one event each to one entity, on threads.
SPECIFICATION Spec
CONSTANTS
    Entities = {e1}
    Values <- MCValues
    Subs = {"s1"}
    Tasks = {t1, t2}
    Matches <- MCMatches
    IndexHits <- MCIndexHits
    Initial = 0
    MaxBatch = 1
    Runtimes = {"threads"}
    None = None
INVARIANT
    PresentlyMatchingApart
