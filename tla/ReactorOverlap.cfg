\* Two commits of one event each to one entity, on the single thread.
SPECIFICATION Spec
CONSTANTS
    Entities = {e1}
    Values <- MCValues
    Subs = {"s1"}
    Tasks = {t1, t2}
    Matches <- MCMatches
    IndexHits <- MCIndexHits
    Initial = 0
    MaxBatch = 1
    Runtimes = {"single"}
    None = None
INVARIANT
    PresentlyMatching
