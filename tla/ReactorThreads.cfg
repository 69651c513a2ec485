\* Two commits of up to two events against one subscription, on threads and on
\* the single thread.
SPECIFICATION Spec
CONSTANTS
    Entities = {e1, e2}
    Values <- MCValues
    Subs = {"s1"}
    Tasks = {t1, t2}
    Matches <- MCMatches
    IndexHits <- MCIndexHits
    Initial = 0
    MaxBatch = 2
    Runtimes = {"threads", "single"}
    None = None
INVARIANTS
    TypeOK
    WatchersAgree
    NothingLeftBehind
SYMMETRY Symmetry
