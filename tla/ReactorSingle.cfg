\* The same commits on the browser's single thread, with the fairness of its
\* executor.
SPECIFICATION FairSpec
CONSTANTS
    Entities = {e1, e2}
    Values <- MCValues
    Subs = {"s1"}
    Tasks = {t1, t2}
    Matches <- MCMatches
    IndexHits <- MCIndexHits
    Initial = 0
    MaxBatch = 2
    Runtimes = {"single"}
    None = None
INVARIANTS
    StreamAgrees
    SettledSingle
PROPERTY
    Converges
