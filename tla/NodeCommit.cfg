\* A transaction of one entity, one of two, a request, a reader, storage failures
\* and a restart.
SPECIFICATION Spec
CONSTANTS
    e1 = e1
    e2 = e2
    t1 = t1
    t2 = t2
    r1 = r1
    Entities = {e1, e2}
    Known = {e1}
    NewId <- MCNewId
    Objects = {o1, o2, o3, o4}
    Txns = {t1, t2}
    Requests = {r1}
    Readers = {g1}
    Carried <- MCCarried
    MaxEdits <- MCMaxEdits
    MaxRestarts = 1
    Faults = {"storage"}
    None = None
INVARIANTS
    TypeOK
    UniqueResident
    ResidentCurrent
    DurableApart
    AckedNotified
