\* Two transactions on one entity that is in memory, and nothing fails.
SPECIFICATION Spec
CONSTANTS
    e1 = e1
    e2 = e2
    t1 = t1
    t2 = t2
    r1 = r1
    Entities = {e1, e2}
    Known = {e1}
    NewId <- MCNewId
    Objects = {o1, o2, o3, o4}
    Txns = {t1, t2}
    Requests = {}
    Readers = {}
    Carried <- MCCarried
    MaxEdits <- MCOneEdit
    MaxRestarts = 0
    Faults = {}
    None = None
INVARIANT
    Durable
