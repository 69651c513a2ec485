SPECIFICATION Spec
CONSTANTS
    p1 = p1
    p2 = p2
    p3 = p3
    id = id
    ha = ha
    hb = hb
    Callers = {p1, p2, p3}
    Ids = {id}
    States <- StatesDef
    Columns <- ColumnsDef
    Connections = {c1, c2, c3}
    Tab <- TabDef
    MaxAborts = 1
    None = None
INVARIANTS TypeOK AloneSucceeds
PROPERTIES PgImplements IdbImplements CallsEnd
CHECK_DEADLOCK FALSE
