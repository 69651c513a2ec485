SPECIFICATION Spec
CONSTANTS
    S = S
    a = a
    b = b
    ea = ea
    eb = eb
    Nodes <- NodesDef
    Durable <- DurableDef
    Links <- LinksDef
    Events = {ea, eb}
    Author <- AuthorDef
    Asking <- AskingDef
    Capacity = 1
    MaxAsks = 1
    Dropped <- DroppedDef
    Evicted = {a, S}
    None = None
INVARIANTS TypeOK Answerable PendingAccounted AckedStored SubscriberTold
PROPERTY CommitReturns
CHECK_DEADLOCK FALSE
