CONSTANTS
    Emitters = {e1, e2}
    Streams = {s1}
    BufferSize = 2
    QueueSize = 2
    MaxEvents = 2
    MaxRestart = 1
SPECIFICATION Spec
INVARIANTS TypeOK NoGap ShownInOrder EmitterOrder
PROPERTIES QueuedShown ImplementsFeed
CHECK_DEADLOCK FALSE
