\* The connection manager, in seven uses of the library.
CONSTANTS
    t1 = t1
    t2 = t2
    Threads = {t1, t2}
    Ids = {1, 2, 3}
    Handles = {0, 1, 2}
    MaxFd = 5
    MaxEvents = 8
    Uses <- AllUses
    Nil = Nil
SPECIFICATION Spec
CHECK_DEADLOCK FALSE
INVARIANTS EventFindsId OneAckPerEvent EstablishedMeansReady
 
