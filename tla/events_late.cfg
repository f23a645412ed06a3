\* An acknowledgement that arrives while its queue is destroyed.
CONSTANTS
    p1 = p1
    p2 = p2
    t1 = t1
    t2 = t2
    t3 = t3
    Procs = {p1, p2}
    Threads = {t1, t2, t3}
    Uses <- ExampleUse
    Cqs = {c1, c2}
    Handles = {1}
    Fds = {1, 2}
    MaxEvents = 2
    NULL = NULL
SPECIFICATION Spec
CHECK_DEADLOCK FALSE
PROPERTY DestroyReturns
