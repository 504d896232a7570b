SPECIFICATION Spec
CONSTANTS
    m = m
    w1 = w1
    w2 = w2
    r = r
    s = s
    c = c
    d = d
    None = None
    Main = m
    Workers = {w1, w2}
    Tasks = {r, c, d}
    Parent <- Grandchild
    Pausing = TRUE
    Stopping = TRUE
    Waiting = FALSE
INVARIANTS TypeOK FinishedMeansDone ErasedAlone
PROPERTIES RunOnce
CHECK_DEADLOCK FALSE
