SPECIFICATION FairSpec
CONSTANTS
    m = m
    w1 = w1
    w2 = w2
    r = r
    s = s
    c = c
    d = d
    None = None
    Main = m
    Workers = {w1}
    Tasks = {r, s, c}
    Parent <- OneChild
    Pausing = TRUE
    Stopping = TRUE
    Waiting = FALSE
PROPERTIES AllLeave WaitEnds 
CHECK_DEADLOCK FALSE
