SPECIFICATION FairSpec
CONSTANTS
    w0 = w0
    w1 = w1
    w2 = w2
    None = None
    Threads = {w0, w1, w2}
    Owner = w0
    Size = 3
    Reach = 2
    MaxPushes = 5
INVARIANTS TypeOK TakenOnce
PROPERTIES KeepsPromise Drained
