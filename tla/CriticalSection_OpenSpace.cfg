SPECIFICATION Spec
CONSTANTS
    t1 = t1
    t2 = t2
    t3 = t3
    t4 = t4
    Threads <- MCPair
    OpenSpace <- MCPair
    MaxDepth = 1
    MaxEnters = 3
CHECK_DEADLOCK FALSE
INVARIANT SingleThread
