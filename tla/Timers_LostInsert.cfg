\* Both clients add timers.
CONSTANTS
    c1 = c1
    c2 = c2
    t1 = t1
    t2 = t2
    t3 = t3
    Clients <- MCClients
    Inserters <- MCClients
    Timers <- MCTimers
    Periodic <- MCPeriodic
    MaxOps = 4
SPECIFICATION FairSpec
CHECK_DEADLOCK FALSE
INVARIANT NoLostInsert
