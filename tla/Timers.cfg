\* One of two clients adds timers; one timer is periodic.
CONSTANTS
    c1 = c1
    c2 = c2
    t1 = t1
    t2 = t2
    t3 = t3
    Clients <- MCClients
    Inserters <- MCOne
    Timers <- MCTimers
    Periodic <- MCPeriodic
    MaxOps = 4
SPECIFICATION FairSpec
CHECK_DEADLOCK FALSE
INVARIANTS
    TypeOK
    OnePlace
    NoLostInsert
    RemovalIsFinal
PROPERTIES
    CallsReturn
    AddIsTaken
