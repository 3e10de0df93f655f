\* Both schedulers on a fat tree of 16 servers.
\* CHECK_DEADLOCK is off: simulations end, and those without short flows only wait.
SPECIFICATION FairSpec
CONSTANTS
    K = 4
    Scenarios <- AllScenarios
    Orders <- TwoOrders
INVARIANTS
    TypeOK
    AppsApart
    FlowsMeetTheirSink
    GroupsApart
    FailsOnlyAlone
    RoutesReachReceivers
    StopsWhenShortFlowsDone
PROPERTY ShortFlowsEndTheRun
CHECK_DEADLOCK FALSE
