\* A receiver in another rack of the sender's pod.
SPECIFICATION Spec
CONSTANTS
    K = 4
    Scenarios <- GroupScenarios
    Orders <- TwoOrders
INVARIANT EveryReceiverRouted
CHECK_DEADLOCK FALSE
