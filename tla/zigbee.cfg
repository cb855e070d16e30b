SPECIFICATION Spec
CONSTANTS
    RejoinTimeout = 6
    ReconnectDelay = 7
    REJOIN_INTERVAL_MAX = 4
    SteeringTime = 1
    QueueLength = 10
INVARIANTS OneReconnectAlarm QueueFits StatusAgrees
PROPERTIES EraseOnlyAfterGivingUp
