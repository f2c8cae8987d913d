CONSTANTS
    Forwarders = {"mqtt", "amqp"}
    BridgeLogEnd = 4
    MaxBridgeFaults = 3
SPECIFICATION BridgeSpec
PROPERTIES
    RedeliveredOnNextPoll
CHECK_DEADLOCK FALSE
