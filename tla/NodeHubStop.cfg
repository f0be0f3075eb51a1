SPECIFICATION Spec
CONSTANTS
    Addresses = {"a"}
    Sessions = {1, 2}
    max_active_connections = 2
    max_active_connections_per_ip = 2
    min_outgoing_connections = 1
    Fed <- NothingFed
    ProcessorCapacity = 1
    Width = 8
INVARIANT AllStoppedOnReturn
CHECK_DEADLOCK FALSE
