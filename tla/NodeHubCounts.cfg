SPECIFICATION FairSpec
CONSTANTS
    Addresses = {"a"}
    Sessions = {1, 2}
    max_active_connections = 1
    max_active_connections_per_ip = 1
    min_outgoing_connections = 1
    Fed <- NothingFed
    ProcessorCapacity = 1
    Width = 8
INVARIANTS MaxActive CountersExact AddressesCovered NeededExact
PROPERTIES NeededServed EndedAreErased 
CHECK_DEADLOCK FALSE
