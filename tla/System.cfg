SPECIFICATION SpecSystem
CONSTANTS
    Networks = {1, 2}
    Unknown = 3
    Home = 1
    PageSizes = {4, 8}
    HomePage = 4
    kParamFiles <- MCParamFiles
    kPanicSignals = 2
    MaxFaults = 3
    Lives = {1, 2}
    Keys = {1, 2, 3}
    Capacity = 2
    MaxInserts = 5
    PageSize = 2
    MaxCount = 3
    Objects <- MCObjects
    Stages <- MCStages
    MaxBlock = 3
    Cursors = {1, 2, 3}
    MaxHandles = 4
    Tables <- MCTables
    Searches <- MCSearches
INVARIANTS  ContainersExact PagesExact WalksExact
    
CHECK_DEADLOCK FALSE
