SPECIFICATION FairSpec
CONSTANTS
    Keys <- MCKeys
    Capacity = 2
    CmdSize = 4
    Commands <- MCCommands
    Machines <- MCMachines
    LastBus = 2
    LastDevice = 1
    LastFunction = 1
    StackCalls = 4
    NoKey = NoKey
    NoMachine = NoMachine
INVARIANTS
    
    ListsAll
    FindsAll
PROPERTIES
    KeysHandled
