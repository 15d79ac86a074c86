SPECIFICATION Spec
CONSTANTS
    Machines <- MCMachines
    BusPages = 4
    LastBus = 1
    Funcs = 2
    NicId = "10ec8139"
    RxRing = 64
    Lengths = {13, 28}
    MaxRx = 5
    MaxTx = 5
INVARIANTS
    ScanSound
    PinsReachTheirHandlers
    WiringKept
    TransmittedInOrder
    ReceivedInOrder
    NoPacketLeftBehind

    
