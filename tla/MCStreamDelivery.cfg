SPECIFICATION Spec
CONSTANTS
    m1 = m1
    m2 = m2
    c1 = c1
    c2 = c2
    NoMessage = NoMessage
    Nobody = Nobody
    Messages <- MCMessages
    Undecodable <- MCUndecodable
    Consumers <- MCConsumers
    MaxEntries = 3
    MaxExpiries = 1
    MaxLen = 2
    DeleteOnAck = TRUE
    DlqEnabled = TRUE
    LoopRestarts = TRUE
SYMMETRY Symmetry
INVARIANTS
    TypeOK
    NoSilentLoss
    OneRunPerWindow
    OneWorkerPerEntry
PROPERTIES
    ImplementsContract
CHECK_DEADLOCK FALSE
