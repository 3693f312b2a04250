SPECIFICATION Spec
CONSTANTS
    m1 = m1
    m2 = m2
    c1 = c1
    c2 = c2
    NoMessage = NoMessage
    Nobody = Nobody
    Messages <- MCMessages
    Undecodable <- MCUndecodable
    Consumers <- MCConsumers
    MaxEntries = 2
    MaxExpiries = 1
    MaxLen = 2
    DeleteOnAck = TRUE
    DlqEnabled = TRUE
    LoopRestarts = TRUE
INVARIANT AtLeastOnce
CHECK_DEADLOCK FALSE
