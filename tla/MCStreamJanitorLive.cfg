SPECIFICATION FairJSpec
CONSTANTS
    m1 = m1
    c1 = c1
    c2 = c2
    NoMessage = NoMessage
    Nobody = Nobody
    Messages <- MCMessages
    Undecodable <- MCUndecodable
    Consumers <- MCConsumers
    Stalling <- MCStalling
    MaxEntries = 1
    MaxExpiries = 0
    MaxLen = 1
    DeleteOnAck = TRUE
    DlqEnabled = TRUE
    LoopRestarts = TRUE
PROPERTY EntriesSettle
CHECK_DEADLOCK FALSE
