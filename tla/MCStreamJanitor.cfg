SPECIFICATION JSpec
CONSTANTS
    m1 = m1
    c1 = c1
    c2 = c2
    NoMessage = NoMessage
    Nobody = Nobody
    Messages <- MCMessages
    Undecodable <- MCUndecodable
    Consumers <- MCConsumers
    Stalling <- MCStalling
    MaxEntries = 2
    MaxExpiries = 0
    MaxLen = 1
    DeleteOnAck = TRUE
    DlqEnabled = TRUE
    LoopRestarts = TRUE
INVARIANTS
    CutoffIsSafe
    RemovedHeldNothing
    NoSilentLossJ
CHECK_DEADLOCK FALSE
