CONSTANTS
    Client = {c1, c2}
    None = None
    MaxEpoch = 2
    Uid <- MCTwo
    Pw <- MCOne
    Bio <- MCTwo
SPECIFICATION FairSpec
INVARIANTS
    KeyAgreement
    KeyOnlyForRegistered
    CorrectLoginAccepted
    SharedKeyNeverFails
    TornFileBlocksAll
PROPERTIES
    TornForever
    ImplementsKeyExchange
    NoClientWaitsForever
CHECK_DEADLOCK FALSE
