CONSTANTS
    Client = {c1}
    None = None
    MaxEpoch = 1
    Uid <- MCTwo
    Pw <- MCTwo
    Bio <- MCOne
SPECIFICATION Spec
INVARIANTS
    SelfAuthBindsFactors
CHECK_DEADLOCK FALSE
