CONSTANTS
    Width = 3
    Limbs = 2
    Half = 1
    BitXor <- MCXor
    Key <- MCKey
    UserHash = 43
    Password = 6
    Salts = {9, 30}
    Randoms = {11, 13}
    Args <- MCArgs
    Moduli = {3, 7, 13, 31, 61}
SPECIFICATION Spec
INVARIANTS
    ChebyshevExact
    ModExact
    DeviceKeyAgrees
CHECK_DEADLOCK FALSE
