SPECIFICATION Spec
CONSTANTS
    Labels = {l1, l2}
    Keys = {k1, k2, k3}
    None = None
    Torn = Torn
INVARIANTS TypeOK OneKeyPerLabel RevokedStaysOut IssuedKeysWork SetupOnce
CHECK_DEADLOCK FALSE
