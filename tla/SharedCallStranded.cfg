SPECIFICATION Spec
CONSTANTS
    r1 = r1
    r2 = r2
    r3 = r3
    k1 = k1
    k2 = k2
    Requests = {r1, r2}
    Keys = {k1, k2}
    Loads <- MCDeparture
    MaxSlots = 1
    NoSlot = NoSlot
INVARIANT NeverStranded
