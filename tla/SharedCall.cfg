SPECIFICATION FairSpec
CONSTANTS
    r1 = r1
    r2 = r2
    r3 = r3
    k1 = k1
    k2 = k2
    Requests = {r1, r2, r3}
    Keys = {k1, k2}
    Loads <- MCLoads
    MaxSlots = 1
    NoSlot = NoSlot
INVARIANTS SlotSound PaidOnce
PROPERTIES SlotsApart Answered
