SPECIFICATION FairSignalSpec
CONSTANTS
    Signals = {root, c1, c2}
    Root = root
    Tasks = {t1}
    Nobody = Nobody
INVARIANTS NoLostWake NoMissedChild
PROPERTY Reached
