SPECIFICATION Spec
CONSTANTS
    i1 = i1
    i2 = i2
    s1 = s1
    s2 = s2
    d1 = d1
    d2 = d2
    d3 = d3
    Decisions = {d1, d2, d3}
    Invalidations = {i1, i2}
    Scopes = {s1, s2}
    Target <- MCTarget
    Hosts <- MCOvertaken
    All = All
    None = None
CHECK_DEADLOCK FALSE
SYMMETRY MCSymmetry
INVARIANTS Awaited
