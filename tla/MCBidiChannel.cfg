CONSTANTS
    u1 = u1  u2 = u2  i1 = i1  i2 = i2  p1 = p1  p2 = p2  l1 = l1  l2 = l2
    Users <- MCUsers
    Ids <- MCIds
    Parents <- MCParents
    Labels <- MCLabels
    MaxRoots = 1
    MaxJoins = 3
SYMMETRY Symmetry
SPECIFICATION Spec
CHECK_DEADLOCK FALSE
INVARIANTS
    TypeOK
    ChannelKeysAgree
    NoReflection
PROPERTIES
    BidiRefinement
