CONSTANTS
    p1 = p1
    p2 = p2
    p3 = p3
    u1 = u1
    u2 = u2
    Txns = {p1, p2, p3}
    Users = {u1, u2}
    Groups = {1, 2}
    NoUser = NoUser
    NoGroup = 0
    Overlap = FALSE
SPECIFICATION Spec
SYMMETRY AnyOrder
INVARIANTS TypeOK GroupsHaveOwner ServicesRefuseFirst 
CHECK_DEADLOCK FALSE
