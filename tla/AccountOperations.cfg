\* Two users, one new or both, compete for three addresses; tokens are
\* replaced, cancelled or used while another is on its way.
CONSTANTS
    p1 = p1
    p2 = p2
    u1 = u1
    u2 = u2
    a1 = a1
    a2 = a2
    a3 = a3
    t1 = t1
    t2 = t2
    Requests = {p1, p2}
    Users = {u1, u2}
    Addresses = {a1, a2, a3}
    Tokens = {t1, t2}
    NotYet = NotYet
    Gone = Gone
    NoSlot = NoSlot
    NoToken = NoToken
    NoRow = NoRow
    MaxChanges = 2
SPECIFICATION Spec
SYMMETRY AnyOrder
INVARIANTS TypeOK OneAccountPerAddress 
PROPERTIES DeliveredTokensStay ImplementsSingleUse
