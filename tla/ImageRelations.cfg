\* Two requests at a time on an object with up to three images of its
\* organization; a fourth image belongs to another one.
CONSTANTS
    t1 = t1
    t2 = t2
    o1 = o1
    i1 = i1
    i2 = i2
    i3 = i3
    i4 = i4
    Txns = {t1, t2}
    Objects = {o1}
    Images = {i1, i2, i3, i4}
    Foreign = {i4}
    NoObject = NoObject
    NoRel = NoRel
    MaxIds = 3
    MaxRequests = 2
SPECIFICATION Spec
CHECK_DEADLOCK FALSE
SYMMETRY AnyOrder
INVARIANTS TypeOK OrdersDistinct ConstraintsNeverHit
PROPERTY CoverAfterAttach
