\* Three requests on two contacts and a user, three avatars and three tags, two at a
\* time in each module.
CONSTANTS
    q1 = q1
    q2 = q2
    p1 = p1
    p2 = p2
    c1 = c1
    c2 = c2
    u1 = u1
    u2 = u2
    u3 = u3
    g1 = g1
    g2 = g2
    a1 = a1
    a2 = a2
    a3 = a3
    t1 = t1
    t2 = t2
    t3 = t3
    s1 = s1
    s2 = s2
    v1 = v1
    v2 = v2
    Requests = {q1, q2}
    Assigners = {p1, p2}
    ContactIds = {c1, c2}
    UserIds = {u1, u2, u3}
    Registrars = {g1, g2}
    NoOrg = NoOrg
    Avatars = {a1, a2, a3}
    TagIds = {t1, t2, t3}
    TagSlugs = {s1, s2}
    Variants = {v1, v2}
    MaxTags = 2
    Texts = {1}
    NoRow = NoRow
    NoAvatar = NoAvatar
    NoTag = NoTag
    Unset = Unset
    Attempts = 2
    MaxRequests = 3
SPECIFICATION Spec
CHECK_DEADLOCK FALSE
SYMMETRY AnyOrder
INVARIANTS TypeOK AvatarFilesMatch AnswersTrue  
