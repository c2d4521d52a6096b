SPECIFICATION Spec
CONSTANTS
    r1 = r1  r2 = r2
    s1 = s1  s2 = s2
    t1 = t1  t2 = t2  t3 = t3
    pw1 = pw1  pw2 = pw2
    NoSession = NoSession
    NoPair = NoPair
    Requests <- TwoRequests
    Sessions <- TwoSessions
    Pairs <- TwoPairs
    Passwords <- TwoPasswords
    FirstPassword = pw1
    MaxChanges = 2
    OverlappingSaves = FALSE
SYMMETRY Interchangeable
INVARIANTS
    TypeOK
    NoStaleAccess
    OpenSessionRefreshable
PROPERTIES
    AccountChangesStick
    ImplementsSessionAccess
