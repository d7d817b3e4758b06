CONSTANTS
    u1 = u1
    u2 = u2
    plain1 = plain1
    plain2 = plain2
    angle = angle
    angleStored = angleStored
    p1 = p1
    p2 = p2
    Browser = {b1, b2}
    Thread = {t1, t2}
    Username = {u1}
    Email = {plain1, plain2}
    Password = {p1}
    Escaped <- EscapeAngle
    Kept <- KeepNames
    Second = {1}
    Ops = {"signup"}
    Routes <- ShippedRoutes
    Seed <- EmptyDatabase
    PageSize = 2
    MaxRequests = 2
    MaxRestarts = 0
    NULL = NULL
CHECK_DEADLOCK FALSE
SPECIFICATION Spec
INVARIANTS
    UsernamesUnique
