CONSTANTS
    u1 = u1
    u2 = u2
    plain1 = plain1
    plain2 = plain2
    angle = angle
    angleStored = angleStored
    p1 = p1
    p2 = p2
    Browser = {b1, b2}
    Thread = {t1, t2}
    Username = {u1, u2}
    Email = {plain1, angle, angleStored}
    Password = {p1, p2}
    Escaped <- EscapeAngle
    Kept <- CutToU1
    Second = {1}
    Ops = {"signup", "login", "logout", "about"}
    Routes <- ShippedRoutes
    Seed <- EmptyDatabase
    PageSize = 2
    MaxRequests = 4
    MaxRestarts = 1
    NULL = NULL
CHECK_DEADLOCK FALSE
SPECIFICATION Spec
SYMMETRY Symmetry
INVARIANTS
    EmailsUnique
    SignupTellsTruth
    CookieNeedsPassword
    SidsNameUsers
PROPERTIES
    CookiesWork
