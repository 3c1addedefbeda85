\* Two users, two requests at once, three ids.
SPECIFICATION Spec
CONSTANTS
    Token = {k1, k2}
    Id = {i1, i2, i3}
    Request = {r1, r2}
    NoId = NoId
    NoSession = NoSession
    TTL = 5
    ClockStep = 1
    MaxClock = 11
SYMMETRY Symmetry
INVARIANTS
    OneSessionPerToken
PROPERTIES
    GoodSessionsStay
    ImplementsTickets
CHECK_DEADLOCK FALSE
