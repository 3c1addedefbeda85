\* Two requests at once, two reset links, two sessions, one of each other token.
SPECIFICATION Spec
CONSTANTS
    Request = {r1, r2}
    Sid = {s1, s2}
    ResetToken = {p1, p2}
    VerifyToken = {v1}
    RememberToken = {k1}
    NoToken = NoToken
SYMMETRY Symmetry
INVARIANTS
    NothingOutlivesReset
    OneChangePerToken
    OnlyVerifiedSignIn
    NoSignInAfterDeletion
CHECK_DEADLOCK FALSE
