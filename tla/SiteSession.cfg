\* Two accounts and one that is not verified, which sign in and out of one tab,
\* two handlers at once, another tab.  The page of a new password takes a link of a
\* mail.
SPECIFICATION Spec
SYMMETRY Alike
CHECK_DEADLOCK FALSE
CONSTANTS
    Route = {"login", "signup", "account"}
    User = {a, b, c}
    Unverified = {c}
    None = None
    Sid = {1, 2}
    Task = {x, y}
    MaxCaptchas = 1
INVARIANTS
    ActsAsShown
    BusyWhileWorking
    FreshCaptcha
