\* Two tabs, one change of the catalogue, a day of two ticks, pastes into whatever
\* entries the operator has.
SPECIFICATION Spec
CHECK_DEADLOCK FALSE
CONSTANTS
    Tab = {t1, t2}
    Admin = {t1}
    Call = {1, 2}
    Title = {"s"}
    Field = {"exc", "mas"}
    Upstream <- Some
    NoConst = NoConst
    None = None
    Paste <- Pastes
    Files <- SomeEntries
    MaxAge = 2
    HttpAge = 2
    MaxTime = 3
    MaxEditions = 1
INVARIANTS
    GivenIsFresh
    SubmittedIsServed
PROPERTY NeverBackwards
