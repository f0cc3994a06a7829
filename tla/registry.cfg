\* Three handlers of any kind at once, which may fail between their statements.
SPECIFICATION Spec
CONSTANTS
    a = a
    b = b
    Ids = {i1, i2, i3}
    Names = {a, b}
    NameOrder <- Order
    Matches <- OnlyItself
    Rollouts = {r1, r2}
    Nothing = nothing
    Workers = {w1, w2, w3}
    MayFail = TRUE
SYMMETRY Symmetry
INVARIANTS VersionsContiguous RolledOutPublished
\* Every id may be used.
CHECK_DEADLOCK FALSE
