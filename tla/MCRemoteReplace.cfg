CONSTANTS
    Uploaders = {u1, u2}
    Original = original
    Foreign = foreign
    Absent = absent
    None = none
SYMMETRY Symmetric
SPECIFICATION Spec
INVARIANT WritesAreSafe
PROPERTY OnlyRacedVersionsAreLost
CHECK_DEADLOCK FALSE
