CONSTANTS
  Session = {s1, s2}
  Version = {v1, v2}
  Line = {l1}
SPECIFICATION BootstrapSpec
SYMMETRY Symmetry
INVARIANTS EnsureIsSafe RepairSucceeds InstalledIsDurable OnlyRacedEditsAreLost
CHECK_DEADLOCK FALSE
