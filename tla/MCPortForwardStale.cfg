CONSTANTS
  v1 = v1
  Rule = {remote}
  RemoteRule = {remote}
  Server = {v1}
  ServerOf <- MCServerOf
  Start = {s1, s2}
  Stop = {k1}
  Update = {}
  None = None
  Original = Original
SPECIFICATION Spec
PROPERTY StoppedClientIsSilent
CHECK_DEADLOCK FALSE
