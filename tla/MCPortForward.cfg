CONSTANTS
  v1 = v1
  Rule = {remote}
  RemoteRule = {remote}
  Server = {v1}
  ServerOf <- MCServerOf
  Start = {s1, s2}
  Stop = {k1}
  Update = {u1}
  None = None
  Original = Original
SPECIFICATION FairSpec
INVARIANT RegistryIsSafe
PROPERTY RulesSettle
CHECK_DEADLOCK FALSE
