SPECIFICATION SandboxSpec
CONSTANTS
  Session = {s1, s2, s3}
  Call = {c1, c2, c3, c4}
  MaxSessions = 2
  Timeout = 2
  RunTime = 1
  Grace = 1
  BlockAfter = 2
  Horizon = 5
SYMMETRY Symmetry
INVARIANT ViolationsAccounted
PROPERTY RefusedByCrowd
