CONSTANTS
  s1 = s1
  s2 = s2
  h1 = h1
  h2 = h2
  t1 = t1
  p1 = p1
  Session = {s1, s2}
  Runner = {h1, a1, h2}
  Owner <- MCOwner
  Hosts = {h1, a1, h2}
  Path = {}
  Task = {}
  Clearable = {}
  Claims <- MCClaims
  Proofed = {}
  Told = {s1}
  Absent = Absent
  Heartbeat = 1
  PeerLive = 2
  Retention = 2
  MaxNow = 3
  MaxHead = 1
  MaxCalls = 4
  MaxKills = 1
SPECIFICATION Spec
CHECK_DEADLOCK FALSE
SYMMETRY RunnerSymmetry
INVARIANT AnchorHolds
PROPERTY PeersAreSeen
