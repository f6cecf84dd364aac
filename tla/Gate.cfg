CONSTANTS
  s1 = s1
  s2 = s2
  h1 = h1
  h2 = h2
  t1 = t1
  p1 = p1
  Session = {s1}
  Runner = {h1, w1}
  Owner <- MCOwner
  Hosts = {h1}
  Path = {p1}
  Task = {t1}
  Clearable = {p1, t1}
  Claims <- MCClaims
  Proofed = {t1}
  Told = {s1}
  Absent = Absent
  Heartbeat = 1
  PeerLive = 1
  Retention = 1
  MaxNow = 1
  MaxHead = 1
  MaxCalls = 5
  MaxKills = 0
SPECIFICATION Spec
PROPERTY PassMeansSettled
