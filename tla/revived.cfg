SPECIFICATION Spec
CONSTANTS
  Agents = {a1}
  Conns = {k1, k2}
  Requests = {w1, w2}
  Creds = {c1, c2, c3}
  Standing = {s1}
  OneTime = {r1}
PROPERTIES RevokedStaysRevoked
CHECK_DEADLOCK FALSE
