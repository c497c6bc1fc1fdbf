SPECIFICATION FairSpec
CONSTANTS
  Agents = {a1}
  Conns = {k1, k2}
  Requests = {w1, w2}
  Creds = {c1, c2, c3}
  Standing = {s1}
  OneTime = {r1}
INVARIANTS OpenIsCurrent OneCredentialPerRotation
PROPERTIES ConnectedIsOnline RevokedIsCutOff
CHECK_DEADLOCK FALSE
