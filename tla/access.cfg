SPECIFICATION Spec
CONSTANTS
  e1 = e1
  e2 = e2
  p1 = p1
  p2 = p2
  r1 = r1
  r2 = r2
  l1 = l1
  l2 = l2
  q1 = q1
  q2 = q2
  Emails = {e1, e2}
  Passwords = {p1, p2}
  Registrations = {r1, r2}
  Logins = {l1, l2}
  Requests = {q1, q2}
  Nobody = Nobody
  TicksPerSecond = 2
  Lifetime = 2
  MaxTime = 4
SYMMETRY Interchangeable
INVARIANTS
  TypeOK
  ActsForItsToken
  OneAccountPerEmail
  OnlyHoldersGetTokens
  SessionsEnd
