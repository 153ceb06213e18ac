SPECIFICATION Spec
CONSTANTS
  f1 = f1
  f2 = f2
  s1 = s1
  s2 = s2
  p1 = p1
  p2 = p2
  Files = {f1, f2}
  Sockets = {s1, s2}
  Commits = {p1, p2}
  MaxCommands = 3
  MaxDrops = 1
  MaxRestarts = 1
SYMMETRY Interchangeable
INVARIANTS
  TypeOK
  EndedIsUnregistered
  AckedIsRegistered
  DebtsOnTheirWay
  PushedInOrder
