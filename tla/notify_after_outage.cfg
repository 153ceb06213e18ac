SPECIFICATION FairSpec
CONSTANTS
  f1 = f1
  f2 = f2
  s1 = s1
  s2 = s2
  p1 = p1
  p2 = p2
  Files = {f1}
  Sockets = {s1}
  Commits = {p1}
  MaxCommands = 1
  MaxDrops = 1
  MaxRestarts = 0
PROPERTIES
  SubscribersReceivePush
