SPECIFICATION FairLiveSpec
CONSTANTS
  f1 = f1
  s1 = s1
  s2 = s2
  p1 = p1
  p2 = p2
  Files = {f1}
  Sockets = {s1}
  Commits = {p1, p2}
  MaxCommands = 2
  MaxDrops = 1
  MaxRestarts = 1
INVARIANTS
  PushLeadsToVersion
  QuietDeviceIsCurrent
PROPERTIES
  DevicesCatchUp
