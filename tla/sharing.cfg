SPECIFICATION Spec
CONSTANTS
  u1 = u1
  u2 = u2
  f1 = f1
  f2 = f2
  x1 = x1
  c1 = c1
  c2 = c2
  c3 = c3
  Users = {u1, u2}
  Folders = {f1, f2}
  Files = {x1}
  Calls = {c1, c2}
  TTLs <- ShortTTLs
  Nobody = Nobody
  Never = Never
  MaxTime = 2
SYMMETRY Interchangeable
INVARIANTS
  TypeOK
  OnlyEntitledCallsAct
  DeletedFilesStayGone
PROPERTIES
  LinksExpire
