SPECIFICATION FairSpec
CONSTANTS
  c1 = c1
  c2 = c2
  p1 = p1
  p2 = p2
  p3 = p3
  t1 = t1
  t2 = t2
  Copy = {c1, c2}
  Page = {p1, p2, p3}
  Thread = {t1, t2}
  Profiles = {"fixed", "signature"}
  MaxDepth = 3
  Helper = Helper
  NoPage = NoPage
INVARIANTS
  TypeOK
  WellLanded
  InstalledIsReached
  PassedOnce
  RefusedStaysHooked
PROPERTIES
  PassEnds
