SPECIFICATION Spec
CONSTANTS
  m1 = m1  v1 = v1  v2 = v2  single = single  versioned = versioned
  t1 = t1  t2 = t2
  p1 = p1  p2 = p2  p3 = p3
  Paths = {p1, p2, p3}
  Models = {m1, v1, v2}
  Tables = {t1, t2}
  Name <- Versions
  NoPath = NoPath
  NoFile = NoFile
  DryRuns = {TRUE, FALSE}
  MaxEntries = 2
  OtherPaths = {p1}
  KeptPaths = {p1}
SYMMETRY SymmetricNames
\* A finished plan does nothing more.
CHECK_DEADLOCK FALSE
INVARIANTS ModelsHome PlanSettles
PROPERTY NothingManagedLost
