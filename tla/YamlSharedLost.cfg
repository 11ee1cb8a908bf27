SPECIFICATION Spec
CONSTANTS
  n1 = n1  n2 = n2  n3 = n3
  p1 = p1  p2 = p2  p3 = p3
  Workers = {w1, w2}
  Nodes = {n1, n2}
  Paths = {p1}
  Home <- SharedFile
  NoWorker = NoWorker
  NoDoc = NoDoc
  EmptyDoc = EmptyDoc
  MaxSize = 1
  DryRuns = {FALSE}
  Faults = FALSE
  RenameFaults = FALSE
  MaxPeeks = 0
  MaxCrashes = 0
INVARIANTS SyncedIsOnDisk
