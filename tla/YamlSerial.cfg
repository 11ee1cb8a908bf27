SPECIFICATION Spec
CONSTANTS
  n1 = n1  n2 = n2  n3 = n3
  p1 = p1  p2 = p2  p3 = p3
  Workers = {w1}
  Nodes = {n1, n2, n3}
  Paths = {p1}
  Home <- SharedByThree
  NoWorker = NoWorker
  NoDoc = NoDoc
  EmptyDoc = EmptyDoc
  MaxSize = 2
  DryRuns = {FALSE}
  Faults = TRUE
  RenameFaults = FALSE
  MaxPeeks = 1
  MaxCrashes = 1
PROPERTY FilesAdvance
