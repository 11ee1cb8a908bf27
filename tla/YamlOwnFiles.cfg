SPECIFICATION FairSpec
CONSTANTS
  n1 = n1  n2 = n2  n3 = n3
  p1 = p1  p2 = p2  p3 = p3
  Workers = {w1, w2}
  Nodes = {n1, n2}
  Paths = {p1, p2}
  Home <- OwnFiles2
  NoWorker = NoWorker
  NoDoc = NoDoc
  EmptyDoc = EmptyDoc
  MaxSize = 2
  DryRuns = {FALSE}
  Faults = TRUE
  RenameFaults = FALSE
  MaxPeeks = 0
  MaxCrashes = 1
INVARIANTS TypeOK BatchIsSound
PROPERTIES ImplementsStore EveryNodeSettles
