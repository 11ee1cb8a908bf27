SPECIFICATION Spec
CONSTANTS
  raw = raw  ext = ext  stg = stg  dim = dim  fact = fact  mart = mart
  x = x  y = y  k = k  w = w
  one = one  uno = uno  two = two  label = label
  Empty = Empty  Placeholder = Placeholder  Nowhere = Nowhere  Unresolved = Unresolved
  Columns <- ProjectColumns
  Outside <- ExternalColumns
  Sources = {raw}
  Lineage <- ProjectLineage
  DependsOn <- ProjectDepends
  LayerOwner <- ProjectOwner
  ThroughRenames = {dim}
  Mode <- ProjectMode
  Glossary <- KeyGlossary
  Texts = {one, uno, two}
  Meaning <- TwoMeanings
  Labels = {label}
  InitialLabels <- SourceLabels
  Anchored <- AnchoredMart
  SourceTexts = {one, Empty}
  Edited <- EditedColumns
  Unreliable = {dim}
  Scopes <- AnyScope
  Threads = 2
  MaxDepth = 5
  MaxEdits = 1
  MaxFailures = 1
INVARIANTS WalksAgree CopiesInLockstep LabelsArrive TracedAnchorsKept
