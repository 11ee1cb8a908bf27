SPECIFICATION Spec
CONSTANTS
  Unqualified = Unqualified  Many = Many
  Blanc = Blanc  Undocumented = Undocumented  DocBlock = DocBlock  Rendered = Rendered
  OwnerKey = "desc-owner"  ManagedKeys = {"desc-owner"}
  NoAnchor = NoAnchor  NoText = NoText  LongText = LongText  WrappedText = WrappedText
  auto = auto  manual = manual  amlText = amlText  amlMore = amlMore
  Autos = {auto}  Extends <- OldForm
  Refused = Refused  Null = Null  Blank = Blank  Fallback = Fallback  Absent = Absent
  Nothing = Nothing  Nowhere = Nowhere  Computed = Computed
  manifestText = manifestText  yamlText = yamlText  text1 = text1  text2 = text2
INVARIANTS GraphShowsLineage SettingsResolve NodesFindTheirEntry NodesInOrder ClosestAncestorWins PlanMigrates EnrichmentRespects ColumnsInherit LineageIsDataFlow SourcesAreListed StarsExpandAlike
