SPECIFICATION Spec
CONSTANTS
    Letters = {1, 2}
    Texts = {t1, t2}
    NoText = NoText
    NoType = NoType
    WarehouseType = WarehouseType
    Configs <- ConfigsDef
    Respelled = {"alphabetical"}
    MaxRuns = 2
    MaxEdits = 1
INVARIANTS DocumentationSurvives FileAgrees
PROPERTIES SecondRunIsSilent
\* The command ends after its last run.
CHECK_DEADLOCK FALSE
