CONSTANTS
    a = a
    b = b
    c = c
    v1 = v1
    v2 = v2
    v3 = v3
    v4 = v4
    w1 = w1
    w2 = w2
    NoWorker = NoWorker
    Missing = Missing
    Versions <- FourVersions
    Models <- ThreeModels
    Documented <- OnlyA
    NameOf <- TwoNames
    Contents <- OneEditable
    Scopes <- WithoutB
    Workers <- OneWorker
    MaxEdits = 1
    MaxMacroEdits = 1
    MaxFailures = 1
    Failing = {"compile", "load", "analysis", "save", "crash"}
    EditsMidRun = TRUE
SPECIFICATION Spec
INVARIANT LineageIsOwn
PROPERTY EntriesSurvive
