CONSTANTS
    a = a
    b = b
    c = c
    v1 = v1
    v2 = v2
    v3 = v3
    v4 = v4
    w1 = w1
    w2 = w2
    NoWorker = NoWorker
    Missing = Missing
    Versions <- FourVersions
    Models <- TwoModels
    Documented <- OnlyA
    NameOf <- SharedName
    Contents <- TextsDiffer
    Scopes <- Everything
    Workers <- TwoWorkers
    MaxEdits = 2
    MaxMacroEdits = 0
    MaxFailures = 1
    Failing = {"load", "analysis", "save", "crash"}
    EditsMidRun = FALSE
SPECIFICATION FairSpec
INVARIANTS CacheIsTruthful LineageIsCurrent
PROPERTY LineageRecovers
