CONSTANTS
    p = p
    q = q
    mid = mid
    k = k
    s1 = s1
    s2 = s2
    x = x
    y = y
    v1 = v1
    v2 = v2
    t1 = t1
    t2 = t2
    Nobody = Nobody
    Threads = {t1, t2}
    Models = {p, q, mid, k}
    Terminals = {s1, s2}
    Order <- ManifestOrder
    Columns = {x, y}
    Documented <- YamlColumns
    Versions = {v1, v2}
    First = v1
    Editable <- Edited
    Scopes <- Selections
    SQL <- ManifestTexts
    MaxAsks = 1
SPECIFICATION FairSpec
INVARIANT AnswersAreParses
PROPERTIES DoneIsFinal RequestsAnswered
\* The requests are bounded, and then all is answered.
CHECK_DEADLOCK FALSE
