SPECIFICATION Spec
CONSTANTS
    Requests = {q1, q2, q3}
    Results = {r1}
    Keys = {k1, k2}
    Targets = {get, post}
    Reads = {get}
    None = None
    Configs <- Deployments
    TTLs = {2}
    MaxTime = 2
SYMMETRY Symmetry
INVARIANTS
    IndInv
    OneOperationPerResult
    SpentMeansSpent
    
PROPERTIES
    ResultUsedOnce
CHECK_DEADLOCK FALSE
