SPECIFICATION Spec
CONSTANTS
    Threads = {"t1", "t2"}
    Objects = {0, 1, 2}
    SystemObject = 0
    Names = {"a", "b"}
    Nothing = Nothing
    NoRow = NoRow
    MaxIds = 2
    Scenarios <- MCScenarios
INVARIANTS CachesSound ObjectForest NoNameTwice
