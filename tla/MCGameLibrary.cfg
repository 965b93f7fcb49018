SPECIFICATION LibrarySpec
CONSTANTS
    Paths = {"a", "b", "c", "d"}
    IdOf <- Colliding
    Calls = {1, 2, 3}
    MaxGames = 2
    MaxLaunches = 2
    MaxLaunchesPerProfile = 1
    MaxBenchmarks = 1
    MaxBenchmarksPerProfile = 2
    Times = {1, 2}
    Nothing = Nothing
INVARIANTS
    NoLostUpdate
    NewestKept
CHECK_DEADLOCK FALSE
