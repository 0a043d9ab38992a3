SPECIFICATION OverviewSpec
CONSTANTS
    Code = {1}
    Request = {"r1", "r2"}
    Budget = 2
    MaxOverviewJobs = 2
    MaxRuns = 1
    MaxDataVersion = 0
    MaxSpent = 2
INVARIANTS
    OneLiveJob
