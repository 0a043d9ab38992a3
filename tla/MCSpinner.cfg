SPECIFICATION OverviewFairSpec
CONSTANTS
    Code = {1}
    Request = {"r1"}
    Budget = 1
    MaxOverviewJobs = 2
    MaxRuns = 1
    MaxDataVersion = 0
    MaxSpent = 1
CHECK_DEADLOCK FALSE
PROPERTIES
    SpinnerStops
