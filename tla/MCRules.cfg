SPECIFICATION MCSpec
CONSTANTS
    Topic = {"periods", "accounts", "scoring", "checks", "definitions", "line"}
    Label = {2024, 2025}
    Month = {1, 3, 4}
    LineDate = {0, 20240229, 20250331}
    Window <- MCWindow
    Decision = {20240229}
    User = {"a", "b"}
    Boss = {"a", "b"}
    Attempt = {1, 2}
    WINDOW_S = 2
    LOCKOUT_S = 2
    MAX_FAILS = 2
    MaxClock = 3
    Builtin = {"C1.1", "C1.4"}
    Dynamic = {"X.1"}
    RULE_SCOPE <- MCScope
    Exposure = {0, 2}
    MaxMarks = 2
    Period = {2024, 2025}
    M15Load <- MCM15
    M15aLoad <- MCM15a
    M16Load <- MCM16
    BcctLoad <- MCBcct
    AbsentLoad <- MCAbsent
    aliases <- MCAliases
    parts <- MCParts
    families <- MCFamilies
    Person = {"lan", "admin"}
    Administrator = {"admin"}
    Requests <- MCRequests
    Screen = {"p"}
    OldAge = 0
    MaxRows = 2
    MaxFlight = 2
    Author = {"a", "b"}
    Client = {"k1", "k2"}
    Snippet = {"s1", "s2", "s3"}
    Invalid = {"s3"}
    kind <- MCKind
    gives <- MCGives
    DEFAULT_TOOL_CAPS <- MCCaps
    DEFAULT_TOTAL_MAX = 2
    _MAX_TURNS = 2
    _DEFAULT_MAX_RETRIES = 1
    MaxCalls = 2
    MaxDefinitions = 2
INVARIANTS
    RulesTypeOK
    PeriodsTile
    CoverageTellsAll
    NobodyLockedOut
    ExposureFair
    QuantitiesCounted
    
    LineIsTrue
    SavedChecksSound
PROPERTIES
    ScoreMonotone
    MismatchNeverHidden
    
CHECK_DEADLOCK FALSE
