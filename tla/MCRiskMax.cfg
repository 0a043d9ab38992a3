SPECIFICATION Spec
CONSTANTS
    Year = {1, 2}
    Code = {1}
    Runner = {"worker"}
    Officer = {"officer"}
    combos_enabled = TRUE
    MaxId = 6
INVARIANTS
    RiskIsMaxScore
