SPECIFICATION Spec
CONSTANTS
    Year = {1}
    Code = {1, 2}
    Runner = {"worker"}
    Officer = {"officer"}
    combos_enabled = TRUE
    MaxId = 6
PROPERTIES
    RunIsAllOrNothing
