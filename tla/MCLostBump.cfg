SPECIFICATION Spec
CONSTANTS
    Year = {1}
    Date = {1, 2}
    Undated = 0
    Load <- MCLoad
    Window <- MCWindow
    Fiscal <- MCFiscal
    BuiltIn = {"C1"}
    Dynamic = {}
    Worker = {"worker"}
    Request = {"officer"}
    MaxVersion = 3
INVARIANTS
    WindowChangeFlagged
