SPECIFICATION MCSpec
CONSTANTS
    Topic = {"runs", "documents", "columns"}
    Year = {1}
    Code = {1, 2}
    Runner = {"worker"}
    Officer = {"officer"}
    combos_enabled = TRUE
    MaxId = 6
    Settlement = {"m15", "m16"}
    Bcqt = {"m15"}
    Name = {"m16", "x"}
    tells <- MCTells
    SlotOrder <- MCOrder
    Content = {"plain", "odd"}
    reads <- MCReads
    Large = {"odd"}
    Guess = {"odd"}
    Check = {"C1.1", "C3.3", "C6.1"}
    Added = {"X1"}
    requires <- MCRequires
    Alphabetical <- MCAlphabetical
    Around <- MCAround
    Book = {"EPE"}
    MaxChanges = 1
    MaxSettings = 1
    MaxQueue = 1
    MaxFiles = 2
    FormFile = {"f1"}
    First = "f1"
    Workbook = {"plain", "wide"}
    Signature = {"s1", "s2"}
    RowKey = "code"
    Plus = {"in"}
    Minus = {"out"}
    Target = "closing"
    Column = {0, 1, 2, 3, 4}
    signature <- MCSignature
    Titled = {"plain"}
    Unprovable = {}
    numbering <- MCNumbering
    default <- MCDefault
    heading <- MCHeading
    content <- MCContent
    Typed = {{2}, {1, 2}}
    Absentable = {"out"}
    MaxRequests = 2
    MaxElsewhere = 1
    MaxIngests = 2
INVARIANTS
    ServicesTypeOK
    
    ComboIsBacked
    MismatchShown
    LoadedMeansRows
    
    WorkListTrue
PROPERTIES
    OtherVerdictsKept
    BooksNeverMerge
    GateOpensOnceConfirmed
CHECK_DEADLOCK FALSE
