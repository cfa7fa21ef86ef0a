SPECIFICATION CommandSpec
CONSTANTS
    m1 = m1
    m2 = m2
    m3 = m3
    Makers = {m1, m2, m3}
    Root = "root"
    SubDirs <- MCSubDirs
    Files <- MCFiles
    Faults = {"refuses", "write_fails", "killed", "others", "cleared"}
    Letters = {"a", "c", "f", "g", "h", "i", "m", "n", "o", "p", "r"}
    Numerals = {"1"}
    Capitals <- MCCapitals
    Marks = {"-", "_", " "}
    Fallback <- MCFallback
    Prefix <- MCPrefix
    Keywords <- MCKeywords
    Destinations <- MCDestinations
SYMMETRY Executions
INVARIANTS
    NamesAreUsable
    SuccessIsWhole
    OneMaker
    SomebodyWins
PROPERTIES
    NeverReplaced
CHECK_DEADLOCK FALSE
