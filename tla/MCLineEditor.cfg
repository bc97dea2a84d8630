SPECIFICATION LineSpec
CONSTANTS
    Letters = {"a"}
    Builtins <- MCBuiltins
    Programs <- MCPrograms
    LineMax = 4
    HistMax = 2
    MaxArgs = 1
    ConCols = 7
    Prompts = {2, 4}
INVARIANTS RowShowsLineUnlessWide GreenRuns
