SPECIFICATION SiteSpec
CONSTANTS
    Functions <- MCFunctions
    Target = "x"
    Param = "p"
    MaxDepth = 2
    MaxUnionWidth = 2
    Statements = 3
    Longer = 4
    Aliased = FALSE
INVARIANTS NoSilentLoss NothingInvented SelfNarrows
CHECK_DEADLOCK FALSE
