SPECIFICATION RulesSpec
CHECK_DEADLOCK FALSE
CONSTANTS
    Trees <- SmallTrees
    Roots <- TwoRoots
    Requests <- SmallRequests
    Nothing = Nothing
    MaxSteps = 16
    Chars <- Characters
    Width <- Bytewise
    Questions <- SmallQuestions
INVARIANTS
    NothingOutside
