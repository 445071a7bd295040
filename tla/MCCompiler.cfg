SPECIFICATION Spec
CONSTANTS
    Keys      = {1, 2, 3, 4}
    Rulesets  <- MCRulesets
    Supplies  <- MCSupplies
    MaxDepth  = 3
    MaxNodes  = 5
    MaxNarrow = 6
    MaxWide   = 7
    MaxAmount = 7
    Limits    <- MCLimits
    Cases     <- MCCases
INVARIANTS
    ReadsPlacedFirst
    CyclesRefused
    DerivedFollowFormulas
    PlanCoversDraws
    AcceptedProgramsRun
    AmountsWithinBounds
CHECK_DEADLOCK FALSE
