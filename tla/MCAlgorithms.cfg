SPECIFICATION Spec
CONSTANTS
    BoardWidth  = 4
    BoardHeight = 3
    Boards      <- MCBoards
    MaxInt      = 9
    Policy      <- MCPolicy
    Dice        = {"red", "blue", "green"}
    Axes        = {"hit", "miss"}
    MaxDice     = 5
    Questions   <- MCQuestions
    MaxWide     = 20
    TermLimits  <- MCTermLimits
    MaxExtent   = 3
    MaxTurns    = 2
    ObstructionId = 9
INVARIANTS
    RoutesAreLeast
    LedgerFollowsPolicies
    BandsMoveOneAtATime
    PoolAddsUp
    PacketFollowsPhases
    AreaIsWhole
    SetupIsWhole
    OptionsAreAccepted
    ContributionsEvaluate
PROPERTY FirstFoundIsBest
CHECK_DEADLOCK FALSE
