SPECIFICATION ReplayedSpec
CONSTANTS
    Commands    <- MCCommands
    Saves       <- MCSaves
    MaxRequests = 3
    MaxValues   = 4
    MaxCalls    = 3
    MaxNumber   = 3
INVARIANT RejectionsReplay
CHECK_DEADLOCK FALSE
