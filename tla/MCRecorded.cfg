SPECIFICATION ReplayedSpec
CONSTANTS
    Commands    <- MCCommands
    Saves       <- MCSaves
    MaxRequests = 3
    MaxValues   = 4
    MaxCalls    = 3
    MaxNumber   = 3
INVARIANTS
    JournalReplays
    OptionsAnswerable
    EvidenceIsSupplied
    PositionAccountsForEvidence
PROPERTY RecoveryIsHistorical
CHECK_DEADLOCK FALSE
