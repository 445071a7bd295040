SPECIFICATION LiveSpec
CONSTANTS
    Participants  <- MCParticipants
    Team          <- MCTeam
    Initiative    <- MCInitiative
    Width         = 6
    MaxVitality   = 2
    Actions       <- MCActions
    Economy       = "variable"
    Budgets       <- MCBudgets
    InitialAmount <- MCInitial
    ResetBoundary <- MCReset
    Allowance     = {"move"}
    Ceiling       = 2
    Owned         <- MCOwned
    Sentries      = {2, 3}
    Registration  <- MCRegistration
    Vitality0     <- MCVitality
    Position0     <- MCPosition
    MaxRevision   = 4
    MaxEvidence   = 1
PROPERTY EverySuspensionEnds
CHECK_DEADLOCK FALSE
