SPECIFICATION Spec
CONSTANTS
    Participants      <- Duel
    Team              <- DuelTeam
    Initiative        <- DuelInitiative
    Width             = 5
    EffectDefinitions <- MCEffects
    SourceDefinitions <- MCSources
    Modifiers         <- MCModifiers
    MaximumActive     = 3
    MaximumKeys       = 4
    Procedures        <- MCProcedures
    Rulesets          <- FixedMist
    Vitality0         <- DuelVitality
    Position0         <- DuelPosition
    Resource0         <- DuelResource
    MaxRevision       = 4
INVARIANT EffectTenure
CHECK_DEADLOCK FALSE
