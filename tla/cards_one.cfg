SPECIFICATION Spec
CONSTANTS
    c1 = c1
    c2 = c2
    n1 = n1
    n2 = n2
    dHome = dHome
    dFilt = dFilt
    dPrev = dPrev
    dNone = dNone
    dOther = dOther
    Cards = {c1}
    NoteOf <- SameNote
    StdDecks = {dHome, dOther}
    FilteredDecks = {dFilt, dPrev}
    PreviewDecks = {dPrev}
    NoDeck = dNone
    LearnSteps = 2
    RelearnSteps = 1
    LeechFails = 2
    LeechSuspends = TRUE
    GradIvls = {1, 2}
    MinLapseIvl = 1
    LapseMult = 50
    HardGrows = TRUE
    MaxIvl = 3
    BuryNew = TRUE
    BuryRev = TRUE
    IvlCeiling = 4
    MaxAhead = 2
    MaxPos = 2
    MaxLapses = 3
    FirstDay = 1
    MaxDay = 3
    ReschedDays = {0, 1}
    SecBase = 1000
INVARIANTS TypeOK FilteredLink QueueIsRestorable DueCardIsFetchable AnswerNeverThrows
PROPERTIES ImplementsSchedule EmptyingRestoresCard
