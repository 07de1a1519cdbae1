SPECIFICATION UndoSpec
CONSTANTS
    c1 = c1
    c2 = c2
    n1 = n1
    n2 = n2
    dHome = dHome
    dFilt = dFilt
    dPrev = dPrev
    dNone = dNone
    dOther = dOther
    Cards = {c1}
    NoteOf <- SameNote
    StdDecks = {dHome}
    FilteredDecks = {dFilt, dPrev}
    PreviewDecks = {dPrev}
    NoDeck = dNone
    LearnSteps = 1
    RelearnSteps = 1
    LeechFails = 1
    LeechSuspends = TRUE
    GradIvls = {1}
    MinLapseIvl = 1
    LapseMult = 50
    HardGrows = TRUE
    MaxIvl = 1
    BuryNew = TRUE
    BuryRev = TRUE
    IvlCeiling = 2
    MaxAhead = 1
    MaxPos = 1
    MaxLapses = 1
    FirstDay = 1
    MaxDay = 2
    ReschedDays = {1}
    SecBase = 1000
    NoCard = noCard
    noCard = noCard
    UndoSizeMax = 1
    UndoableMoves = TRUE
    MaxLog = 1
    MaxCount = 1
INVARIANT FilteredLink
