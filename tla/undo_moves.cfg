SPECIFICATION UndoSpec
CONSTANTS
    c1 = c1
    c2 = c2
    n1 = n1
    n2 = n2
    dHome = dHome
    dFilt = dFilt
    dPrev = dPrev
    dNone = dNone
    dOther = dOther
    Cards = {c1}
    NoteOf <- SameNote
    StdDecks = {dHome, dOther}
    FilteredDecks = {}
    PreviewDecks = {}
    NoDeck = dNone
    LearnSteps = 1
    RelearnSteps = 1
    LeechFails = 2
    LeechSuspends = TRUE
    GradIvls = {1}
    MinLapseIvl = 1
    LapseMult = 50
    HardGrows = TRUE
    MaxIvl = 1
    BuryNew = TRUE
    BuryRev = TRUE
    IvlCeiling = 2
    MaxAhead = 1
    MaxPos = 1
    MaxLapses = 2
    FirstDay = 1
    MaxDay = 2
    ReschedDays = {1}
    SecBase = 1000
    NoCard = noCard
    noCard = noCard
    UndoSizeMax = 2
    UndoableMoves = TRUE
    MaxLog = 2
    MaxCount = 2
PROPERTY UndoneReviewIsNotCounted
