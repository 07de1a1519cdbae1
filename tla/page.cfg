SPECIFICATION Spec
CONSTANTS
    MaxCards = 2
    MaxTasks = 2
    MaxSignals = 1
    MaxClicks = 1
    MaxFinished = 2
CONSTRAINT OneAtATime
CHECK_DEADLOCK FALSE
INVARIANTS TypeOK PageMatchesScreen AnsweredOnce AnchoredAfterResize
PROPERTIES HiddenCardIsRevealed NextCardIsShown
