SPECIFICATION FairWatchSpec
CONSTANTS
    Episode = {e1, e2}
    First = e1
    MaxRequest = 4
    Null = Null
INVARIANTS
    WatchTypeOK
    StreamIsCurrent
    OverlayOfThisPlayer
PROPERTIES
    UserChoiceWins
    StreamSettles
CHECK_DEADLOCK FALSE
