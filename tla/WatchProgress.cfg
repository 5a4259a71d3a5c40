SPECIFICATION WatchSpec
CONSTANTS
    Episode = {e1, e2}
    First = e1
    MaxRequest = 2
    Null = Null
PROPERTIES
    SavesPlayback
CHECK_DEADLOCK FALSE
