\* Two requests that may overlap, one rotation, a queue the log can fill.
CONSTANTS
    Poller = {p1, p2}
    Capacity = 2
    MaxLines = 2
    MaxFiles = 2
SPECIFICATION FairSpec
INVARIANTS TypeOK InOrder OnlyLateLinesLost
PROPERTIES UnreadAnswered
CHECK_DEADLOCK FALSE
