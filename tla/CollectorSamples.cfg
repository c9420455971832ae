\* Two applications, one of which may be registered twice, one worker thread, one
\* operator, two midnights.
CONSTANTS
    App <- Both
    Registered <- BothInOrder
    Thread = {t1}
    Operator = {o1}
    MaxRows = 2
    MaxDays = 3
SPECIFICATION FairSpec
INVARIANTS TypeOK SuccessMeansAnswered LeftOversAreFew
PROPERTIES DeletedIsForgotten ReachedIsSampled
CHECK_DEADLOCK FALSE
