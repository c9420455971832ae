\* An operator who would delete what is down.
CONSTANTS
    App <- Both
    Registered <- BothInOrder
    Thread = {t1}
    Operator = {o1}
    MaxRows = 2
    MaxDays = 1
SPECIFICATION DiligentSpec
PROPERTIES UpIsSampled
CHECK_DEADLOCK FALSE
