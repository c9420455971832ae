\* One operator, two jobs on two pages of the list, two requests at a time; one
\* trouble of any kind.
CONSTANTS
    Job = {1, 2}
    Bean = {"x", "y"}
    Slot = {s1, s2}
    PageSize = 1
    MaxForms = 1
    MaxTrouble = 1
SPECIFICATION Spec
SYMMETRY Symmetry
INVARIANTS TypeOK SelectionShown NoDoubleSave GridIsTrue
PROPERTIES StatusKept
CHECK_DEADLOCK FALSE
