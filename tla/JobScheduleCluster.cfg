\* Two processes on one database, two shipped jobs, one operator.
CONSTANTS
    Job = {1, 2}
    Shipped = {1, 2}
    Config = {g1}
    ShippedConfig = g1
    BadCron = {}
    Node = {n1, n2}
    Thread = {t1}
    Client = {c1}
    NoJob = NoJob
SPECIFICATION Spec
SYMMETRY Symmetry
INVARIANTS ShippedScheduled
