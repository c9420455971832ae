\* A job added on the page, then a restart.
CONSTANTS
    Job = {1, 2}
    Shipped = {1}
    Config = {g1}
    ShippedConfig = g1
    BadCron = {}
    Node = {n1}
    Thread = {t1}
    Client = {c1}
    NoJob = NoJob
SPECIFICATION Spec
SYMMETRY Symmetry
INVARIANTS StartupSucceeds
