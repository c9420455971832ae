\* One process, a shipped and a new job, two operators, a good and a bad cron.
CONSTANTS
    Job = {1, 2}
    Shipped = {1}
    Config = {g1, bad}
    ShippedConfig = g1
    BadCron = {bad}
    Node = {n1}
    Thread = {t1, t2}
    Client = {c1, c2}
    NoJob = NoJob
SPECIFICATION FairSpec
INVARIANTS TypeOK Agreement FailureHasCause
PROPERTIES PoisonIsLasting PausedNeverFires NormalJobRuns
