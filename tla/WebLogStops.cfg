\* One page of an application that logs nothing for a while; the queue holds all
\* lines.
CONSTANTS
    Poller = {p1, p2}
    Capacity = 3
    MaxLines = 2
    MaxFiles = 1
    Page = {v1}
    Handlers = 2
    MaxChains = 2
SPECIFICATION QuietSpec
PROPERTIES OpenPageShowsLog
CHECK_DEADLOCK FALSE
