\* Two pages, reloaded or side by side; two requests of which one may be
\* abandoned; one rotation; a queue the log can fill.
CONSTANTS
    Poller = {p1, p2}
    Capacity = 1
    MaxLines = 2
    MaxFiles = 2
    Page = {v1, v2}
    Handlers = 2
    MaxChains = 3
SPECIFICATION Spec
SYMMETRY Symmetry
CONSTRAINT SmallLog
INVARIANTS TypeOK PagesGoOn ChainsBound OnePageIsSerial PageShowsWhatIsRead
PROPERTIES FeedImplemented
CHECK_DEADLOCK FALSE
