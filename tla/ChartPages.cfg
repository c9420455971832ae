\* Two pages, reloaded or side by side, of one or two applications; a topic
\* with several charts, whose scripts are loaded in two steps.
CONSTANTS
    Page = {v1, v2}
    App = {a1, a2}
    Topic = {"gc"}
    Handler = {h1}
    MaxSamples = 1
    MaxChains = 3
    LoadSteps = {0, 4, 14}
SPECIFICATION Spec
SYMMETRY Symmetry
INVARIANTS TypeOK PagesGoOn ChainsBound InStep OwnApp ChartsTruthful
CHECK_DEADLOCK FALSE
