\* One page, the topic whose chart has the name of a function of socket.js, and
\* queries answered by two threads.
CONSTANTS
    Page = {v1}
    App = {a1}
    Topic = {"thread"}
    Handler = {h1, h2}
    MaxSamples = 2
    MaxChains = 3
    LoadSteps = {0, 13, 14}
SPECIFICATION FairSpec
PROPERTIES NeverStepsBack CatchUp DisplayImplemented
CHECK_DEADLOCK FALSE
