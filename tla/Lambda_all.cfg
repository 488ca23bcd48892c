\* One name, which three functions have in turn, two handlers, four codes, two calls,
\* one write that fails.
SPECIFICATION LFairSpec
CONSTANTS
    Names = {f}
    Handlers = {h1, h2}
    MaxFunctions = 3
    MaxCodes = 4
    MaxCalls = 2
    MaxFailures = 1
PROPERTIES
    ServedCode
    Settles
CHECK_DEADLOCK FALSE
