SPECIFICATION FairSpec
CONSTANTS
    MaxLine = 7
    MAX_COMMANDS = 3
    MAX_ARGS = 3
    NOFILE = 6
    PIPESIZE = 1
    MaxOut = 2
CHECK_DEADLOCK FALSE
INVARIANTS ParsesRight Connected
PROPERTY PipelineEnds
