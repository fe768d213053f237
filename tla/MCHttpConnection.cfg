SPECIFICATION FairSpec
CONSTANTS
    MaxHeaders = 2
    MaxBody = 1
    MaxRequests = 3
    Shapes <- MCShapes
    TraceHeaders <- MCTraceHeaders
    Pipelined = FALSE

    
PROPERTIES
    AllAnswered
CHECK_DEADLOCK FALSE
