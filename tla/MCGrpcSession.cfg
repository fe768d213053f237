SPECIFICATION Spec
CONSTANTS
    Streams = {1, 2}
    Requests <- MCRequests
    Results <- MCResults
    Known <- MCKnown
    MaxMessage = 2
    max_concurrent_streams = 2
    Window = 4
CHECK_DEADLOCK FALSE
INVARIANT HandlerSeesRequest
 
PROPERTY Answered
