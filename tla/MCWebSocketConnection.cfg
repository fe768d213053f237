SPECIFICATION ConnectionSpec
CONSTANTS
    Requests <- MCRequests
    Streams <- MCStreams
    DigestOf <- MCDigestOf
    MaxPayload = 65536

    
    
    
PROPERTIES
    EveryFrameHandled
CHECK_DEADLOCK FALSE
