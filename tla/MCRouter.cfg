SPECIFICATION RouterSpec
CONSTANTS
    Routes <- MCRoutes
    GroupPrefixes <- MCPrefixes
    Scopes <- MCScopes
    Paths <- MCPaths
    Asked = {"GET", "POST", "HEAD", "unknown"}
    Numbers = {"7"}
    MaxSteps = 3
CHECK_DEADLOCK FALSE
INVARIANTS
    
    
    PipelineOrder
