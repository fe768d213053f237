SPECIFICATION StaticSpec
CONSTANTS
    Root <- MCRoot
    Paths <- MCPaths
    Trees <- MCTrees
    Configs <- MCConfigs
    Requests <- MCRequests
    Handled <- MCHandled
    Nodes <- MCNodes
    MaxChanges = 1
CHECK_DEADLOCK FALSE
 
INVARIANT MessageFramed
INVARIANT HandlesItsPrefix
