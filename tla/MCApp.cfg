SPECIFICATION Spec
CONSTANTS
    Main = main
    s1 = s1
    Plugins <- MCPlugins
    Threads <- MCThreads
    Methods <- MCMethods
    Stoppers <- MCStoppers
    Files <- MCFiles
CHECK_DEADLOCK FALSE
INVARIANT PluginLifetimes
 
PROPERTY MethodsFrozen
PROPERTY StopEndsServer
