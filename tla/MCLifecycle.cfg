SPECIFICATION Spec
CONSTANTS
    Ifaces <- MCIfaces
    Pipes <- MCPipes
    Objects <- MCObjects
    Scenes <- MCScenes
    MaxPackets = 2
CHECK_DEADLOCK FALSE
INVARIANTS
    MemorySound
    OrderlyShutdown
    
    
PROPERTIES
    LivesAsPromised
    
