SPECIFICATION Spec
CONSTANTS
    MaxBuffers = 5
    MaxVec = 2
    MaxCloses = 2
INVARIANTS TypeOK InOrder BusyFlag NoStall ReadLoopAlive
PROPERTIES FailStop ImplementsChannel
