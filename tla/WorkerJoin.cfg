SPECIFICATION JoinSpec
CONSTANTS
    MaxJobs = 2
    MaxSidecars = 0
    Shapes <- FrameCursorDirect
    Faults = {"notify", "panic"}
PROPERTIES JoinTerminates CommitSettles
