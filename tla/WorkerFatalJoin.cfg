SPECIFICATION JoinSpec
CONSTANTS
    MaxJobs = 1
    MaxSidecars = 0
    Shapes <- Frames
    Faults = {"transition"}
CHECK_DEADLOCK FALSE
PROPERTY JoinTerminates
