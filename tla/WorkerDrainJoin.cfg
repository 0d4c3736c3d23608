\* A join of the worker during the pageflip drain of a shutdown.
SPECIFICATION JoinSpec
CONSTANTS
    MaxJobs = 1
    MaxSidecars = 0
    Shapes <- Frames
    Faults = {}
PROPERTY DrainJoinReturns
