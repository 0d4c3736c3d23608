SPECIFICATION Spec
CONSTANTS
    MaxJobs = 1
    MaxSidecars = 1
    Shapes <- Frames
    Faults = {"notify"}
INVARIANT JobConserved
