SPECIFICATION Spec
CONSTANTS
    MaxJobs = 2
    MaxSidecars = 0
    Shapes <- Frames
    Faults = {}
INVARIANT NoInflightAtPromotion
