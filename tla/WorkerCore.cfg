SPECIFICATION Spec
CONSTANTS
    MaxJobs = 2
    MaxSidecars = 1
    Shapes <- FrameCursorDirect
    Faults = {"panic", "transition", "rollback"}
INVARIANTS TypeOK OwnershipConserved SubmitExclusive StopSeesSubmission AdmissionSound
PROPERTIES ImplementsLane
CHECK_DEADLOCK FALSE
