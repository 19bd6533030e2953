SPECIFICATION Spec
CONSTANTS
    Programs = {A, B}
    Callers = {A, B}
    Nobody = Nobody
    Distilled = 2
    Calibrated = TRUE
    Epochs = 2
    Stages <- TwoStages
    Probed <- ForwardOnly
    Unknown = Unknown
    Admitted <- AdmittedBatches
    Configured <- ConfiguredBatches
    Largest = 2
    Rooms <- Hosts
    MaxRetries = 1
    MaxStops = 1
INVARIANTS CompletedHasItsTuning UsesPublishedPlan ResultsDescend
PROPERTIES StagesAreKept EpochsAreKept EventuallyCompletes
