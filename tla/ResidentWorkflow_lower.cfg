SPECIFICATION Spec
CONSTANTS
    Programs = {A}
    Callers = {A}
    Nobody = Nobody
    Distilled = 1
    Calibrated = FALSE
    Epochs = 1
    Stages <- TwoStages
    Probed <- ForwardOnly
    Unknown = Unknown
    Admitted <- LargeBatches
    Configured <- ConfiguredBatches
    Largest = 4
    Rooms <- OneHost
    MaxRetries = 1
    MaxStops = 1
PROPERTIES LowerAfterOom
