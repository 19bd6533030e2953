SPECIFICATION Spec
CONSTANTS
    NumUnits = 2
    PerRank <- PerRankBits
    Scales <- ScaleBits
    Charged <- ChargedBits
    Elements <- UnitElements
    Maximum <- MaximumRanks
    Multiple = 2
    Policies <- AllPolicies
    Multiplied = {1}
    Multiplier = 110
    AtMaximum = {}
    ExtraBudget = 16
    MaximumAttempts = 3
    Increase = 20
    Outliers <- PlannedOutliers
    OutlierIncrement = 1
    OutlierCap <- OutlierCaps
    OutlierBits <- OutlierColumn
    Scores = {1, 2, 3}
    MaxDeaths = 1
    Layers = {1, 2}
    NoLayer = 0
    Epochs = 2
    Losses = {1, 2}
    MaxStarts = 2
INVARIANTS PlanFits RetriesWithinBudget PointerIsReadable
PROPERTIES EpochsContinue CommitsAsUninterrupted EveryUnitCommits
