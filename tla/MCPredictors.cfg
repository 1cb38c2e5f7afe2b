SPECIFICATION PredictorsSpec
CONSTANTS
    Pcs = {0, 2, 5}
    MaxBranches = 6
    WordBits = 2
    TableLengths <- Lengths
    Slots = 4
    Tags = 2
    Hash <- Mix
    TagWidths <- Widths
    LogTagged = 1
    LogBimodal = 2
    LogRatio = 1
    lg_pht_entries = 2
    pc_shift = 1
INVARIANTS
    PredictorsTypeOK
    HistoryIsOutcomes
    BranchesLearn
PROPERTIES
    EntriesStay
CHECK_DEADLOCK FALSE
