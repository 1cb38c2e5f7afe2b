SPECIFICATION Spec
CONSTANTS
    Irqs <- MCIrqs
    Addrs = {a1, a2}
    NoFrame = NoFrame
    Times <- MCTimes
    MstatusWrites <- MCMstatusWrites
    MedelegWrites <- MCMedelegWrites
    MaxIcnt = 3
SYMMETRY Symmetry
INVARIANTS TypeOK FramesIntact BurstBounded MtipHonest
PROPERTIES InterruptRouting ReturnRestores
