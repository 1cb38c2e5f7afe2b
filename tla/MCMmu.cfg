SPECIFICATION Spec
CONSTANTS
    Radix = 2
    Napot = 2
    Slots = 2
    Tables = {1, 2, 3}
    Roots = {1}
    Vpns = {0, 1, 2, 4}
    Memories <- MCMemories
    PteWrites <- MCPteWrites
    MaxEdits = 1
    None = None
INVARIANTS TypeOK TlbCoherent StoreMarksDirty SavedPageCoherent
PROPERTY WalkWritesOnlyAd
