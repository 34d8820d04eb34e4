CONSTANTS
    Modes = {"standard", "special", "interactive", "communication"}
    GroupSize = 2
    CommChannels <- Ring
    Capacity = 1
    MaxFaults = 1
SPECIFICATION FairSpec
INVARIANTS StuckOnPartner VerdictIsDeserved
PROPERTIES ExecutionEnds
CHECK_DEADLOCK FALSE
