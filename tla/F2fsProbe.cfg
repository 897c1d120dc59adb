CONSTANTS
    SectorSizes = {512, 4096}
    Lengths = {2, 3, 4}
    MagicOffsets = {0, 1024, 5120, 8192}
SPECIFICATION Spec
INVARIANT ProbeMatchesSuperblock
CHECK_DEADLOCK FALSE
