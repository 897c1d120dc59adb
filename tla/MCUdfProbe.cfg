CONSTANTS
    SectorSize = 512
    Lengths <- MCLengths
    FormatSizes <- MCFormatSizes
    TagSeqs <- MCTagSeqs
SPECIFICATION Spec
INVARIANT ProbeMatchesReference
INVARIANT FormattedImageDetected
CHECK_DEADLOCK FALSE
