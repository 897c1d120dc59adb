\* every sum of the first 255 words; an edit that keeps or changes the sum
CONSTANTS
    Contents <- Word
    Deltas = {0, 1}
SPECIFICATION Spec
INVARIANT TypeOK
INVARIANT NonBootSectorsSafe
PROPERTY BootStatusRefined
