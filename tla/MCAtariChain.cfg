\* an eight-sector device: the root, a data primary and a six-sector
\* extended partition holding up to six ARS, three of them with a logical behind
CONSTANTS
    DevLen = 8
    N_ICD = 2
    MAXIMUM_PARTS = 4
    InitBsls = {}
    InitHds = {}
    HdAnswers = {}
    IcdAnswers = {}
    AddTypes = {}
SPECIFICATION ChainSpec
INVARIANT ChainTypeOK
INVARIANT ReadWalksProbedChainOnce
PROPERTY ProbeTerminates
CHECK_DEADLOCK FALSE
