\* the device of MCAtariChain.cfg; a layout the probe accepts must open
CONSTANTS
    DevLen = 8
    N_ICD = 2
    MAXIMUM_PARTS = 4
    InitBsls = {}
    InitHds = {}
    HdAnswers = {}
    IcdAnswers = {}
    AddTypes = {}
SPECIFICATION ChainSpec
INVARIANT ProbedChainOpens
CHECK_DEADLOCK FALSE
