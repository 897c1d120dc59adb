\* a session with crashes of atari_write after any ARS write of its chain,
\* restarting with no disk opened, mklabel included: the recovery by a
\* later write
CONSTANTS
    DevLen <- MCDevLen
    N_ICD <- MCNIcd
    MAXIMUM_PARTS <- MCMaxParts
    InitBsls <- MCNoBsl
    InitHds <- MCCrashHds
    HdAnswers = {"ignore"}
    IcdAnswers = {"yes"}
    AddTypes <- MCChainTypes
    Ideals <- MCIdeals
SPECIFICATION CrashSpec
PROPERTY StoredSizeDecidesReadBack
VIEW ReadableView
