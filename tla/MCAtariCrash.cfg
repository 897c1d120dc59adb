\* a session with crashes of atari_write between the ARS chain and the root
\* sector, restarting with no disk opened
CONSTANTS
    DevLen <- MCDevLen
    N_ICD <- MCNIcd
    MAXIMUM_PARTS <- MCMaxParts
    InitBsls <- MCNoBsl
    InitHds <- MCCrashHds
    HdAnswers = {"fix"}
    IcdAnswers = {"yes"}
    AddTypes <- MCChainTypes
    Ideals <- MCIdeals
SPECIFICATION CrashSpec
PROPERTY RootWriteCommits
VIEW ReadableView
