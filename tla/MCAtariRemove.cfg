\* editing sessions on one opened disk with mkpart, rm and commits
CONSTANTS
    DevLen <- MCDevLen
    N_ICD <- MCNIcd
    MAXIMUM_PARTS <- MCMaxParts
    InitBsls <- MCRemoveBsls
    InitHds <- MCInitHds
    HdAnswers = {"fix"}
    IcdAnswers = {"yes"}
    AddTypes <- MCAddTypes
    Ideals <- MCRemoveIdeals
SPECIFICATION EditRemoveSpec
CONSTRAINT LiveBound
INVARIANT MetadataFits
PROPERTY WrittenLayoutReadsBack
VIEW ReadableView
