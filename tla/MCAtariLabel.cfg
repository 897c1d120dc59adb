CONSTANTS
    DevLen <- MCDevLen
    N_ICD <- MCNIcd
    MAXIMUM_PARTS <- MCMaxParts
    InitBsls <- MCInitBsls
    InitHds <- MCInitHds
    HdAnswers = {"fix"}
    IcdAnswers = {"yes"}
    AddTypes <- MCAddTypes
    Ideals <- MCIdeals
SPECIFICATION EditSpec
INVARIANT TypeOK
INVARIANT MetadataFits
INVARIANT DriverAsserts
PROPERTY WrittenLayoutReadsBack
PROPERTY StoreRefined
VIEW ReadableView
