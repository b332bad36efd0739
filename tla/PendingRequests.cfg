SPECIFICATION FairSpec
CONSTANTS
    g1 = g1
    d1 = d1
    u1 = u1
    Regular <- OneRegular
    Download <- OneDownload
    Upload <- OneUpload
    CapRegular = 1
    CapLarge = 1
    MaxMsgs = 1
CONSTRAINT OneLarge
INVARIANTS
    TableKept
    SafePathsNeverPanic
PROPERTIES
    OneAnswer
    RequestsSettle
CHECK_DEADLOCK FALSE
