CONSTANTS
    File = {f}
    NumOpens = 2
    NumUploads = 2
    MaxSaves = 1
    MaxForeign = 1
    MaxResets = 1
    None = None
SPECIFICATION FairSpec
INVARIANT OpenWithIsSafe
PROPERTIES OverwritesAreAgreed EverySaveIsReported EveryUploadEnds
CHECK_DEADLOCK FALSE
