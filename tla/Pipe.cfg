SPECIFICATION FairSpec
CONSTANTS
    Configs <- AllConfigs
INVARIANTS
    NoStepFails
    NoCrossedPayload
    HeadsMeet
    NoUnlandedRead
    CleanAfterRun
    ActivationBound
    AllReducesAgree
    RaisedReleases
PROPERTIES
    ImplementsDataflow
    Termination
