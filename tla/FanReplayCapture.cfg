\* A factory curve first read during the replay is not saved.
SPECIFICATION Spec
CONSTANTS
    Main = main
    Nobody = nobody
    Channels = {"cpu", "gpu"}
    Points = {"f", "p", "q"}
    Skip = "-"
    NoCurve = NoCurve
    Factory <- MCFactory
    Custom = custom
    AutoMode = auto
    NoMode = NoMode
    max = max
    Calls = {c1}
    NormalModes = {auto, max}
    UserCurves <- OneCurve
    Encodable <- OneCurve
    ModeRequests = {max}
    InitialFiles <- PartialFiles
    Writable = TRUE
    Polling = FALSE
    ReadsFail = TRUE
    WritesFail = FALSE
    SavesFail = FALSE
    ExternalWrites = {}
INVARIANTS
    FactoryOnDisk
