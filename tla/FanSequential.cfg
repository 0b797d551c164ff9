\* One call at a time; EC accesses and saves succeed, kills and power losses go on.
SPECIFICATION Spec
CONSTANTS
    Main = main
    Nobody = nobody
    Channels = {"cpu", "gpu"}
    Points = {"f", "p", "q"}
    Skip = "-"
    NoCurve = NoCurve
    Factory <- MCFactory
    Custom = custom
    AutoMode = auto
    NoMode = NoMode
    max = max
    Calls = {c1}
    NormalModes = {auto, max}
    UserCurves <- CurvesWithABad
    Encodable <- TwoCurves
    ModeRequests = {auto, max}
    InitialFiles <- SoundFiles
    Writable = TRUE
    Polling = TRUE
    ReadsFail = FALSE
    WritesFail = FALSE
    SavesFail = FALSE
    ExternalWrites = {"down", "starting"}
INVARIANTS
    FactoryIsShipped
    FactoryOnDisk
    ModeMatchesHardware
    CurveMatchesHardware
