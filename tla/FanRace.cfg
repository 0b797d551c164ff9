\* Two overlapping mode changes, nothing fails.
SPECIFICATION Spec
CONSTANTS
    Main = main
    Nobody = nobody
    Channels = {"cpu", "gpu"}
    Points = {"f", "p", "q"}
    Skip = "-"
    NoCurve = NoCurve
    Factory <- MCFactory
    Custom = custom
    AutoMode = auto
    NoMode = NoMode
    max = max
    Calls = {c1, c2}
    NormalModes = {auto, max}
    UserCurves <- OneCurve
    Encodable <- OneCurve
    ModeRequests = {auto, max}
    InitialFiles <- FreshFiles
    Writable = TRUE
    Polling = FALSE
    ReadsFail = FALSE
    WritesFail = FALSE
    SavesFail = FALSE
    ExternalWrites = {}
INVARIANTS
    ModeMatchesHardware
