\* The first start after an upgrade, nothing fails: a user curve is taken for the shipped one.
SPECIFICATION Spec
CONSTANTS
    Main = main
    Nobody = nobody
    Channels = {"cpu", "gpu"}
    Points = {"f", "p", "q"}
    Skip = "-"
    NoCurve = NoCurve
    Factory <- MCFactory
    Custom = custom
    AutoMode = auto
    NoMode = NoMode
    max = max
    Calls = {c1}
    NormalModes = {auto, max}
    UserCurves <- TwoCurves
    Encodable <- TwoCurves
    ModeRequests = {max}
    InitialFiles <- MigratedFiles
    Writable = TRUE
    Polling = FALSE
    ReadsFail = FALSE
    WritesFail = FALSE
    SavesFail = FALSE
    ExternalWrites = {}
INVARIANTS
    FactoryIsShipped
