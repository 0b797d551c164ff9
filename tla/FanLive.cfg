\* Fair daemon and poll loop, unfair callers, failing reads, another program that
\* writes the mode.
SPECIFICATION LiveSpec
CONSTANTS
    Main = main
    Nobody = nobody
    Channels = {"cpu", "gpu"}
    Points = {"f", "p", "q"}
    Skip = "-"
    NoCurve = NoCurve
    Factory <- MCFactory
    Custom = custom
    AutoMode = auto
    NoMode = NoMode
    max = max
    Calls = {c1, c2}
    NormalModes = {auto}
    UserCurves <- GoodAndBad
    Encodable <- OneCurve
    ModeRequests = {auto}
    InitialFiles <- LiveFiles
    Writable = TRUE
    Polling = TRUE
    ReadsFail = TRUE
    WritesFail = TRUE
    SavesFail = TRUE
    ExternalWrites = {"down", "starting", "replaying", "serving"}
PROPERTIES
    ChoiceReachesDisk
    PollShowsMode
    StartupCompletes
