\* No file at first. Three overlapping calls, one curve; reads, writes and saves may
\* fail, the daemon may be killed and the power lost at any step.
SPECIFICATION Spec
CONSTANTS
    Main = main
    Nobody = nobody
    Channels = {"cpu", "gpu"}
    Points = {"f", "p", "q"}
    Skip = "-"
    NoCurve = NoCurve
    Factory <- MCFactory
    Custom = custom
    AutoMode = auto
    NoMode = NoMode
    max = max
    Calls = {c1, c2, c3}
    NormalModes = {auto, max}
    UserCurves <- OneCurve
    Encodable <- OneCurve
    ModeRequests = {max}
    InitialFiles <- FreshFiles
    Writable = TRUE
    Polling = FALSE
    ReadsFail = TRUE
    WritesFail = TRUE
    SavesFail = TRUE
    ExternalWrites = {"down", "starting"}
SYMMETRY Symmetry
INVARIANTS
    TypeOK
    ChoicesOnDisk
    CustomHasCurve
PROPERTIES
    FactoryNeverReplaced
    RestoredOnStart
    ReplayNeverBlind
