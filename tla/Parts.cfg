SPECIFICATION Spec
CONSTANTS
    k1 = k1
    k2 = k2
    red = red
    Setters = {call1, call2}
    Starter = Starter
    NoOne = NoOne
    KeyOrder <- TwoKeys
    Zones <- BothKeys
    Colours = {red}
    Black = Black
    Percents = {0, 10, 101}
    Between = Between
    NoColour = NoColour
    NoSection = NoSection
    KbBackends = {"hid", "acpi", "none"}
    Overlaps = {TRUE, FALSE}
    SavedSections <- SomeSections
    Troubled = TRUE
    MaxCalls = 2
    Programs = {cli}
    Scripts = {script}
    Requested <- Asked
    NoPoint = NoPoint
    Shipped <- Tables
    MaxRuns = 2
    Readers = {reader}
    Samples <- Moments
    Firmwares <- Machines
    Recordings <- Tapes
    Nothing = Nothing
    Failed = Failed
    MaxChanges = 2
    NoAnswer = NoAnswer
    MaxInstances = 2
    MaxPolls = 2
    Requests = {request1, request2}
    Images = {sea, city}
    ExtOrder <- JpgThenPng
    OtherExts = {"avif"}
    Backends = {"x11"}
    None = None
    Torn = Torn
    MaxTicks = 2
    MaxInvoked = 2
INVARIANTS
    TypeOK
    SavedKeyboard
    ReplayRestores
    OffStaysDark
    CurveTakesEffect
    TableWhole
    RestoreAccepted
    ReadsAreTrue
    AnswersHold
    FilesHold
CHECK_DEADLOCK FALSE
