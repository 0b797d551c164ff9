SPECIFICATION Spec
CONSTANTS
    app = app
    later = later
    gui = gui
    heir = heir
    tool = tool
    admin = admin
    Calls = {call1, call2}
    Senders = {app, later, tool}
    Processes = {gui, heir, admin}
    ProcessOf <- Owner
    IdentityOf <- Identity
    Sessions = {seat}
    NoSubject = NoSubject
    MaxSubjects = 1
    Workers = {worker}
    Timer = Timer
    Booter = Booter
    Nil = Nil
    PerfModes = {quiet, performance, odd}
    Supported = {quiet, performance}
    Readings = {cool, hot}
    FanCount = 2
    SavedPerf = {quiet, odd, Nil}
    MaxOutside = 2
    MaxTroubles = 2
INVARIANTS
    TypeOK
    OnlyAuthorized
    PerfAgrees
PROPERTIES
    CallsAnswered
    StatusSettles
