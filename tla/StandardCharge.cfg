\* A battery with both attributes and one with the end only; two reads or writes of a
\* transaction go wrong, in any way.
SPECIFICATION Spec
CONSTANTS
    Percents = {0, 1, 2}
    NoValue = NoValue
    Unreadable = Unreadable
    NoEntry = NoEntry
    PowerOnWindow <- MCPowerOn
    InitialFiles <- MCFiles
    StartBatteries <- OneBattery
    Batteries <- BothAndEnd
    WriteFaults = {"refused", "late", "altered"}
    MaxFaults = 2
INVARIANTS
    TypeOK
    WindowStaysValid
    OutcomeHonest
    OneFaultSurvived
    SavedIsDevice
