SPECIFICATION KbdSpec
CONSTANTS
    k1 = k1
    k2 = k2
    red = red
    Setters = {call1}
    Starter = Starter
    NoOne = NoOne
    KeyOrder <- TwoKeys
    Zones <- BothKeys
    Colours = {red}
    Black = Black
    Percents = {0, 10, 101}
    Between = Between
    NoColour = NoColour
    NoSection = NoSection
    KbBackends = {"hid", "acpi", "none"}
    Overlaps = {TRUE, FALSE}
    SavedSections <- SomeSections
    Troubled = TRUE
    MaxCalls = 1
INVARIANTS
    KeyboardKept
