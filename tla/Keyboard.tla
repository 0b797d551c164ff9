----------------------------- MODULE Keyboard -----------------------------
(***************************************************************************)
(* Keyboard lighting: clevod's setters and replay, the two backends that    *)
(* carry them out (the ITE USB HID controller, or the kernel driver's RGB15 *)
(* channel), the snapshot of what was written, which is all that is known   *)
(* of the device, and the section of clevod.toml saved from it.             *)
(*                                                                          *)
(* A setter sends, then updates the snapshot, then persists, under three    *)
(* different locks.  A HID zone is one report per key and stops at the      *)
(* first failure; an RGB15 operation is several EC commands under the       *)
(* kernel's keyboard_lock and also stops at the first failure.  The desktop *)
(* drives the same channel through the LED class without the daemon.        *)
(***************************************************************************)
EXTENDS Naturals, Sequences, SequencesExt, FiniteSetsExt

CONSTANTS
    Setters,        \* D-Bus calls that may be in flight at once
    Starter,        \* the start-up thread, which replays
    NoOne,          \* the persistence lock is free
    KeyOrder,       \* the keys, row by row
    Zones,          \* the sets of keys callers colour at once
    Colours, Black, \* Color::default() is black
    Percents,       \* the brightness percentages callers ask for
    Between,        \* a colour on the way of a fade
    NoColour,       \* keyboard_color_known is false
    NoSection,      \* Option::None for the keyboard section
    KbBackends,     \* the backends to check
    Overlaps,       \* BOOLEAN: may calls overlap
    SavedSections,  \* sections found in the file before the first start
    Troubled,       \* may device writes and saves fail
    MaxCalls        \* a bound on the setters called

Keys     == Range(KeyOrder)
AnyColour == Colours \cup {Black}
Sections == [mode : {"off", "static"}, brightness : 0..100,
             keys : UNION {[K -> Colours] : K \in SUBSET Keys}]

ASSUME KbdConfigured == /\ KbBackends \subseteq {"hid", "acpi", "none"}
                        /\ Overlaps \subseteq BOOLEAN /\ Black \notin Colours
                        /\ SavedSections \subseteq Sections \cup {NoSection}
                        /\ Zones \subseteq (SUBSET Keys) \ {{}} /\ Percents \subseteq Nat
                        /\ NoSection \notin Sections /\ NoColour \notin AnyColour
ASSUME KeysListed == KeyOrder \in Seq(Keys)
ASSUME ThreadsDistinct == Starter \notin Setters /\ NoOne \notin Setters \cup {Starter}

VARIABLES
    backend, overlap,   \* chosen once: the machine, and how it is used
    restore,            \* apply_on_start
    lamp,               \* the device: status, level, the colour of each key
    led,                \* the kernel driver's cached keyboard_* fields
    cache,              \* KeyboardSnapshot
    section,            \* the keyboard section of clevod.toml
    base,               \* the section loaded at start (Service.baseline)
    running,            \* "down", "replaying", "replayed", "serving"
    at, todo,           \* per thread: where it is, the device steps left
    lockedBy, draft,    \* persistence_lock, and the section being saved
    disturbed,          \* since start: a device write failed or another wrote
    touched,            \* since start: a setter has changed the snapshot
    lost,               \* a change of the snapshot is known not to be saved
    calls               \* setters called so far

kbdVars == <<backend, overlap, restore, lamp, led, cache, section, base, running,
             at, todo, lockedBy, draft, disturbed, touched, lost, calls>>
fixed   == <<backend, overlap, restore, calls>>
device  == <<lamp, led>>
saves   == <<section, base, lockedBy, draft>>

FreshCache == [mode |-> "static", brightness |-> 100, keys |-> [k \in Keys |-> Black]]
FreshLed   == [mode |-> "unknown", level |-> 191, shown |-> 191, colour |-> NoColour]
FreshLamp  == [on |-> TRUE, level |-> 191, keys |-> [k \in Keys |-> Between]]

-----------------------------------------------------------------------------
(* Levels, sections and steps.                                               *)

\* brightness_raw: the five levels of the vendor utility.
HidLevel(percent) == IF percent < 13 THEN 0 ELSE IF percent < 38 THEN 2
                     ELSE IF percent < 63 THEN 4 ELSE IF percent < 88 THEN 6 ELSE 10

EcLevel(percent) == (percent * 191 + 50) \div 100

\* KeyboardConfig::from_snapshot keeps no black key.
Section(c) ==
    LET lit == {k \in Keys : c.keys[k] # Black}
    IN  [mode |-> c.mode, brightness |-> c.brightness, keys |-> [k \in lit |-> c.keys[k]]]

ModeStep(m)       == [mode |-> m]
BrightnessStep(p) == [brightness |-> p]
KeysStep(colours) == [keys |-> colours]
ChannelStep(c)    == [channel |-> c]
IsMode(s)       == "mode" \in DOMAIN s
IsBrightness(s) == "brightness" \in DOMAIN s
IsKeys(s)       == "keys" \in DOMAIN s

\* Fault: the percentage is not checked.
AnyPercent(s) == TRUE

Valid(s) == IsBrightness(s) => s.brightness <= 100

\* Keys are sent one by one, row by row.
FirstKey(keys) == KeyOrder[Min({i \in DOMAIN KeyOrder : KeyOrder[i] \in keys})]

\* One report per key on the HID controller, one channel on RGB15.
ZoneSteps(zone, c) ==
    IF backend = "acpi" THEN <<ChannelStep(c)>> ELSE <<KeysStep([k \in zone |-> c])>>

\* RGB15 has one channel: the first saved key stands for all of them.
ColourSteps(saved) ==
    LET lit == DOMAIN saved.keys
    IN  IF lit = {} THEN <<>>
        ELSE IF backend = "hid" THEN <<KeysStep(saved.keys)>>
        ELSE <<ChannelStep(saved.keys[FirstKey(lit)])>>

\* What is left of the steps once one report, or one operation, has been sent.
Further(steps) ==
    LET s    == Head(steps)
        more == IF IsKeys(s) THEN DOMAIN s.keys \ {FirstKey(DOMAIN s.keys)} ELSE {}
    IN  IF more = {} THEN Tail(steps)
        ELSE <<KeysStep([k \in more |-> s.keys[k]])>> \o Tail(steps)

\* Fault: RGB15 too gets the mode before the brightness.
ReplayModeFirst(saved) ==
    <<ModeStep(saved.mode), BrightnessStep(saved.brightness)>> \o ColourSteps(saved)

\* replay_saved: RGB15 gets the mode last, the HID controller first.
ReplaySteps(saved) ==
    IF backend = "acpi"
    THEN ColourSteps(saved) \o <<BrightnessStep(saved.brightness), ModeStep(saved.mode)>>
    ELSE <<ModeStep(saved.mode), BrightnessStep(saved.brightness)>> \o ColourSteps(saved)

\* The snapshot after a step that was accepted.
Recorded(c, s) ==
    IF IsMode(s) THEN [c EXCEPT !.mode = s.mode]
    ELSE IF IsBrightness(s) THEN [c EXCEPT !.brightness = s.brightness]
    ELSE IF IsKeys(s)
    THEN [c EXCEPT !.keys[FirstKey(DOMAIN s.keys)] = s.keys[FirstKey(DOMAIN s.keys)]]
    ELSE [c EXCEPT !.keys = [k \in Keys |-> s.channel]]

-----------------------------------------------------------------------------
(* The devices.                                                              *)

\* "off" is sent as brightness 0; the static effect leaves level and keys alone.
HidLamp(s) ==
    IF IsMode(s) THEN IF s.mode = "off" THEN [lamp EXCEPT !.level = 0] ELSE lamp
    ELSE IF IsBrightness(s) THEN [lamp EXCEPT !.level = HidLevel(s.brightness)]
    ELSE [lamp EXCEPT !.keys[FirstKey(DOMAIN s.keys)] = s.keys[FirstKey(DOMAIN s.keys)]]

Switch(on)  == [reg |-> "on", to |-> on]
Level(raw)  == [reg |-> "level", to |-> raw]
Colour(c)   == [reg |-> "keys", to |-> [k \in Keys |-> c]]
SleepTimer  == [reg |-> "timer", to |-> 0]

\* Fault: any brightness but 0 turns the status on, as the LED class does.
BrightnessTurnsOn(p) == IF p = 0 THEN <<Level(0), Switch(FALSE)>>
                        ELSE <<Switch(TRUE), Level(EcLevel(p)), SleepTimer>>

EcBrightness(p) == <<Level(EcLevel(p)), IF p = 0 THEN Switch(FALSE) ELSE SleepTimer>>

\* The EC commands of a write to keyboard_rgb, in order.
EcCommands(s) ==
    IF IsMode(s) THEN
        IF s.mode = "off" THEN <<Level(0), Switch(FALSE), SleepTimer>>
        ELSE <<Switch(TRUE), Level(led.level)>>
             \o (IF led.colour = NoColour THEN <<>> ELSE <<Colour(led.colour)>>)
             \o <<SleepTimer>>
    ELSE IF IsBrightness(s) THEN EcBrightness(s.brightness)
    ELSE (IF led.colour \in {NoColour, s.channel} THEN <<>> ELSE <<Colour(Between)>>)
         \o <<Colour(s.channel), SleepTimer>>

\* The channel once the first n commands have been carried out.
Lamp(commands, n) ==
    LET hit(r) == {i \in 1..n : commands[i].reg = r}
    IN  [r \in DOMAIN lamp |-> IF hit(r) = {} THEN lamp[r] ELSE commands[Max(hit(r))].to]

LedAfter(s) ==
    IF IsMode(s)
    THEN [led EXCEPT !.mode = s.mode, !.shown = IF s.mode = "off" THEN 0 ELSE led.level]
    ELSE IF IsBrightness(s)
    THEN [led EXCEPT !.level = EcLevel(s.brightness), !.shown = EcLevel(s.brightness)]
    ELSE [led EXCEPT !.colour = s.channel]

Accepts(s) ==
    IF backend = "hid" THEN lamp' = HidLamp(s) /\ UNCHANGED led
    ELSE LET commands == EcCommands(s)
         IN  lamp' = Lamp(commands, Len(commands)) /\ led' = LedAfter(s)

\* The caches stay; what an RGB15 operation had already commanded stays too.
Refuses(s) ==
    /\ UNCHANGED led
    /\ IF backend = "acpi" /\ Valid(s)
       THEN \E n \in 0..Len(EcCommands(s)) - 1 : lamp' = Lamp(EcCommands(s), n)
       ELSE UNCHANGED lamp

-----------------------------------------------------------------------------
NoThreads == [t \in Setters \cup {Starter} |-> "idle"]
NoSteps == [t \in Setters \cup {Starter} |-> <<>>]

Stopped ==
    /\ running = "down"
    /\ cache = FreshCache
    /\ base = NoSection
    /\ at = NoThreads /\ todo = NoSteps
    /\ lockedBy = NoOne /\ draft = NoSection
    /\ disturbed = FALSE /\ touched = FALSE /\ lost = TRUE /\ calls = 0

KbdInit ==
    /\ backend \in KbBackends /\ overlap \in Overlaps /\ restore \in BOOLEAN
    /\ lamp = FreshLamp /\ led = FreshLed
    /\ section \in SavedSections
    /\ Stopped

Replays(saved) == restore /\ backend # "none" /\ saved # NoSection

KbdStart ==
    /\ running = "down"
    /\ running' = "replaying"
    /\ base' = section
    /\ todo' = [todo EXCEPT ![Starter] = IF Replays(section) THEN ReplaySteps(section) ELSE <<>>]
    /\ at' = [at EXCEPT ![Starter] = IF Replays(section) THEN "send" ELSE "idle"]
    /\ UNCHANGED <<fixed, device, cache, section, lockedBy, draft, disturbed, touched, lost>>

ReplayDone ==
    /\ running = "replaying" /\ at[Starter] = "idle"
    /\ running' = "replayed"
    /\ UNCHANGED <<fixed, device, cache, saves, at, todo, disturbed, touched, lost>>

KbdServe ==
    /\ running = "replayed"
    /\ running' = "serving"
    /\ UNCHANGED <<fixed, device, cache, saves, at, todo, disturbed, touched, lost>>

-----------------------------------------------------------------------------
(* A setter: its device steps, one after the other, then persist.            *)

Begin(t, steps) ==
    /\ running = "serving" /\ t \in Setters /\ at[t] = "idle"
    /\ calls < MaxCalls /\ calls' = calls + 1
    /\ ~overlap => \A u \in Setters : at[u] = "idle"
    /\ todo' = [todo EXCEPT ![t] = steps]
    /\ at' = [at EXCEPT ![t] = IF steps = <<>> THEN "draft" ELSE "send"]
    /\ UNCHANGED <<backend, overlap, restore, device, cache, saves, running, disturbed,
                   touched, lost>>

SetKeyboardMode(t) ==
    /\ backend # "none"
    /\ \E m \in {"off", "static"} : Begin(t, <<ModeStep(m)>>)
SetKeyboardBrightness(t) ==
    /\ backend # "none"
    /\ \E p \in Percents : Begin(t, <<BrightnessStep(p)>>)
SetKeyboardZone(t) ==
    /\ backend # "none"
    /\ \E z \in Zones, c \in AnyColour : Begin(t, ZoneSteps(z, c))
SetKeyboardKey(t) ==
    /\ backend # "none"
    /\ \E k \in Keys, c \in AnyColour : Begin(t, ZoneSteps({k}, c))

\* Any other setter (fan mode, performance mode) persists the keyboard with it.
SetSomethingElse(t) == Begin(t, <<>>)

Send(t) ==
    /\ at[t] = "send" /\ Valid(Head(todo[t]))
    /\ Accepts(Head(todo[t]))
    /\ at' = [at EXCEPT ![t] = "record"]
    /\ UNCHANGED <<fixed, cache, saves, running, todo, disturbed, touched, lost>>

\* The replay goes on with its next step; a setter returns the error unsaved,
\* although keys before the failing one are on the device and in the snapshot.
SendFails(t) ==
    /\ at[t] = "send"
    /\ Troubled \/ ~Valid(Head(todo[t]))
    /\ Refuses(Head(todo[t]))
    /\ disturbed' = (disturbed \/ Valid(Head(todo[t])))
    /\ lost' = TRUE
    /\ todo' = [todo EXCEPT ![t] = IF t = Starter THEN Further(@) ELSE <<>>]
    /\ at' = [at EXCEPT ![t] = IF todo'[t] = <<>> THEN "idle" ELSE "send"]
    /\ UNCHANGED <<fixed, cache, saves, running, touched>>

Record(t) ==
    /\ at[t] = "record"
    /\ cache' = Recorded(cache, Head(todo[t]))
    /\ touched' = (touched \/ t # Starter)
    /\ todo' = [todo EXCEPT ![t] = Further(@)]
    /\ at' = [at EXCEPT ![t] = IF todo'[t] # <<>> THEN "send"
                               ELSE IF t = Starter THEN "idle" ELSE "draft"]
    /\ UNCHANGED <<fixed, device, saves, running, disturbed, lost>>

\* to_config takes the whole snapshot whenever there is a keyboard.
Draft == IF backend = "none" THEN base ELSE Section(cache)

\* Fault: a save that finds another one in progress is skipped.
DraftOrSkip(t) ==
    /\ at[t] = "draft"
    /\ IF lockedBy = NoOne
       THEN /\ lockedBy' = t /\ draft' = Draft /\ lost' = FALSE
            /\ at' = [at EXCEPT ![t] = "save"]
       ELSE /\ at' = [at EXCEPT ![t] = "idle"]
            /\ UNCHANGED <<lockedBy, draft, lost>>
    /\ UNCHANGED <<fixed, device, cache, section, base, running, todo, disturbed, touched>>

DraftSave(t) ==
    /\ at[t] = "draft" /\ lockedBy = NoOne
    /\ lockedBy' = t /\ draft' = Draft /\ lost' = FALSE
    /\ at' = [at EXCEPT ![t] = "save"]
    /\ UNCHANGED <<fixed, device, cache, section, base, running, todo, disturbed, touched>>

SaveSection(t) ==
    /\ at[t] = "save"
    /\ \/ section' = draft /\ UNCHANGED lost
       \/ Troubled /\ lost' = TRUE /\ UNCHANGED section
    /\ lockedBy' = NoOne /\ draft' = NoSection
    /\ at' = [at EXCEPT ![t] = "idle"]
    /\ UNCHANGED <<fixed, device, cache, base, running, todo, disturbed, touched>>

-----------------------------------------------------------------------------
(* Others.                                                                   *)

\* The LED class (PowerDevil), and the raw-brightness diagnostic, which caches nothing.
DesktopSetsLed ==
    /\ backend = "acpi"
    /\ \E raw \in {0, 191} :
         LET commands == IF raw = 0 THEN <<Level(0), Switch(FALSE), SleepTimer>>
                         ELSE <<Switch(TRUE), Level(raw), SleepTimer>>
         IN  \/ /\ lamp' = Lamp(commands, Len(commands))
                /\ led' = [led EXCEPT !.level = raw, !.shown = raw] \/ led' = led
             \/ /\ \E n \in 0..Len(commands) - 1 : lamp' = Lamp(commands, n)
                /\ UNCHANGED led
    /\ disturbed' = TRUE
    /\ UNCHANGED <<fixed, cache, saves, running, at, todo, touched, lost>>

\* The daemon is killed; the kernel driver and the device go on.
KbdKilled ==
    /\ running # "down"
    /\ running' = "down"
    /\ cache' = FreshCache /\ base' = NoSection
    /\ at' = NoThreads /\ todo' = NoSteps /\ lockedBy' = NoOne /\ draft' = NoSection
    /\ disturbed' = FALSE /\ touched' = FALSE /\ lost' = TRUE
    /\ UNCHANGED <<fixed, section>>
    /\ \/ UNCHANGED device
       \/ lamp' = FreshLamp /\ led' = FreshLed

KbdThread(t) ==
    \/ Send(t) \/ SendFails(t) \/ Record(t) \/ DraftSave(t) \/ SaveSection(t)

KbdNext ==
    \/ KbdStart \/ ReplayDone \/ KbdServe
    \/ \E t \in Setters : \/ SetKeyboardMode(t) \/ SetKeyboardBrightness(t)
                          \/ SetKeyboardZone(t) \/ SetKeyboardKey(t) \/ SetSomethingElse(t)
    \/ \E t \in Setters \cup {Starter} : KbdThread(t)
    \/ DesktopSetsLed \/ KbdKilled

KbdSpec == KbdInit /\ [][KbdNext]_kbdVars

-----------------------------------------------------------------------------
KbdTypeOK ==
    /\ backend \in KbBackends /\ overlap \in Overlaps /\ restore \in BOOLEAN
    /\ lamp.on \in BOOLEAN /\ lamp.level \in 0..191
    /\ lamp.keys \in [Keys -> AnyColour \cup {Between}]
    /\ led \in [mode : {"unknown", "off", "static"}, level : 0..191, shown : 0..191,
                colour : AnyColour \cup {NoColour}]
    /\ cache \in [mode : {"off", "static"}, brightness : 0..100, keys : [Keys -> AnyColour]]
    /\ {section, base, draft} \subseteq Sections \cup {NoSection}
    /\ running \in {"down", "replaying", "replayed", "serving"}
    /\ lockedBy \in Setters \cup {NoOne}
    /\ at \in [Setters \cup {Starter} -> {"idle", "send", "record", "draft", "save"}]
    /\ {disturbed, touched, lost} \subseteq BOOLEAN

AtRest == running = "serving" /\ at = NoThreads

(* With no call in flight the file holds the snapshot, however the calls and  *)
(* their saves overlapped, unless the last save or a call after it failed     *)
(* (set_keyboard_*, persist and to_config, service.rs).                       *)
SavedKeyboard ==
    AtRest /\ ~lost /\ backend # "none" => section = Section(cache)

(* After a replay without a failure or another writer the device shows what   *)
(* the file says: every saved colour, the saved brightness, and darkness on   *)
(* the RGB15 channel if it was off (replay_saved, service.rs:751-797).        *)
ReplayRestores ==
    running = "replayed" /\ Replays(base) /\ ~disturbed =>
        /\ \A k \in DOMAIN base.keys :
             lamp.keys[k] = base.keys[IF backend = "hid" THEN k ELSE FirstKey(DOMAIN base.keys)]
        /\ base.mode = "static" =>
             /\ lamp.on
             /\ lamp.level = IF backend = "hid" THEN HidLevel(base.brightness)
                             ELSE EcLevel(base.brightness)
        /\ base.mode = "off" /\ backend = "acpi" => ~lamp.on

(* Turned off, the RGB15 channel stays dark until it is turned on again:      *)
(* colours and brightness set meanwhile do not light it, for callers that do  *)
(* not overlap (keyboard_rgb_store, clevo-cc.c:841).                          *)
OffStaysDark ==
    AtRest /\ ~overlap /\ backend = "acpi" /\ cache.mode = "off" /\ ~disturbed => ~lamp.on

(* "a mode that was never written this session ... keeps the value from the   *)
(* baseline" (service.rs:801-806): until a keyboard setter has run, saves     *)
(* leave the loaded keyboard section as it was.                               *)
KeyboardKept == running # "down" /\ base # NoSection /\ ~touched => section = base
=============================================================================
