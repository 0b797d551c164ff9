-------------------------- MODULE Keyboard_proofs --------------------------
(***************************************************************************)
(* Proofs about Keyboard, for any keys, zones and sections: at rest the     *)
(* file holds the snapshot, whatever setters overlap; the types; and, for   *)
(* calls that do not overlap, that a keyboard switched off is dark and that *)
(* a replay gives the device what the section says.                         *)
(***************************************************************************)
EXTENDS Keyboard, SequenceTheorems, FiniteSetTheorems, TLAPS

Threads == Setters \cup {Starter}

\* A setter that will still take a draft of the snapshot.
Pending == \E t \in Setters : at[t] \in {"send", "record", "draft"}

ThreadsPlaced ==
    /\ at \in [Threads -> {"idle", "send", "record", "draft", "save"}]
    /\ at[Starter] \in {"idle", "send", "record"}
    /\ at[Starter] # "idle" => running = "replaying"
    /\ \A t \in Setters : at[t] # "idle" => running = "serving"

LockHeld ==
    /\ \A t \in Threads : at[t] = "save" => lockedBy = t
    /\ lockedBy # NoOne => lockedBy \in Setters /\ at[lockedBy] = "save"

Saved ==
    /\ running # "serving" => lost
    /\ ~lost /\ backend # "none" =>
         Pending \/ (IF lockedBy = NoOne THEN section ELSE draft) = Section(cache)

KbdIInv == ThreadsPlaced /\ LockHeld /\ Saved

\* What to_config drafts is a function of the snapshot, while there is a keyboard.
LEMMA SectionKept ==
  ASSUME cache' = cache
  PROVE  Section(cache)' = Section(cache)
BY DEF Section

\* Nothing is in flight at first.
LEMMA KbdInitially == KbdInit => KbdIInv
BY ThreadsDistinct
   DEF KbdInit, Stopped, NoThreads, KbdIInv, ThreadsPlaced, LockHeld, Saved, Threads

\* A setter begins.
LEMMA BeginStep ==
  ASSUME KbdIInv, NEW t \in Setters, NEW steps, Begin(t, steps)
  PROVE  KbdIInv'
<1>1. at'[t] \in {"send", "draft"} /\ \A u \in Threads \ {t} : at'[u] = at[u]
  BY DEF Begin, KbdIInv, ThreadsPlaced, Threads
<1>2. Pending'
  BY <1>1 DEF Pending
<1>3. ThreadsPlaced'
  BY <1>1, ThreadsDistinct DEF Begin, KbdIInv, ThreadsPlaced, Threads
<1>4. LockHeld'
  BY <1>1, ThreadsDistinct DEF Begin, KbdIInv, LockHeld, Threads, saves
<1> QED
  BY <1>2, <1>3, <1>4 DEF Begin, KbdIInv, Saved

\* A step is sent to the device, or fails.
LEMMA DeviceStep ==
  ASSUME KbdIInv, NEW t \in Threads, Send(t) \/ SendFails(t)
  PROVE  KbdIInv'
<1>1. /\ at[t] = "send" /\ running' = running /\ cache' = cache
      /\ lockedBy' = lockedBy /\ draft' = draft /\ section' = section /\ backend' = backend
  BY DEF Send, SendFails, saves, fixed
<1>2. /\ \A u \in Threads \ {t} : at'[u] = at[u]
      /\ at'[t] \in {"idle", "send", "record"}
      /\ at' \in [Threads -> {"idle", "send", "record", "draft", "save"}]
  BY DEF Send, SendFails, KbdIInv, ThreadsPlaced
<1>3. ThreadsPlaced'
  BY <1>1, <1>2, ThreadsDistinct DEF KbdIInv, ThreadsPlaced, Threads
<1>4. LockHeld'
  BY <1>1, <1>2 DEF KbdIInv, LockHeld, Threads
<1>5. CASE Send(t)
  <2>1. at'[t] = "record" /\ lost' = lost
    BY <1>5 DEF Send, KbdIInv, ThreadsPlaced
  <2>2. Pending => Pending'
    BY <1>2, <2>1 DEF Pending, Threads
  <2> QED BY <1>1, <1>3, <1>4, <2>1, <2>2, SectionKept DEF KbdIInv, Saved
<1>6. CASE SendFails(t)
  BY <1>3, <1>4, <1>6 DEF SendFails, KbdIInv, Saved
<1> QED BY <1>5, <1>6

\* A step that was sent is recorded in the snapshot.
LEMMA RecordStep ==
  ASSUME KbdIInv, NEW t \in Threads, Record(t)
  PROVE  KbdIInv'
<1>1. /\ at[t] = "record" /\ running' = running /\ lost' = lost
      /\ lockedBy' = lockedBy /\ draft' = draft /\ section' = section /\ backend' = backend
  BY DEF Record, saves, fixed, device
<1>2. /\ \A u \in Threads \ {t} : at'[u] = at[u]
      /\ at'[t] \in IF t = Starter THEN {"idle", "send"} ELSE {"send", "draft"}
      /\ at' \in [Threads -> {"idle", "send", "record", "draft", "save"}]
  BY DEF Record, KbdIInv, ThreadsPlaced
<1>3. ThreadsPlaced'
  BY <1>1, <1>2, ThreadsDistinct DEF KbdIInv, ThreadsPlaced, Threads
<1>4. LockHeld'
  BY <1>1, <1>2 DEF KbdIInv, LockHeld, Threads
<1>5. CASE t = Starter
  BY <1>1, <1>3, <1>4, <1>5 DEF KbdIInv, ThreadsPlaced, Saved
<1>6. CASE t # Starter
  <2>1. Pending'
    BY <1>2, <1>6 DEF Pending, Threads
  <2> QED BY <1>1, <1>3, <1>4, <2>1 DEF KbdIInv, Saved
<1> QED BY <1>5, <1>6

\* A section is drawn from the snapshot, under the lock.
LEMMA DraftStep ==
  ASSUME KbdIInv, NEW t \in Threads, DraftSave(t)
  PROVE  KbdIInv'
<1>1. /\ at[t] = "draft" /\ lockedBy = NoOne /\ lockedBy' = t /\ ~lost'
      /\ running' = running /\ cache' = cache /\ backend' = backend
      /\ at' = [at EXCEPT ![t] = "save"]
  BY DEF DraftSave, fixed
<1>2. t \in Setters /\ running = "serving"
  BY <1>1 DEF KbdIInv, ThreadsPlaced, Threads
<1>3. ThreadsPlaced'
  BY <1>1, <1>2, ThreadsDistinct DEF KbdIInv, ThreadsPlaced, Threads
<1>4. LockHeld'
  BY <1>1, <1>2, ThreadsDistinct DEF KbdIInv, ThreadsPlaced, LockHeld, Threads
<1>5. backend # "none" => draft' = Section(cache)
  BY DEF DraftSave, Draft
<1> QED
  BY <1>1, <1>2, <1>3, <1>4, <1>5, SectionKept, ThreadsDistinct DEF KbdIInv, Saved

\* The section reaches the file, or the save fails.
LEMMA SaveStep ==
  ASSUME KbdIInv, NEW t \in Threads, SaveSection(t)
  PROVE  KbdIInv'
<1>1. /\ at[t] = "save" /\ lockedBy' = NoOne /\ running' = running /\ cache' = cache
      /\ backend' = backend /\ at' = [at EXCEPT ![t] = "idle"]
  BY DEF SaveSection, fixed
<1>2. t \in Setters /\ running = "serving" /\ lockedBy = t
  BY <1>1 DEF KbdIInv, ThreadsPlaced, LockHeld, Threads
<1>3. ThreadsPlaced'
  BY <1>1, <1>2, ThreadsDistinct DEF KbdIInv, ThreadsPlaced, Threads
<1>4. LockHeld'
  BY <1>1, <1>2, ThreadsDistinct DEF KbdIInv, ThreadsPlaced, LockHeld, Threads
<1>5. Pending => Pending'
  BY <1>1 DEF Pending, KbdIInv, ThreadsPlaced, Threads
<1>6. ~lost' => section' = draft /\ ~lost
  BY DEF SaveSection
<1>7. lockedBy # NoOne
  BY <1>2, ThreadsDistinct
<1> QED
  BY <1>1, <1>2, <1>3, <1>4, <1>5, <1>6, <1>7, SectionKept DEF KbdIInv, Saved

\* The daemon starts, serves or dies; the desktop writes the LED.
LEMMA StartStep ==
  ASSUME KbdIInv, KbdStart \/ ReplayDone \/ KbdServe \/ DesktopSetsLed \/ KbdKilled
                  \/ UNCHANGED kbdVars
  PROVE  KbdIInv'
<1>1. CASE KbdStart
  <2>1. /\ \A u \in Threads \ {Starter} : at'[u] = at[u]
        /\ at'[Starter] \in {"idle", "send"}
        /\ at' \in [Threads -> {"idle", "send", "record", "draft", "save"}]
    BY <1>1 DEF KbdStart, KbdIInv, ThreadsPlaced, Threads
  <2>2. ThreadsPlaced' /\ LockHeld'
    BY <1>1, <2>1, ThreadsDistinct DEF KbdStart, KbdIInv, ThreadsPlaced, LockHeld, Threads
  <2> QED BY <1>1, <2>2 DEF KbdStart, KbdIInv, Saved
<1>2. CASE ReplayDone
  BY <1>2, ThreadsDistinct DEF ReplayDone, saves, KbdIInv, ThreadsPlaced, LockHeld, Saved, Threads
<1>3. CASE KbdServe
  BY <1>3, ThreadsDistinct DEF KbdServe, saves, KbdIInv, ThreadsPlaced, LockHeld, Saved, Threads
<1>4. CASE DesktopSetsLed \/ UNCHANGED kbdVars
  <2>1. UNCHANGED <<at, running, lockedBy, draft, section, cache, lost, backend>>
    BY <1>4 DEF DesktopSetsLed, kbdVars, fixed, saves
  <2> QED BY <2>1, SectionKept DEF KbdIInv, ThreadsPlaced, LockHeld, Saved, Pending
<1>5. CASE KbdKilled
  BY <1>5, ThreadsDistinct
     DEF KbdKilled, NoThreads, KbdIInv, ThreadsPlaced, LockHeld, Saved, Threads
<1> QED BY <1>1, <1>2, <1>3, <1>4, <1>5

\* Every step keeps the invariant.
LEMMA KbdStep == KbdIInv /\ [KbdNext]_kbdVars => KbdIInv'
<1>1. SUFFICES ASSUME KbdIInv, [KbdNext]_kbdVars PROVE KbdIInv'
  OBVIOUS
<1>2. ASSUME NEW t \in Setters,
             \/ SetKeyboardMode(t) \/ SetKeyboardBrightness(t) \/ SetKeyboardZone(t)
             \/ SetKeyboardKey(t) \/ SetSomethingElse(t)
      PROVE  \E steps : Begin(t, steps)
  BY <1>2 DEF SetKeyboardMode, SetKeyboardBrightness, SetKeyboardZone, SetKeyboardKey,
              SetSomethingElse
<1>3. ASSUME NEW t \in Setters, NEW steps, Begin(t, steps) PROVE KbdIInv'
  BY <1>1, <1>3, BeginStep
<1>4. ASSUME NEW t \in Threads, KbdThread(t) PROVE KbdIInv'
  BY <1>1, <1>4, DeviceStep, RecordStep, DraftStep, SaveStep DEF KbdThread
<1> QED
  BY <1>1, <1>2, <1>3, <1>4, StartStep DEF KbdNext, Threads

(* With no call in flight the file holds the snapshot, for any number of      *)
(* overlapping setters that fail, save late or are killed (persist and        *)
(* to_config, service.rs:808-855).                                            *)
THEOREM KeyboardIsSaved == KbdSpec => []SavedKeyboard
<1>1. KbdIInv => SavedKeyboard
  BY ThreadsDistinct
     DEF KbdIInv, ThreadsPlaced, LockHeld, Saved, SavedKeyboard, AtRest, NoThreads, Pending
<1> QED
  BY <1>1, KbdInitially, KbdStep, PTL DEF KbdSpec

-----------------------------------------------------------------------------
(* Keys.                                                                     *)

\* Every set of naturals that is not empty has a least element.
LEMMA MinOfNaturals ==
  ASSUME NEW S \in SUBSET Nat, S # {}
  PROVE  Min(S) \in S /\ \A y \in S : Min(S) <= y
<1> DEFINE Below == {0..n : n \in S}
           R == StrictSubsetOrdering(Nat)
<1>1. Below \subseteq FiniteSubsetsOf(Nat) /\ Below # {}
  <2>1. \A n \in S : IsFiniteSet(0..n) /\ 0..n \subseteq Nat
    BY FS_Interval
  <2> QED BY <2>1 DEF FiniteSubsetsOf
<1>2. \E x \in Below : \A y \in Below : <<y, x>> \notin R
  BY <1>1, FS_StrictSubsetOrderingWellFounded, WFMin
<1>3. PICK m \in S : \A n \in S : <<0..n, 0..m>> \notin R
  BY <1>2
<1>4. ASSUME NEW n \in S, n < m PROVE FALSE
  <2>1. 0..n \subseteq 0..m /\ m \in 0..m /\ m \notin 0..n /\ 0..m \subseteq Nat
    BY <1>4
  <2> QED BY <1>3, <1>4, <2>1 DEF StrictSubsetOrdering
<1>5. \A n \in S : m <= n
  BY <1>4
<1> QED BY <1>5 DEF Min

\* A set of numbers 1..n that is not empty has a greatest element.
LEMMA MaxOfPositions ==
  ASSUME NEW n \in Nat, NEW S \in SUBSET (1..n), S # {}
  PROVE  Max(S) \in S /\ \A y \in S : Max(S) >= y
<1> DEFINE T == {n - i : i \in S}
<1>1. T \in SUBSET Nat /\ T # {}
  <2>1. \A i \in S : n - i \in Nat
    OBVIOUS
  <2> QED BY <2>1
<1>2. Min(T) \in T /\ \A y \in T : Min(T) <= y
  BY <1>1, MinOfNaturals
<1>3. PICK m \in S : \A i \in S : n - m <= n - i
  BY <1>2
<1>4. \A i \in S : m >= i
  BY <1>3
<1> QED BY <1>4 DEF Max

\* The first of some keys is one of them.
LEMMA FirstKeyIn ==
  ASSUME NEW K \in SUBSET Keys, K # {}
  PROVE  FirstKey(K) \in K
<1> DEFINE P == {i \in DOMAIN KeyOrder : KeyOrder[i] \in K}
<1>1. P \in SUBSET Nat /\ P # {}
  <2>1. DOMAIN KeyOrder = 1..Len(KeyOrder) /\ Len(KeyOrder) \in Nat
    BY KeysListed, LenProperties
  <2> QED BY <2>1 DEF Keys, Range
<1>2. Min(P) \in P
  BY <1>1, MinOfNaturals
<1> QED BY <1>2 DEF FirstKey

-----------------------------------------------------------------------------
(* Types: what a step can be, and what it makes of the device.               *)

Colourings == UNION {[K -> AnyColour] : K \in (SUBSET Keys) \ {{}}}

Steps ==
    IF backend = "none" THEN {}
    ELSE {ModeStep(m) : m \in {"off", "static"}} \cup {BrightnessStep(p) : p \in Nat}
         \cup IF backend = "hid" THEN {KeysStep(f) : f \in Colourings}
              ELSE {ChannelStep(c) : c \in AnyColour}

Lamps == [on : BOOLEAN, level : 0..191, keys : [Keys -> AnyColour \cup {Between}]]
Leds  == [mode : {"unknown", "off", "static"}, level : 0..191, shown : 0..191,
          colour : AnyColour \cup {NoColour}]
Caches == [mode : {"off", "static"}, brightness : 0..100, keys : [Keys -> AnyColour]]

\* A thread that is to send has a step to send, and records what was accepted.
Busy ==
    \A t \in Threads :
      /\ todo[t] \in Seq(Steps)
      /\ at[t] \in {"send", "record"} => todo[t] # <<>>
      /\ at[t] = "record" => Valid(Head(todo[t]))

FlagTypes    == {restore, disturbed, touched, lost} \subseteq BOOLEAN
DeviceTypes  == lamp \in Lamps /\ led \in Leds
SavesTypes   == /\ cache \in Caches
                /\ {section, base, draft} \subseteq Sections \cup {NoSection}
                /\ lockedBy \in Setters \cup {NoOne}
ControlTypes == /\ backend \in KbBackends /\ overlap \in Overlaps
                /\ running \in {"down", "replaying", "replayed", "serving"}
                /\ at \in [Threads -> {"idle", "send", "record", "draft", "save"}]

KbdTypeInv ==
    /\ FlagTypes /\ DeviceTypes /\ SavesTypes /\ ControlTypes
    /\ DOMAIN todo = Threads /\ todo = [t \in Threads |-> todo[t]]
    /\ Busy

\* A device step is of one kind, and made of what that kind needs.
LEMMA StepKinds ==
  ASSUME NEW s \in Steps
  PROVE  \/ /\ IsMode(s) /\ ~IsBrightness(s) /\ ~IsKeys(s)
            /\ s = ModeStep(s.mode) /\ s.mode \in {"off", "static"}
         \/ /\ IsBrightness(s) /\ ~IsMode(s) /\ ~IsKeys(s)
            /\ s = BrightnessStep(s.brightness) /\ s.brightness \in Nat
         \/ /\ IsKeys(s) /\ ~IsMode(s) /\ ~IsBrightness(s)
            /\ backend = "hid" /\ s = KeysStep(s.keys) /\ s.keys \in Colourings
         \/ /\ ~IsMode(s) /\ ~IsBrightness(s) /\ ~IsKeys(s)
            /\ backend # "hid" /\ s = ChannelStep(s.channel) /\ s.channel \in AnyColour
BY DEF Steps, IsMode, IsBrightness, IsKeys, ModeStep, BrightnessStep, KeysStep, ChannelStep

\* The colour of the first key, among those of some keys.
LEMMA FirstColour ==
  ASSUME NEW f \in Colourings
  PROVE  FirstKey(DOMAIN f) \in DOMAIN f /\ DOMAIN f \subseteq Keys
         /\ f[FirstKey(DOMAIN f)] \in AnyColour
<1>1. PICK K \in (SUBSET Keys) \ {{}} : f \in [K -> AnyColour]
  BY DEF Colourings
<1> QED BY <1>1, FirstKeyIn

\* What is left of a list of steps is a list of steps.
LEMMA FurtherTyped ==
  ASSUME NEW steps \in Seq(Steps), steps # <<>>
  PROVE  Further(steps) \in Seq(Steps)
<1> DEFINE s == Head(steps)
           more == DOMAIN s.keys \ {FirstKey(DOMAIN s.keys)}
<1>1. s \in Steps /\ Tail(steps) \in Seq(Steps)
  OBVIOUS
<1>2. CASE ~IsKeys(s) \/ more = {}
  BY <1>1, <1>2 DEF Further
<1>3. CASE IsKeys(s) /\ more # {}
  <2>1. backend = "hid" /\ s.keys \in Colourings
    BY <1>1, <1>3, StepKinds
  <2>2. [k \in more |-> s.keys[k]] \in Colourings
    <3>1. PICK K \in (SUBSET Keys) \ {{}} : s.keys \in [K -> AnyColour]
      BY <2>1 DEF Colourings
    <3>2. more \in (SUBSET Keys) \ {{}} /\ [k \in more |-> s.keys[k]] \in [more -> AnyColour]
      BY <1>3, <3>1
    <3> QED BY <3>2 DEF Colourings
  <2>3. KeysStep([k \in more |-> s.keys[k]]) \in Steps
    BY <2>1, <2>2 DEF Steps
  <2>4. Further(steps) = <<KeysStep([k \in more |-> s.keys[k]])>> \o Tail(steps)
    BY <1>3 DEF Further
  <2> QED BY <1>1, <2>3, <2>4
<1> QED BY <1>2, <1>3

\* What the EC can be commanded.
Commands == {Switch(on) : on \in BOOLEAN} \cup {Level(raw) : raw \in 0..191}
            \cup {Colour(c) : c \in AnyColour \cup {Between}} \cup {SleepTimer}

\* One, two and three members of a set, as sequences.
LEMMA ShortSequences ==
  ASSUME NEW S, NEW a \in S, NEW b \in S, NEW c \in S
  PROVE  <<a>> \in Seq(S) /\ <<a, b>> \in Seq(S) /\ <<a, b, c>> \in Seq(S)
OBVIOUS

\* Every command the driver composes is a command of the EC.
LEMMA EveryCommand ==
  /\ Switch(TRUE) \in Commands /\ Switch(FALSE) \in Commands
  /\ \A raw \in 0..191 : Level(raw) \in Commands
  /\ \A c \in AnyColour \cup {Between} : Colour(c) \in Commands
  /\ Level(0) \in Commands /\ SleepTimer \in Commands
<1>1. Switch(TRUE) \in Commands /\ Switch(FALSE) \in Commands
  BY DEF Commands
<1>2. 0 \in 0..191 /\ \A raw \in 0..191 : Level(raw) \in Commands
  BY DEF Commands
<1>3. \A c \in AnyColour \cup {Between} : Colour(c) \in Commands
  BY DEF Commands
<1>4. SleepTimer \in Commands
  BY DEF Commands
<1> QED
  <2>1. Level(0) \in Commands
    BY <1>2
  <2> QED BY <1>1, <1>2, <1>3, <1>4, <2>1

\* Commands leave the channel with a state of its own type.
LEMMA LampTyped ==
  ASSUME lamp \in Lamps, NEW commands \in Seq(Commands), NEW n \in 0..Len(commands)
  PROVE  Lamp(commands, n) \in Lamps
<1> DEFINE hit(r) == {i \in 1..n : commands[i].reg = r}
<1>1. \A i \in 1..n : commands[i] \in Commands
  BY ElementOfSeq
<1>2. ASSUME NEW r, hit(r) # {}
      PROVE  commands[Max(hit(r))] \in Commands /\ commands[Max(hit(r))].reg = r
  <2>1. n \in Nat /\ hit(r) \in SUBSET (1..n)
    BY LenProperties
  <2>2. Max(hit(r)) \in hit(r)
    BY <1>2, <2>1, MaxOfPositions
  <2> QED BY <1>1, <2>2
<1>3. \A c \in Commands : /\ c.reg = "on" => c.to \in BOOLEAN
                          /\ c.reg = "level" => c.to \in 0..191
                          /\ c.reg = "keys" => c.to \in [Keys -> AnyColour \cup {Between}]
  BY DEF Commands, Switch, Level, Colour, SleepTimer
<1>4. DOMAIN lamp = {"on", "level", "keys"}
  BY DEF Lamps
<1>5. Lamp(commands, n) = [r \in {"on", "level", "keys"} |->
                             IF hit(r) = {} THEN lamp[r] ELSE commands[Max(hit(r))].to]
  BY <1>4 DEF Lamp
<1>6. /\ lamp.on \in BOOLEAN /\ lamp.level \in 0..191
      /\ lamp.keys \in [Keys -> AnyColour \cup {Between}]
  BY DEF Lamps
<1> DEFINE value(r) == IF hit(r) = {} THEN lamp[r] ELSE commands[Max(hit(r))].to
<1>7. ASSUME NEW r PROVE value(r) = lamp[r] \/ \E c \in Commands : c.reg = r /\ value(r) = c.to
  BY <1>2
<1>8. value("on") \in BOOLEAN
  <2> HIDE DEF value
  <2>1. CASE value("on") = lamp["on"]
    BY <1>6, <2>1
  <2>2. CASE \E c \in Commands : c.reg = "on" /\ value("on") = c.to
    BY <1>3, <2>2
  <2> QED BY <1>7, <2>1, <2>2
<1>9. value("level") \in 0..191 /\ value("keys") \in [Keys -> AnyColour \cup {Between}]
  <2> HIDE DEF value
  <2>1. value("level") \in 0..191
    <3>1. value("level") = lamp["level"]
          \/ \E c \in Commands : c.reg = "level" /\ value("level") = c.to
      BY <1>7
    <3> QED BY <1>3, <1>6, <3>1
  <2>2. value("keys") = lamp["keys"] \/ \E c \in Commands : c.reg = "keys" /\ value("keys") = c.to
    BY <1>7
  <2>3. value("keys") \in [Keys -> AnyColour \cup {Between}]
    BY <1>3, <1>6, <2>2
  <2> QED BY <2>1, <2>3
<1>10. Lamp(commands, n) = [on |-> value("on"), level |-> value("level"), keys |-> value("keys")]
  <2> HIDE DEF value
  <2>1. Lamp(commands, n) = [r \in {"on", "level", "keys"} |-> value(r)]
    BY <1>5 DEF value
  <2> QED BY <2>1
<1> QED
  <2> HIDE DEF value
  <2> QED BY <1>8, <1>9, <1>10 DEF Lamps

\* A percentage becomes a level of 0..191 on the kernel's backend.
LEMMA EcLevelRange ==
  ASSUME NEW p \in 0..100
  PROVE  EcLevel(p) \in 0..191
BY DEF EcLevel

\* The driver turns a step into commands of the EC.
LEMMA EcCommandsTyped ==
  ASSUME led \in Leds, NEW s \in Steps, Valid(s), backend # "hid"
  PROVE  EcCommands(s) \in Seq(Commands)
<1> USE EveryCommand
<1>1. CASE IsMode(s)
  <2>1. CASE s.mode = "off"
    <3>1. Level(0) \in Commands /\ Switch(FALSE) \in Commands
      OBVIOUS
    <3>2. <<Level(0), Switch(FALSE), SleepTimer>> \in Seq(Commands)
      BY <3>1, ShortSequences
    <3> QED BY <1>1, <2>1, <3>2 DEF EcCommands
  <2>2. CASE s.mode # "off"
    <3>1. led.level \in 0..191 /\ (led.colour # NoColour => led.colour \in AnyColour)
      BY DEF Leds
    <3>2. <<Switch(TRUE), Level(led.level)>> \in Seq(Commands) /\ <<SleepTimer>> \in Seq(Commands)
      <4>1. Switch(TRUE) \in Commands /\ Level(led.level) \in Commands
        BY <3>1
      <4> QED BY <4>1, ShortSequences
    <3>3. (IF led.colour = NoColour THEN <<>> ELSE <<Colour(led.colour)>>) \in Seq(Commands)
      BY <3>1
    <3> QED BY <1>1, <2>2, <3>2, <3>3, ConcatProperties DEF EcCommands
  <2> QED BY <2>1, <2>2
<1>2. CASE IsBrightness(s)
  <2>1. ~IsMode(s) /\ s.brightness \in 0..100
    BY <1>2, StepKinds DEF Valid
  <2>2. EcLevel(s.brightness) \in 0..191
    BY <2>1, EcLevelRange
  <2>3. Level(EcLevel(s.brightness)) \in Commands /\ Switch(FALSE) \in Commands
    BY <2>2
  <2>4. EcBrightness(s.brightness) \in Seq(Commands)
    BY <2>3, ShortSequences DEF EcBrightness
  <2> QED BY <1>2, <2>1, <2>4 DEF EcCommands
<1>3. CASE ~IsMode(s) /\ ~IsBrightness(s)
  <2>1. s.channel \in AnyColour
    BY <1>3, StepKinds
  <2>2. <<Colour(s.channel), SleepTimer>> \in Seq(Commands)
    BY <2>1
  <2>3. (IF led.colour \in {NoColour, s.channel} THEN <<>> ELSE <<Colour(Between)>>) \in Seq(Commands)
    OBVIOUS
  <2> QED BY <1>3, <2>2, <2>3, ConcatProperties DEF EcCommands
<1> QED BY <1>1, <1>2, <1>3

\* And a level of the controller on the HID backend.
LEMMA HidLevelRange ==
  ASSUME NEW p \in Nat
  PROVE  HidLevel(p) \in 0..191
BY DEF HidLevel

\* A report leaves the controller with a state of its own type.
LEMMA HidLampTyped ==
  ASSUME lamp \in Lamps, NEW s \in Steps, backend = "hid"
  PROVE  HidLamp(s) \in Lamps
<1>1. CASE IsMode(s)
  BY <1>1 DEF HidLamp, Lamps
<1>2. CASE IsBrightness(s)
  BY <1>2, StepKinds, HidLevelRange DEF HidLamp, Lamps
<1>3. CASE ~IsMode(s) /\ ~IsBrightness(s)
  <2>1. s.keys[FirstKey(DOMAIN s.keys)] \in AnyColour
    BY <1>3, StepKinds, FirstColour
  <2> QED BY <1>3, <2>1 DEF HidLamp, Lamps
<1> QED BY <1>1, <1>2, <1>3

\* The driver's cached fields keep their types.
LEMMA LedTyped ==
  ASSUME led \in Leds, NEW s \in Steps, Valid(s), backend # "hid"
  PROVE  LedAfter(s) \in Leds
<1>1. CASE IsMode(s)
  <2>1. /\ s.mode \in {"off", "static"} /\ led.level \in 0..191
        /\ (IF s.mode = "off" THEN 0 ELSE led.level) \in 0..191
    BY <1>1, StepKinds DEF Leds
  <2> QED BY <1>1, <2>1 DEF LedAfter, Leds
<1>2. CASE IsBrightness(s)
  <2>1. EcLevel(s.brightness) \in 0..191
    BY <1>2, StepKinds, EcLevelRange DEF Valid
  <2> QED BY <1>2, <2>1, StepKinds DEF LedAfter, Leds
<1>3. CASE ~IsMode(s) /\ ~IsBrightness(s)
  BY <1>3, StepKinds DEF LedAfter, Leds
<1> QED BY <1>1, <1>2, <1>3

\* Whatever a step makes of the device, and a refused one too.
LEMMA DeviceTyped ==
  ASSUME lamp \in Lamps, led \in Leds, NEW s \in Steps,
         (Valid(s) /\ Accepts(s)) \/ Refuses(s)
  PROVE  lamp' \in Lamps /\ led' \in Leds
<1>1. CASE Valid(s) /\ Accepts(s) /\ backend = "hid"
  BY <1>1, HidLampTyped DEF Accepts
<1>2. CASE Valid(s) /\ Accepts(s) /\ backend # "hid"
  <2>1. EcCommands(s) \in Seq(Commands)
    BY <1>2, EcCommandsTyped
  <2>2. Len(EcCommands(s)) \in 0..Len(EcCommands(s))
    BY <2>1, LenProperties
  <2>3. Lamp(EcCommands(s), Len(EcCommands(s))) \in Lamps
    BY <2>1, <2>2, LampTyped
  <2> QED BY <1>2, <2>3, LedTyped DEF Accepts
<1>3. CASE Refuses(s)
  <2>1. CASE backend = "acpi" /\ Valid(s)
    <3>1. PICK n \in 0..Len(EcCommands(s)) - 1 : lamp' = Lamp(EcCommands(s), n)
      BY <1>3, <2>1 DEF Refuses
    <3>2. EcCommands(s) \in Seq(Commands)
      BY <2>1, EcCommandsTyped
    <3>3. n \in 0..Len(EcCommands(s))
      BY <3>2, LenProperties
    <3> QED BY <1>3, <3>1, <3>2, <3>3, LampTyped DEF Refuses
  <2>2. CASE ~(backend = "acpi" /\ Valid(s))
    BY <1>3, <2>2 DEF Refuses
  <2> QED BY <2>1, <2>2
<1> QED BY <1>1, <1>2, <1>3

\* The snapshot keeps its type.
LEMMA RecordedTyped ==
  ASSUME cache \in Caches, NEW s \in Steps, Valid(s)
  PROVE  Recorded(cache, s) \in Caches
<1>1. CASE IsMode(s)
  BY <1>1, StepKinds DEF Recorded, Caches
<1>2. CASE IsBrightness(s)
  BY <1>2, StepKinds DEF Recorded, Caches, Valid
<1>3. CASE IsKeys(s)
  <2>1. s.keys[FirstKey(DOMAIN s.keys)] \in AnyColour
    BY <1>3, StepKinds, FirstColour
  <2> QED BY <1>3, <2>1, StepKinds DEF Recorded, Caches
<1>4. CASE ~IsMode(s) /\ ~IsBrightness(s) /\ ~IsKeys(s)
  BY <1>4, StepKinds DEF Recorded, Caches
<1> QED BY <1>1, <1>2, <1>3, <1>4

\* A snapshot is drawn as a section of the file.
LEMMA SectionTyped ==
  ASSUME cache \in Caches
  PROVE  Section(cache) \in Sections
<1> DEFINE lit == {k \in Keys : cache.keys[k] # Black}
<1>1. [k \in lit |-> cache.keys[k]] \in [lit -> Colours] /\ lit \in SUBSET Keys
  BY DEF Caches, AnyColour
<1>2. Section(cache) = [mode |-> cache.mode, brightness |-> cache.brightness,
                        keys |-> [k \in lit |-> cache.keys[k]]]
  BY DEF Section
<1> QED BY <1>1, <1>2 DEF Sections, Caches

\* The steps of a replay are steps.
LEMMA ReplayTyped ==
  ASSUME NEW saved \in Sections, backend # "none", backend \in KbBackends
  PROVE  ReplaySteps(saved) \in Seq(Steps) /\ ReplaySteps(saved) # <<>>
<1>1. PICK K \in SUBSET Keys : saved.keys \in [K -> Colours]
  BY DEF Sections
<1>2. ModeStep(saved.mode) \in Steps /\ BrightnessStep(saved.brightness) \in Steps
  BY DEF Sections, Steps
<1>3. ColourSteps(saved) \in Seq(Steps)
  <2>1. CASE K = {}
    BY <1>1, <2>1 DEF ColourSteps
  <2>2. CASE K # {} /\ backend = "hid"
    <3>1. saved.keys \in Colourings
      BY <1>1, <2>2 DEF Colourings, AnyColour
    <3>2. KeysStep(saved.keys) \in Steps
      BY <2>2, <3>1 DEF Steps
    <3> QED BY <1>1, <2>2, <3>2 DEF ColourSteps
  <2>3. CASE K # {} /\ backend # "hid"
    <3>1. saved.keys[FirstKey(K)] \in AnyColour
      BY <1>1, <2>3, FirstKeyIn DEF AnyColour
    <3>2. ChannelStep(saved.keys[FirstKey(K)]) \in Steps
      BY <2>3, <3>1 DEF Steps
    <3> QED BY <1>1, <2>3, <3>2 DEF ColourSteps
  <2> QED BY <2>1, <2>2, <2>3
<1>4. <<ModeStep(saved.mode), BrightnessStep(saved.brightness)>> \in Seq(Steps)
      /\ <<BrightnessStep(saved.brightness), ModeStep(saved.mode)>> \in Seq(Steps)
  BY <1>2, ShortSequences
<1>5. /\ Len(<<ModeStep(saved.mode), BrightnessStep(saved.brightness)>>) = 2
      /\ Len(<<BrightnessStep(saved.brightness), ModeStep(saved.mode)>>) = 2
  OBVIOUS
<1>6. ReplaySteps(saved) \in Seq(Steps) /\ Len(ReplaySteps(saved)) = Len(ColourSteps(saved)) + 2
  BY <1>3, <1>4, <1>5, ConcatProperties, LenProperties DEF ReplaySteps
<1> QED BY <1>3, <1>6, LenProperties, EmptySeq

-----------------------------------------------------------------------------
(* Every step keeps the types.                                               *)

\* The types hold at first.
LEMMA KbdTypesInitially == KbdInit => KbdTypeInv
<1>1. SUFFICES ASSUME KbdInit PROVE KbdTypeInv
  OBVIOUS
<1>2. FlagTypes
  BY <1>1 DEF KbdInit, Stopped, FlagTypes
<1>3. DeviceTypes
  BY <1>1 DEF KbdInit, FreshLamp, FreshLed, DeviceTypes, Lamps, Leds
<1>4. SavesTypes
  BY <1>1, KbdConfigured DEF KbdInit, Stopped, FreshCache, SavesTypes, Caches, AnyColour
<1>5. Busy /\ DOMAIN todo = Threads /\ todo = [t \in Threads |-> todo[t]]
  BY <1>1, EmptySeq DEF KbdInit, Stopped, NoThreads, NoSteps, Busy, Threads
<1> QED
  BY <1>1, <1>2, <1>3, <1>4, <1>5 DEF KbdInit, Stopped, NoThreads, KbdTypeInv, ControlTypes, Threads

\* A step by one thread leaves the others what they have to do.
LEMMA BusyKept ==
  ASSUME KbdTypeInv, NEW t \in Threads, backend' = backend,
         \A u \in Threads \ {t} : todo'[u] = todo[u] /\ at'[u] = at[u],
         todo'[t] \in Seq(Steps),
         at'[t] \in {"send", "record"} => todo'[t] # <<>>,
         at'[t] = "record" => Valid(Head(todo'[t]))
  PROVE  Busy'
<1>1. Steps' = Steps
  BY DEF Steps
<1> QED BY <1>1 DEF KbdTypeInv, Busy, Valid, IsBrightness

\* Where a thread is to be, given what it has left to do.
LEMMA StepsKept ==
  ASSUME KbdTypeInv, backend' = backend, todo' = todo, at' = at
  PROVE  Busy'
<1>1. Steps' = Steps
  BY DEF Steps
<1> QED BY <1>1 DEF KbdTypeInv, Busy, Valid, IsBrightness

\* A setter that begins keeps the types.
LEMMA BeginTypes ==
  ASSUME KbdTypeInv, NEW t \in Setters, NEW steps \in Seq(Steps), Begin(t, steps)
  PROVE  KbdTypeInv'
<1>1. FlagTypes' /\ DeviceTypes' /\ SavesTypes'
  BY DEF Begin, device, saves, KbdTypeInv, FlagTypes, DeviceTypes, SavesTypes
<1>2. /\ at'[t] = (IF steps = <<>> THEN "draft" ELSE "send") /\ todo'[t] = steps
      /\ \A u \in Threads \ {t} : todo'[u] = todo[u] /\ at'[u] = at[u]
      /\ DOMAIN todo' = Threads /\ todo' = [u \in Threads |-> todo'[u]]
  BY DEF Begin, KbdTypeInv, ControlTypes, Threads
<1>3. Busy'
  BY <1>2, BusyKept DEF Begin, Threads
<1>4. ControlTypes'
  BY DEF Begin, KbdTypeInv, ControlTypes, Threads
<1> QED BY <1>1, <1>2, <1>3, <1>4 DEF KbdTypeInv

\* What the setters begin with is steps.
LEMMA SetterSteps ==
  ASSUME KbdTypeInv, NEW t \in Setters,
         \/ SetKeyboardMode(t) \/ SetKeyboardBrightness(t) \/ SetKeyboardZone(t)
         \/ SetKeyboardKey(t) \/ SetSomethingElse(t)
  PROVE  \E steps \in Seq(Steps) : Begin(t, steps)
<1>1. CASE SetKeyboardMode(t)
  <2>1. \A m \in {"off", "static"} : ModeStep(m) \in Steps
    BY <1>1 DEF SetKeyboardMode, Steps
  <2>2. \A m \in {"off", "static"} : <<ModeStep(m)>> \in Seq(Steps)
    BY <2>1, ShortSequences
  <2> QED BY <1>1, <2>2 DEF SetKeyboardMode
<1>2. CASE SetKeyboardBrightness(t)
  <2>1. \A p \in Percents : BrightnessStep(p) \in Steps
    BY <1>2, KbdConfigured DEF SetKeyboardBrightness, Steps
  <2>2. \A p \in Percents : <<BrightnessStep(p)>> \in Seq(Steps)
    BY <2>1, ShortSequences
  <2> QED BY <1>2, <2>2 DEF SetKeyboardBrightness
<1>3. ASSUME backend # "none", NEW z \in (SUBSET Keys) \ {{}}, NEW c \in AnyColour
      PROVE  ZoneSteps(z, c) \in Seq(Steps)
  <2>1. CASE backend = "acpi"
    BY <1>3, <2>1 DEF ZoneSteps, Steps
  <2>2. CASE backend # "acpi"
    <3>1. [k \in z |-> c] \in Colourings
      BY <1>3 DEF Colourings
    <3>2. backend = "hid"
      BY <1>3, <2>2, KbdConfigured DEF KbdTypeInv, ControlTypes
    <3>3. KeysStep([k \in z |-> c]) \in Steps
      BY <1>3, <3>1, <3>2 DEF Steps
    <3> QED BY <2>2, <3>3 DEF ZoneSteps
  <2> QED BY <2>1, <2>2
<1>4. CASE SetKeyboardZone(t)
  BY <1>3, <1>4, KbdConfigured DEF SetKeyboardZone
<1>5. CASE SetKeyboardKey(t)
  BY <1>3, <1>5 DEF SetKeyboardKey
<1>6. CASE SetSomethingElse(t)
  BY <1>6, EmptySeq DEF SetSomethingElse
<1> QED BY <1>1, <1>2, <1>4, <1>5, <1>6

\* A thread's next step keeps the types.
LEMMA ThreadTypes ==
  ASSUME KbdTypeInv, ThreadsPlaced, NEW t \in Threads, KbdThread(t)
  PROVE  KbdTypeInv'
<1> DEFINE s == Head(todo[t])
<1>1. at[t] \in {"send", "record"} => s \in Steps /\ Further(todo[t]) \in Seq(Steps)
  BY FurtherTyped DEF KbdTypeInv, Busy
<1>2. CASE Send(t)
  <2>1. FlagTypes' /\ SavesTypes'
    BY <1>2 DEF Send, fixed, saves, KbdTypeInv, FlagTypes, SavesTypes
  <2>2. DeviceTypes'
    BY <1>1, <1>2, DeviceTyped DEF Send, KbdTypeInv, DeviceTypes
  <2>3. Busy'
    BY <1>2, BusyKept DEF Send, fixed, KbdTypeInv, ControlTypes, Busy
  <2> QED BY <1>2, <2>1, <2>2, <2>3 DEF Send, fixed, KbdTypeInv, ControlTypes
<1>3. CASE SendFails(t)
  <2>1. FlagTypes' /\ SavesTypes'
    BY <1>3 DEF SendFails, fixed, saves, KbdTypeInv, FlagTypes, SavesTypes
  <2>2. DeviceTypes'
    BY <1>1, <1>3, DeviceTyped DEF SendFails, KbdTypeInv, DeviceTypes
  <2>3. /\ todo'[t] \in Seq(Steps) /\ at'[t] = (IF todo'[t] = <<>> THEN "idle" ELSE "send")
        /\ \A u \in Threads \ {t} : todo'[u] = todo[u] /\ at'[u] = at[u]
        /\ DOMAIN todo' = Threads /\ todo' = [u \in Threads |-> todo'[u]]
    BY <1>1, <1>3, EmptySeq DEF SendFails, KbdTypeInv, ControlTypes
  <2>4. Busy'
    BY <1>3, <2>3, BusyKept DEF SendFails, fixed
  <2> QED BY <1>3, <2>1, <2>2, <2>3, <2>4 DEF SendFails, fixed, KbdTypeInv, ControlTypes
<1>4. CASE Record(t)
  <2>1. FlagTypes' /\ DeviceTypes'
    BY <1>4 DEF Record, fixed, device, KbdTypeInv, FlagTypes, DeviceTypes
  <2>2. SavesTypes'
    BY <1>1, <1>4, RecordedTyped DEF Record, saves, KbdTypeInv, SavesTypes, Busy
  <2>3. /\ todo'[t] \in Seq(Steps)
        /\ at'[t] = (IF todo'[t] # <<>> THEN "send" ELSE IF t = Starter THEN "idle" ELSE "draft")
        /\ \A u \in Threads \ {t} : todo'[u] = todo[u] /\ at'[u] = at[u]
        /\ DOMAIN todo' = Threads /\ todo' = [u \in Threads |-> todo'[u]]
    BY <1>1, <1>4 DEF Record, KbdTypeInv, ControlTypes
  <2>4. Busy'
    BY <1>4, <2>3, BusyKept DEF Record, fixed
  <2> QED BY <1>4, <2>1, <2>2, <2>3, <2>4 DEF Record, fixed, KbdTypeInv, ControlTypes
<1>5. CASE DraftSave(t)
  <2>1. FlagTypes' /\ DeviceTypes'
    BY <1>5 DEF DraftSave, fixed, device, KbdTypeInv, FlagTypes, DeviceTypes
  <2>2. SavesTypes'
    <3>1. t \in Setters
      BY <1>5 DEF DraftSave, ThreadsPlaced, Threads
    <3>2. Draft \in Sections \cup {NoSection}
      BY SectionTyped DEF Draft, KbdTypeInv, SavesTypes
    <3> QED BY <1>5, <3>1, <3>2 DEF DraftSave, KbdTypeInv, SavesTypes
  <2>3. Busy'
    BY <1>5, BusyKept DEF DraftSave, fixed, KbdTypeInv, ControlTypes, Busy
  <2> QED BY <1>5, <2>1, <2>2, <2>3 DEF DraftSave, fixed, KbdTypeInv, ControlTypes
<1>6. CASE SaveSection(t)
  <2>1. FlagTypes' /\ DeviceTypes'
    BY <1>6 DEF SaveSection, fixed, device, KbdTypeInv, FlagTypes, DeviceTypes
  <2>2. SavesTypes'
    BY <1>6 DEF SaveSection, KbdTypeInv, SavesTypes
  <2>3. Busy'
    BY <1>6, BusyKept DEF SaveSection, fixed, KbdTypeInv, ControlTypes, Busy
  <2> QED BY <1>6, <2>1, <2>2, <2>3 DEF SaveSection, fixed, KbdTypeInv, ControlTypes
<1> QED BY <1>2, <1>3, <1>4, <1>5, <1>6 DEF KbdThread

\* Every step keeps the types.
LEMMA KbdTypesStep == KbdTypeInv /\ ThreadsPlaced /\ [KbdNext]_kbdVars => KbdTypeInv'
<1>1. SUFFICES ASSUME KbdTypeInv, ThreadsPlaced, [KbdNext]_kbdVars PROVE KbdTypeInv'
  OBVIOUS
<1>2. CASE KbdStart
  <2>1. FlagTypes' /\ DeviceTypes' /\ SavesTypes'
    BY <1>1, <1>2 DEF KbdStart, fixed, device, KbdTypeInv, FlagTypes, DeviceTypes, SavesTypes
  <2>2. /\ \A u \in Threads \ {Starter} : todo'[u] = todo[u] /\ at'[u] = at[u]
        /\ todo'[Starter] = (IF Replays(section) THEN ReplaySteps(section) ELSE <<>>)
        /\ at'[Starter] = (IF Replays(section) THEN "send" ELSE "idle")
        /\ DOMAIN todo' = Threads /\ todo' = [u \in Threads |-> todo'[u]]
    BY <1>1, <1>2 DEF KbdStart, KbdTypeInv, ControlTypes, Threads
  <2>3. Replays(section) => ReplaySteps(section) \in Seq(Steps) /\ ReplaySteps(section) # <<>>
    BY <1>1, ReplayTyped DEF Replays, KbdTypeInv, SavesTypes, ControlTypes
  <2>4. Busy'
    BY <1>1, <1>2, <2>2, <2>3, BusyKept, EmptySeq DEF KbdStart, fixed, Threads
  <2> QED BY <1>1, <1>2, <2>1, <2>2, <2>4 DEF KbdStart, fixed, KbdTypeInv, ControlTypes
<1>3. CASE ReplayDone \/ KbdServe
  <2>1. FlagTypes' /\ DeviceTypes' /\ SavesTypes'
    BY <1>1, <1>3 DEF ReplayDone, KbdServe, fixed, device, saves, KbdTypeInv, FlagTypes,
                      DeviceTypes, SavesTypes
  <2>2. Busy'
    BY <1>1, <1>3, StepsKept DEF ReplayDone, KbdServe, fixed
  <2> QED BY <1>1, <1>3, <2>1, <2>2 DEF ReplayDone, KbdServe, fixed, KbdTypeInv, ControlTypes
<1>4. CASE DesktopSetsLed
  <2>1. FlagTypes' /\ SavesTypes'
    BY <1>1, <1>4 DEF DesktopSetsLed, fixed, saves, KbdTypeInv, FlagTypes, SavesTypes
  <2>2. DeviceTypes'
    <3>0. PICK raw \in {0, 191} : \E commands :
            /\ commands \in {<<Level(0), Switch(FALSE), SleepTimer>>,
                             <<Switch(TRUE), Level(raw), SleepTimer>>}
            /\ \/ /\ lamp' = Lamp(commands, Len(commands))
                  /\ led' = [led EXCEPT !.level = raw, !.shown = raw] \/ led' = led
               \/ /\ \E n \in 0..Len(commands) - 1 : lamp' = Lamp(commands, n)
                  /\ UNCHANGED led
      BY <1>4 DEF DesktopSetsLed
    <3>1. PICK commands :
            /\ commands \in {<<Level(0), Switch(FALSE), SleepTimer>>,
                             <<Switch(TRUE), Level(raw), SleepTimer>>}
            /\ \/ /\ lamp' = Lamp(commands, Len(commands))
                  /\ led' = [led EXCEPT !.level = raw, !.shown = raw] \/ led' = led
               \/ /\ \E n \in 0..Len(commands) - 1 : lamp' = Lamp(commands, n)
                  /\ UNCHANGED led
      BY <3>0
    <3>2. Level(raw) \in Commands
      BY EveryCommand
    <3>3. commands \in Seq(Commands)
      <4>1. Level(0) \in Commands /\ Switch(FALSE) \in Commands /\ SleepTimer \in Commands
        BY EveryCommand
      <4>2. <<Level(0), Switch(FALSE), SleepTimer>> \in Seq(Commands)
        BY <4>1, ShortSequences
      <4>3. Switch(TRUE) \in Commands
        BY EveryCommand
      <4>4. <<Switch(TRUE), Level(raw), SleepTimer>> \in Seq(Commands)
        BY <3>2, <4>1, <4>3, ShortSequences
      <4> QED BY <3>1, <4>2, <4>4
    <3>4. \A n \in 0..Len(commands) : Lamp(commands, n) \in Lamps
      BY <1>1, <3>3, LampTyped DEF KbdTypeInv, DeviceTypes
    <3>5. lamp' \in Lamps
      BY <3>1, <3>3, <3>4, LenProperties
    <3>6. led' \in Leds
      <4>1. led \in Leds /\ raw \in 0..191
        BY <1>1 DEF KbdTypeInv, DeviceTypes
      <4>2. [led EXCEPT !.level = raw, !.shown = raw] \in Leds
        BY <4>1 DEF Leds
      <4> QED BY <3>1, <4>1, <4>2
    <3> QED BY <3>5, <3>6 DEF DeviceTypes
  <2>3. Busy'
    BY <1>1, <1>4, StepsKept DEF DesktopSetsLed, fixed
  <2> QED BY <1>1, <1>4, <2>1, <2>2, <2>3 DEF DesktopSetsLed, fixed, KbdTypeInv, ControlTypes
<1>5. CASE KbdKilled
  <2>1. FlagTypes'
    BY <1>1, <1>5 DEF KbdKilled, fixed, KbdTypeInv, FlagTypes
  <2>2. DeviceTypes'
    <3>1. FreshLamp \in Lamps /\ FreshLed \in Leds
      BY DEF FreshLamp, FreshLed, Lamps, Leds
    <3> QED BY <1>1, <1>5, <3>1 DEF KbdKilled, device, KbdTypeInv, DeviceTypes
  <2>3. SavesTypes'
    BY <1>1, <1>5 DEF KbdKilled, FreshCache, KbdTypeInv, SavesTypes, Caches, AnyColour
  <2>4. Busy' /\ DOMAIN todo' = Threads /\ todo' = [t \in Threads |-> todo'[t]]
    BY <1>5, EmptySeq DEF KbdKilled, NoThreads, NoSteps, Busy, Threads
  <2> QED
    BY <1>1, <1>5, <2>1, <2>2, <2>3, <2>4
       DEF KbdKilled, fixed, NoThreads, KbdTypeInv, ControlTypes, Threads
<1>6. CASE UNCHANGED kbdVars
  <2>1. Busy'
    BY <1>1, <1>6, StepsKept DEF kbdVars
  <2> QED BY <1>1, <1>6, <2>1 DEF kbdVars, KbdTypeInv, FlagTypes, DeviceTypes, SavesTypes,
                                  ControlTypes
<1> QED
  BY <1>1, <1>2, <1>3, <1>4, <1>5, <1>6, SetterSteps, BeginTypes, ThreadTypes DEF KbdNext, Threads

(* Type correctness of the keyboard's state -- the device's levels, colours   *)
(* and switches, the kernel's cache, the snapshot and the sections -- for any *)
(* keys, zones, colours, setters and sections (keyboard_rgb_store,            *)
(* clevo-cc.c:841; keyboard.rs).                                              *)
THEOREM KbdTypes == KbdSpec => []KbdTypeOK
<1>1. KbdIInv => ThreadsPlaced
  BY DEF KbdIInv
<1>2. KbdTypeInv => KbdTypeOK
  BY DEF KbdTypeInv, KbdTypeOK, FlagTypes, DeviceTypes, SavesTypes, ControlTypes, Lamps, Leds,
         Caches, Threads
<1> QED
  BY <1>1, <1>2, KbdInitially, KbdStep, KbdTypesInitially, KbdTypesStep, PTL DEF KbdSpec

-----------------------------------------------------------------------------
(* What the EC's commands make of the channel.                               *)

\* A register has the value the last command to it gave it.
LEMMA LampValue ==
  ASSUME lamp \in Lamps, NEW commands, NEW n \in Nat, NEW i \in 1..n,
         commands[i].reg \in {"on", "level", "keys"},
         \A j \in 1..n : commands[j].reg = commands[i].reg => j <= i
  PROVE  Lamp(commands, n)[commands[i].reg] = commands[i].to
<1> DEFINE r == commands[i].reg
           hit == {j \in 1..n : commands[j].reg = r}
<1>1. hit \in SUBSET (1..n) /\ i \in hit
  OBVIOUS
<1>2. Max(hit) \in hit /\ \A j \in hit : Max(hit) >= j
  BY <1>1, MaxOfPositions
<1>3. Max(hit) = i
  BY <1>1, <1>2
<1>4. DOMAIN lamp = {"on", "level", "keys"}
  BY DEF Lamps
<1> QED BY <1>1, <1>3, <1>4 DEF Lamp

\* A register to which no command goes keeps its value.
LEMMA LampKept ==
  ASSUME lamp \in Lamps, NEW commands, NEW n \in Nat, NEW r \in {"on", "level", "keys"},
         \A j \in 1..n : commands[j].reg # r
  PROVE  Lamp(commands, n)[r] = lamp[r]
<1>1. {j \in 1..n : commands[j].reg = r} = {}
  OBVIOUS
<1>2. DOMAIN lamp = {"on", "level", "keys"}
  BY DEF Lamps
<1> QED BY <1>1, <1>2 DEF Lamp

\* The register a command writes, and the value it writes.
LEMMA Registers ==
  /\ Switch(TRUE).reg = "on" /\ Switch(FALSE).reg = "on"
  /\ \A raw : Level(raw).reg = "level" /\ Level(raw).to = raw
  /\ \A c : Colour(c).reg = "keys" /\ Colour(c).to = [k \in Keys |-> c]
  /\ SleepTimer.reg = "timer"
BY DEF Switch, Level, Colour, SleepTimer

\* The switch of mode off is off.
LEMMA Switched == Switch(TRUE).to /\ ~Switch(FALSE).to
BY DEF Switch

\* Short sequences put together.
LEMMA Joined ==
  ASSUME NEW a, NEW b, NEW c
  PROVE  /\ <<>> \o <<a, b>> = <<a, b>> /\ <<a>> \o <<b, c>> = <<a, b, c>>
         /\ <<a, b>> \o <<c>> = <<a, b, c>> /\ <<a, b>> \o <<>> \o <<c>> = <<a, b, c>>
<1> DEFINE S == {a, b, c}
<1>1. <<>> \in Seq(S) /\ <<a>> \in Seq(S) /\ <<a, b>> \in Seq(S) /\ <<c>> \in Seq(S)
      /\ <<b, c>> \in Seq(S) /\ <<a, b, c>> \in Seq(S)
  OBVIOUS
<1>2. /\ Len(<<>>) = 0 /\ Len(<<a>>) = 1 /\ Len(<<c>>) = 1
      /\ Len(<<a, b>>) = 2 /\ Len(<<b, c>>) = 2
      /\ Len(<<a, b, c>>) = 3
  OBVIOUS
<1>3. <<>> \o <<a, b>> = <<a, b>>
  BY <1>1, ConcatEmptySeq
<1>4. <<a>> \o <<b, c>> = <<a, b, c>>
  <2> DEFINE s == <<a>> \o <<b, c>>
  <2>1. s \in Seq(S) /\ Len(s) = 3
    BY <1>1, <1>2, ConcatProperties
  <2>2. s[1] = a /\ s[2] = b /\ s[3] = c
    BY <1>1, <1>2, ConcatProperties
  <2>3. \A i \in 1..3 : s[i] = <<a, b, c>>[i]
    <3> HIDE DEF s
    <3>1. \A i \in 1..3 : i = 1 \/ i = 2 \/ i = 3
      OBVIOUS
    <3> QED BY <2>2, <3>1
  <2> HIDE DEF s
  <2>4. s = <<a, b, c>>
    BY <1>1, <1>2, <2>1, <2>3, SeqEqual
  <2> QED BY <2>4 DEF s
<1>5. <<a, b>> \o <<c>> = <<a, b, c>>
  <2> DEFINE s == <<a, b>> \o <<c>>
  <2>1. s \in Seq(S) /\ Len(s) = 3
    BY <1>1, <1>2, ConcatProperties
  <2>2. s[1] = a /\ s[2] = b /\ s[3] = c
    BY <1>1, <1>2, ConcatProperties
  <2>3. \A i \in 1..3 : s[i] = <<a, b, c>>[i]
    <3> HIDE DEF s
    <3>1. \A i \in 1..3 : i = 1 \/ i = 2 \/ i = 3
      OBVIOUS
    <3> QED BY <2>2, <3>1
  <2> HIDE DEF s
  <2>4. s = <<a, b, c>>
    BY <1>1, <1>2, <2>1, <2>3, SeqEqual
  <2> QED BY <2>4 DEF s
<1>6. <<a, b>> \o <<>> = <<a, b>>
  BY <1>1, ConcatEmptySeq
<1> QED BY <1>3, <1>4, <1>5, <1>6

\* Two, one and one command in a row are four.
LEMMA FourJoined ==
  ASSUME NEW a, NEW b, NEW c, NEW d
  PROVE  <<a, b>> \o <<c>> \o <<d>> = <<a, b, c, d>>
<1> DEFINE S == {a, b, c, d}
<1>1. <<a, b, c>> \in Seq(S) /\ <<d>> \in Seq(S) /\ <<a, b, c, d>> \in Seq(S)
  OBVIOUS
<1>2. Len(<<a, b, c>>) = 3 /\ Len(<<d>>) = 1 /\ Len(<<a, b, c, d>>) = 4
  OBVIOUS
<1>3. <<a, b>> \o <<c>> = <<a, b, c>>
  BY Joined
<1>4. <<a, b, c>> \o <<d>> = <<a, b, c, d>>
  <2> DEFINE s == <<a, b, c>> \o <<d>>
  <2>1. s \in Seq(S) /\ Len(s) = 4
    BY <1>1, <1>2, ConcatProperties
  <2>2. s[1] = a /\ s[2] = b /\ s[3] = c /\ s[4] = d
    BY <1>1, <1>2, ConcatProperties
  <2>3. \A i \in 1..4 : s[i] = <<a, b, c, d>>[i]
    <3> HIDE DEF s
    <3>1. \A i \in 1..4 : i = 1 \/ i = 2 \/ i = 3 \/ i = 4
      OBVIOUS
    <3> QED BY <2>2, <3>1
  <2> HIDE DEF s
  <2>4. s = <<a, b, c, d>>
    BY <1>1, <1>2, <2>1, <2>3, SeqEqual
  <2> QED BY <2>4 DEF s
<1> QED BY <1>3, <1>4

\* What the EC shows once the commands of a step have been carried out.
LEMMA OffEffect ==
  ASSUME lamp \in Lamps, NEW s, IsMode(s), s.mode = "off"
  PROVE  LET after == Lamp(EcCommands(s), Len(EcCommands(s)))
         IN  ~after.on /\ after.keys = lamp.keys
<1> DEFINE commands == <<Level(0), Switch(FALSE), SleepTimer>>
<1>1. EcCommands(s) = commands /\ Len(commands) = 3
  BY DEF EcCommands
<1>2. commands[1].reg = "level" /\ commands[2].reg = "on" /\ commands[3].reg = "timer"
  BY Registers
<1>3. ~commands[2].to
  BY Switched
<1> HIDE DEF commands
<1>4. Lamp(commands, 3)["on"] = commands[2].to
  <2>1. \A j \in 1..3 : commands[j].reg = commands[2].reg => j <= 2
    BY <1>2
  <2> QED BY <1>2, <2>1, LampValue
<1>5. Lamp(commands, 3)["keys"] = lamp["keys"]
  <2>1. \A j \in 1..3 : commands[j].reg # "keys"
    <3>1. \A j \in 1..3 : j = 1 \/ j = 2 \/ j = 3
      OBVIOUS
    <3> QED BY <1>2, <3>1
  <2> QED BY <2>1, LampKept
<1> QED
  <2>1. ~Lamp(commands, 3).on
    BY <1>3, <1>4
  <2> QED BY <1>1, <1>5, <2>1

\* A brightness changes the level, and never switches the lamp on.
LEMMA BrightnessEffect ==
  ASSUME lamp \in Lamps, NEW s, IsBrightness(s), ~IsMode(s)
  PROVE  LET after == Lamp(EcCommands(s), Len(EcCommands(s)))
         IN  /\ after.level = EcLevel(s.brightness) /\ after.keys = lamp.keys
             /\ ~lamp.on => ~after.on
<1> DEFINE second == IF s.brightness = 0 THEN Switch(FALSE) ELSE SleepTimer
           commands == <<Level(EcLevel(s.brightness)), second>>
<1>1. EcCommands(s) = commands /\ Len(commands) = 2
  BY DEF EcCommands, EcBrightness
<1>2. commands[1].reg = "level" /\ commands[1].to = EcLevel(s.brightness)
  BY Registers
<1>3. (commands[2].reg = "on" /\ ~commands[2].to) \/ commands[2].reg = "timer"
  <2>1. commands[2] = second
    OBVIOUS
  <2>2. (second.reg = "on" /\ ~second.to) \/ second.reg = "timer"
    BY Registers, Switched
  <2> QED BY <2>1, <2>2
<1> HIDE DEF commands
<1>4. \A j \in 1..2 : j = 1 \/ j = 2
  OBVIOUS
<1>5. Lamp(commands, 2)["level"] = commands[1].to
  <2>1. \A j \in 1..2 : commands[j].reg = commands[1].reg => j <= 1
    BY <1>2, <1>3, <1>4
  <2> QED BY <1>2, <2>1, LampValue
<1>6. Lamp(commands, 2)["keys"] = lamp["keys"]
  <2>1. \A j \in 1..2 : commands[j].reg # "keys"
    BY <1>2, <1>3, <1>4
  <2> QED BY <2>1, LampKept
<1>7. ~lamp.on => ~Lamp(commands, 2).on
  <2>1. CASE commands[2].reg = "on" /\ ~commands[2].to
    <3>1. Lamp(commands, 2)["on"] = commands[2].to
      <4>1. \A j \in 1..2 : commands[j].reg = commands[2].reg => j <= 2
        OBVIOUS
      <4> QED BY <2>1, <4>1, LampValue
    <3> QED BY <2>1, <3>1
  <2>2. CASE commands[2].reg = "timer"
    <3>1. \A j \in 1..2 : commands[j].reg # "on"
      BY <1>2, <1>4, <2>2
    <3>2. Lamp(commands, 2)["on"] = lamp["on"]
      BY <3>1, LampKept
    <3> QED BY <3>2
  <2> QED BY <1>3, <2>1, <2>2
<1> QED BY <1>1, <1>2, <1>5, <1>6, <1>7

\* A colour reaches every key, and nothing else changes.
LEMMA ChannelEffect ==
  ASSUME lamp \in Lamps, NEW s, ~IsBrightness(s), ~IsMode(s)
  PROVE  LET after == Lamp(EcCommands(s), Len(EcCommands(s)))
         IN  /\ after.keys = [k \in Keys |-> s.channel]
             /\ after.on = lamp.on /\ after.level = lamp.level
<1>1. ASSUME NEW commands, NEW n \in Nat, n >= 2,
             commands[n - 1] = Colour(s.channel), commands[n] = SleepTimer,
             \A j \in 1..n : commands[j].reg \in {"keys", "timer"}
      PROVE  /\ Lamp(commands, n).keys = [k \in Keys |-> s.channel]
             /\ Lamp(commands, n).on = lamp.on /\ Lamp(commands, n).level = lamp.level
  <2>1. commands[n - 1].reg = "keys" /\ commands[n - 1].to = [k \in Keys |-> s.channel]
        /\ commands[n].reg = "timer"
    <3>1. /\ Colour(s.channel).reg = "keys" /\ Colour(s.channel).to = [k \in Keys |-> s.channel]
          /\ SleepTimer.reg = "timer"
      BY Registers
    <3> QED BY ONLY <1>1, <3>1
  <2>2. n - 1 \in 1..n /\ \A j \in 1..n : commands[j].reg = commands[n - 1].reg => j <= n - 1
    <3>1. \A j \in 1..n : j = n \/ j <= n - 1
      OBVIOUS
    <3> QED BY <1>1, <2>1, <3>1
  <2>3. Lamp(commands, n)["keys"] = commands[n - 1].to
    BY <2>1, <2>2, LampValue
  <2>4. \A j \in 1..n : commands[j].reg # "on" /\ commands[j].reg # "level"
    BY <1>1
  <2>5. Lamp(commands, n)["on"] = lamp["on"]
    BY <2>4, LampKept
  <2>6. Lamp(commands, n)["level"] = lamp["level"]
    BY <2>4, LampKept
  <2> QED BY <2>1, <2>3, <2>5, <2>6
<1>2. CASE led.colour \in {NoColour, s.channel}
  <2> DEFINE commands == <<Colour(s.channel), SleepTimer>>
  <2>1. EcCommands(s) = <<>> \o commands
    BY <1>2 DEF EcCommands
  <2>2. EcCommands(s) = commands /\ Len(commands) = 2
    BY <2>1, Joined
  <2>3. commands[1] = Colour(s.channel) /\ commands[2] = SleepTimer
    OBVIOUS
  <2> HIDE DEF commands
  <2>4. \A j \in 1..2 : commands[j].reg \in {"keys", "timer"}
    <3>1. \A j \in 1..2 : j = 1 \/ j = 2
      OBVIOUS
    <3> QED BY <2>3, <3>1, Registers
  <2> QED BY <1>1, <2>2, <2>3, <2>4
<1>3. CASE led.colour \notin {NoColour, s.channel}
  <2> DEFINE commands == <<Colour(Between), Colour(s.channel), SleepTimer>>
  <2>1. EcCommands(s) = <<Colour(Between)>> \o <<Colour(s.channel), SleepTimer>>
    BY <1>3 DEF EcCommands
  <2>2. EcCommands(s) = commands /\ Len(commands) = 3
    BY <2>1, Joined
  <2>3. commands[1] = Colour(Between) /\ commands[2] = Colour(s.channel)
        /\ commands[3] = SleepTimer
    OBVIOUS
  <2> HIDE DEF commands
  <2>4. \A j \in 1..3 : commands[j].reg \in {"keys", "timer"}
    <3>1. \A j \in 1..3 : j = 1 \/ j = 2 \/ j = 3
      OBVIOUS
    <3> QED BY <2>3, <3>1, Registers
  <2> QED BY <1>1, <2>2, <2>3, <2>4
<1> QED BY <1>2, <1>3

\* Mode static switches on and puts the cached level and colour back.
LEMMA StaticEffect ==
  ASSUME lamp \in Lamps, NEW s, IsMode(s), s.mode # "off"
  PROVE  LET after == Lamp(EcCommands(s), Len(EcCommands(s)))
         IN  /\ after.on /\ after.level = led.level
             /\ after.keys = IF led.colour = NoColour THEN lamp.keys
                             ELSE [k \in Keys |-> led.colour]
<1>1. Switch(TRUE).to
  BY Switched
<1>2. CASE led.colour = NoColour
  <2> DEFINE commands == <<Switch(TRUE), Level(led.level), SleepTimer>>
  <2>1. EcCommands(s) = <<Switch(TRUE), Level(led.level)>> \o <<>> \o <<SleepTimer>>
    BY <1>2 DEF EcCommands
  <2>2. EcCommands(s) = commands /\ Len(commands) = 3
    BY <2>1, Joined
  <2>3. commands[1] = Switch(TRUE) /\ commands[2] = Level(led.level)
        /\ commands[3] = SleepTimer
    OBVIOUS
  <2> HIDE DEF commands
  <2>4. commands[1].reg = "on" /\ commands[2].reg = "level" /\ commands[2].to = led.level
        /\ commands[3].reg = "timer"
    BY <2>3, Registers
  <2>5. \A j \in 1..3 : j = 1 \/ j = 2 \/ j = 3
    OBVIOUS
  <2>6. Lamp(commands, 3)["on"] = commands[1].to
    <3>1. \A j \in 1..3 : commands[j].reg = commands[1].reg => j <= 1
      BY <2>4, <2>5
    <3> QED BY <2>4, <3>1, LampValue
  <2>7. Lamp(commands, 3)["level"] = commands[2].to
    <3>1. \A j \in 1..3 : commands[j].reg = commands[2].reg => j <= 2
      BY <2>4, <2>5
    <3> QED BY <2>4, <3>1, LampValue
  <2>8. Lamp(commands, 3)["keys"] = lamp["keys"]
    <3>1. \A j \in 1..3 : commands[j].reg # "keys"
      BY <2>4, <2>5
    <3> QED BY <3>1, LampKept
  <2>9. Lamp(commands, 3).on
    BY <1>1, <2>3, <2>6
  <2> QED BY <1>2, <2>2, <2>4, <2>7, <2>8, <2>9
<1>3. CASE led.colour # NoColour
  <2> DEFINE commands == <<Switch(TRUE), Level(led.level), Colour(led.colour), SleepTimer>>
  <2>1. EcCommands(s) = <<Switch(TRUE), Level(led.level)>> \o <<Colour(led.colour)>>
                        \o <<SleepTimer>>
    BY <1>3 DEF EcCommands
  <2>2. EcCommands(s) = commands /\ Len(commands) = 4
    <3>1. Len(commands) = 4
      OBVIOUS
    <3>2. <<Switch(TRUE), Level(led.level)>> \o <<Colour(led.colour)>> \o <<SleepTimer>> = commands
      BY FourJoined
    <3> QED BY <2>1, <3>1, <3>2
  <2>3. commands[1] = Switch(TRUE) /\ commands[2] = Level(led.level)
        /\ commands[3] = Colour(led.colour) /\ commands[4] = SleepTimer
    OBVIOUS
  <2> HIDE DEF commands
  <2>4. commands[1].reg = "on" /\ commands[2].reg = "level" /\ commands[2].to = led.level
        /\ commands[3].reg = "keys" /\ commands[3].to = [k \in Keys |-> led.colour]
        /\ commands[4].reg = "timer"
    <3>1. /\ Colour(led.colour).reg = "keys" /\ SleepTimer.reg = "timer"
          /\ Colour(led.colour).to = [k \in Keys |-> led.colour]
          /\ Level(led.level).reg = "level" /\ Level(led.level).to = led.level
          /\ Switch(TRUE).reg = "on"
      BY Registers
    <3> QED BY ONLY <2>3, <3>1
  <2>5. \A j \in 1..4 : j = 1 \/ j = 2 \/ j = 3 \/ j = 4
    OBVIOUS
  <2>6. Lamp(commands, 4)["on"] = commands[1].to
    <3>1. \A j \in 1..4 : commands[j].reg = commands[1].reg => j <= 1
      BY <2>4, <2>5
    <3> QED BY <2>4, <3>1, LampValue
  <2>7. Lamp(commands, 4)["level"] = commands[2].to
    <3>1. \A j \in 1..4 : commands[j].reg = commands[2].reg => j <= 2
      BY <2>4, <2>5
    <3> QED BY <2>4, <3>1, LampValue
  <2>8. Lamp(commands, 4)["keys"] = commands[3].to
    <3>1. \A j \in 1..4 : commands[j].reg = commands[3].reg => j <= 3
      BY <2>4, <2>5
    <3> QED BY <2>4, <3>1, LampValue
  <2>9. Lamp(commands, 4).on
    BY <1>1, <2>3, <2>6
  <2> QED BY <1>3, <2>2, <2>4, <2>7, <2>8, <2>9
<1> QED BY <1>2, <1>3

-----------------------------------------------------------------------------
(* A channel that was turned off stays dark.                                 *)

\* Calls that do not overlap: at most one is in flight.
OneAtATime ==
    ~overlap => \A t, u \in Setters : at[t] # "idle" /\ at[u] # "idle" => t = u

\* Dark is what the snapshot says, and what it will say once a step that the
\* device has accepted has been recorded.
DarkInv ==
    backend = "acpi" /\ ~overlap /\ ~disturbed =>
      /\ (\A t \in Threads : at[t] # "record") /\ cache.mode = "off" => ~lamp.on
      /\ \A t \in Threads :
           at[t] = "record" /\ Recorded(cache, Head(todo[t])).mode = "off" => ~lamp.on

Orderly == KbdIInv /\ KbdTypeInv /\ OneAtATime

\* Without overlapping calls one thread is at work.
LEMMA Alone ==
  ASSUME Orderly, ~overlap, NEW t \in Threads, at[t] # "idle"
  PROVE  \A u \in Threads \ {t} : at[u] = "idle"
BY DEF Orderly, KbdIInv, ThreadsPlaced, OneAtATime, Threads

\* Only a mode step changes the recorded mode.
LEMMA RecordedMode ==
  ASSUME cache \in Caches, NEW s \in Steps
  PROVE  Recorded(cache, s).mode = IF IsMode(s) THEN s.mode ELSE cache.mode
BY StepKinds DEF Recorded, Caches

\* What the EC accepts lights the channel only by turning it on.
LEMMA AcceptedDark ==
  ASSUME KbdTypeInv, backend = "acpi", NEW s \in Steps, Accepts(s),
         cache.mode = "off" => ~lamp.on, Recorded(cache, s).mode = "off"
  PROVE  ~lamp'.on
<1>1. lamp \in Lamps /\ cache \in Caches
  BY DEF KbdTypeInv, DeviceTypes, SavesTypes
<1>2. lamp' = Lamp(EcCommands(s), Len(EcCommands(s)))
  BY DEF Accepts
<1>3. (IF IsMode(s) THEN s.mode ELSE cache.mode) = "off"
  BY <1>1, RecordedMode
<1>4. CASE IsMode(s)
  BY <1>1, <1>2, <1>3, <1>4, OffEffect
<1>5. CASE ~IsMode(s) /\ IsBrightness(s)
  <2>1. ~lamp.on
    BY <1>3, <1>5
  <2> QED BY <1>1, <1>2, <1>5, <2>1, BrightnessEffect
<1>6. CASE ~IsMode(s) /\ ~IsBrightness(s)
  <2>1. ~lamp.on
    BY <1>3, <1>6
  <2>2. Lamp(EcCommands(s), Len(EcCommands(s))).on = lamp.on
    BY <1>1, <1>6, ChannelEffect
  <2> QED BY <1>2, <2>1, <2>2
<1> QED BY <1>4, <1>5, <1>6

\* The machine, and how it is used, is chosen once.
LEMMA MachineKept == [KbdNext]_kbdVars => backend' = backend /\ overlap' = overlap
<1>1. SUFFICES ASSUME [KbdNext]_kbdVars PROVE backend' = backend /\ overlap' = overlap
  OBVIOUS
<1>2. ASSUME NEW t \in Setters, NEW steps, Begin(t, steps)
      PROVE  backend' = backend /\ overlap' = overlap
  BY <1>2 DEF Begin
<1>3. ASSUME NEW t \in Threads, KbdThread(t)
      PROVE  backend' = backend /\ overlap' = overlap
  BY <1>3 DEF KbdThread, Send, SendFails, Record, DraftSave, SaveSection, fixed
<1>4. CASE \/ KbdStart \/ ReplayDone \/ KbdServe \/ DesktopSetsLed \/ KbdKilled
           \/ UNCHANGED kbdVars
  BY <1>4 DEF KbdStart, ReplayDone, KbdServe, DesktopSetsLed, KbdKilled, fixed, kbdVars
<1>5. ASSUME NEW t \in Setters,
             \/ SetKeyboardMode(t) \/ SetKeyboardBrightness(t) \/ SetKeyboardZone(t)
             \/ SetKeyboardKey(t) \/ SetSomethingElse(t)
      PROVE  \E steps : Begin(t, steps)
  BY <1>5 DEF SetKeyboardMode, SetKeyboardBrightness, SetKeyboardZone, SetKeyboardKey,
              SetSomethingElse
<1> QED BY <1>1, <1>2, <1>3, <1>4, <1>5 DEF KbdNext, Threads

\* Calls that do not overlap stay apart.
LEMMA OneAtATimeStep == Orderly /\ [KbdNext]_kbdVars => OneAtATime'
<1> SUFFICES ASSUME Orderly, [KbdNext]_kbdVars PROVE OneAtATime'
  OBVIOUS
<1>1. SUFFICES ASSUME ~overlap
               PROVE  \A t, u \in Setters : at'[t] # "idle" /\ at'[u] # "idle" => t = u
  BY MachineKept DEF OneAtATime
<1>2. ASSUME NEW t \in Setters, NEW steps, Begin(t, steps)
      PROVE  \A u \in Setters : at'[u] # "idle" => u = t
  BY <1>1, <1>2 DEF Begin, Orderly, KbdIInv, ThreadsPlaced, Threads
<1>3. ASSUME NEW t \in Threads, KbdThread(t)
      PROVE  at[t] # "idle" /\ \A u \in Threads \ {t} : at'[u] = at[u]
  <2>1. DOMAIN at = Threads
    BY DEF Orderly, KbdIInv, ThreadsPlaced
  <2>2. CASE Send(t)
    BY <2>1, <2>2 DEF Send
  <2>3. CASE SendFails(t)
    BY <2>1, <2>3 DEF SendFails
  <2>4. CASE Record(t)
    BY <2>1, <2>4 DEF Record
  <2>5. CASE DraftSave(t) \/ SaveSection(t)
    BY <2>1, <2>5 DEF DraftSave, SaveSection
  <2> QED BY <1>3, <2>2, <2>3, <2>4, <2>5 DEF KbdThread
<1>4. ASSUME NEW t \in Threads, KbdThread(t)
      PROVE  \A u \in Setters : at'[u] # "idle" => u = t
  BY <1>1, <1>3, <1>4, Alone DEF Threads
<1>5. CASE KbdStart \/ ReplayDone \/ KbdServe \/ DesktopSetsLed \/ UNCHANGED kbdVars
  <2>1. \A u \in Setters : at'[u] = at[u]
    BY <1>1, <1>5, ThreadsDistinct
       DEF KbdStart, ReplayDone, KbdServe, DesktopSetsLed, kbdVars, Orderly, KbdIInv,
           ThreadsPlaced, Threads
  <2> QED BY <1>1, <2>1 DEF Orderly, OneAtATime
<1>6. CASE KbdKilled
  BY <1>6 DEF KbdKilled, NoThreads
<1> QED
  <2>1. ASSUME NEW t \in Setters,
               \/ SetKeyboardMode(t) \/ SetKeyboardBrightness(t) \/ SetKeyboardZone(t)
               \/ SetKeyboardKey(t) \/ SetSomethingElse(t)
        PROVE  \E steps : Begin(t, steps)
    BY <2>1 DEF SetKeyboardMode, SetKeyboardBrightness, SetKeyboardZone, SetKeyboardKey,
                SetSomethingElse
  <2> QED BY <1>1, <1>2, <1>4, <1>5, <1>6, <2>1 DEF KbdNext, Threads

\* Every step keeps a keyboard that was switched off dark.
LEMMA DarkStep == Orderly /\ DarkInv /\ [KbdNext]_kbdVars => DarkInv'
<1> SUFFICES ASSUME Orderly, DarkInv, [KbdNext]_kbdVars PROVE DarkInv'
  OBVIOUS
<1>1. SUFFICES ASSUME backend = "acpi", ~overlap, ~disturbed' PROVE DarkInv'
  BY MachineKept DEF DarkInv
<1>2. ASSUME ~disturbed, \A t \in Threads : at[t] # "record", \A t \in Threads : at'[t] # "record",
             cache' = cache, lamp' = lamp
      PROVE  DarkInv'
  BY <1>1, <1>2 DEF DarkInv
<1>3. \A t \in Threads : at[t] # "idle" => \A u \in Threads \ {t} : at[u] = "idle"
  BY <1>1, Alone
<1>4. DOMAIN at = Threads /\ KbdTypeInv /\ ThreadsPlaced
  BY DEF Orderly, KbdIInv, ThreadsPlaced
<1>5. ASSUME NEW t \in Setters, NEW steps, Begin(t, steps) PROVE DarkInv'
  <2>1. \A u \in Threads : at[u] = "idle"
    BY <1>1, <1>4, <1>5 DEF Begin, ThreadsPlaced, Threads
  <2>2. \A u \in Threads : at'[u] # "record"
    BY <1>4, <1>5, <2>1 DEF Begin, Threads
  <2> QED BY <1>1, <1>2, <1>5, <2>1, <2>2 DEF Begin, device
<1>6. ASSUME NEW t \in Threads, Send(t) PROVE DarkInv'
  <2> DEFINE s == Head(todo[t])
  <2>1. at[t] = "send" /\ Accepts(s) /\ cache' = cache /\ todo' = todo /\ disturbed' = disturbed
    BY <1>6 DEF Send
  <2>2. s \in Steps
    BY <1>4, <2>1 DEF KbdTypeInv, Busy
  <2>3. \A u \in Threads : at[u] # "record"
    BY <1>3, <2>1
  <2>4. cache.mode = "off" => ~lamp.on
    BY <1>1, <2>1, <2>3 DEF DarkInv
  <2>5. Recorded(cache, s).mode = "off" => ~lamp'.on
    BY <1>1, <1>4, <2>1, <2>2, <2>4, AcceptedDark
  <2>6. at'[t] = "record" /\ \A u \in Threads \ {t} : at'[u] = "idle"
    BY <1>3, <1>4, <1>6, <2>1 DEF Send
  <2>7. \A u \in Threads :
             at'[u] = "record" => Recorded(cache', Head(todo'[u])) = Recorded(cache, s)
    BY <2>1, <2>6
  <2> QED BY <2>5, <2>6, <2>7 DEF DarkInv
<1>7. ASSUME NEW t \in Threads, SendFails(t) PROVE DarkInv'
  <2>1. ~disturbed /\ ~Valid(Head(todo[t])) /\ at[t] = "send" /\ cache' = cache
    BY <1>1, <1>7 DEF SendFails
  <2>2. lamp' = lamp
    BY <1>7, <2>1 DEF SendFails, Refuses
  <2>3. \A u \in Threads : at[u] # "record"
    BY <1>3, <2>1
  <2>4. \A u \in Threads : at'[u] # "record"
    BY <1>4, <1>7, <2>3 DEF SendFails
  <2> QED BY <1>2, <2>1, <2>2, <2>3, <2>4
<1>8. ASSUME NEW t \in Threads, Record(t) PROVE DarkInv'
  <2>1. at[t] = "record" /\ cache' = Recorded(cache, Head(todo[t])) /\ lamp' = lamp
        /\ disturbed' = disturbed
    BY <1>8 DEF Record, device
  <2>2. \A u \in Threads : at'[u] # "record"
    BY <1>3, <1>4, <1>8, <2>1 DEF Record
  <2>3. cache'.mode = "off" => ~lamp.on
    BY <1>1, <2>1 DEF DarkInv
  <2> QED BY <2>1, <2>2, <2>3 DEF DarkInv
<1>9. ASSUME NEW t \in Threads, DraftSave(t) \/ SaveSection(t) PROVE DarkInv'
  <2>1. at[t] # "record" /\ at[t] # "idle" /\ at'[t] # "record" /\ cache' = cache /\ lamp' = lamp
        /\ disturbed' = disturbed /\ \A u \in Threads \ {t} : at'[u] = at[u]
    BY <1>4, <1>9 DEF DraftSave, SaveSection, device
  <2> QED BY <1>1, <1>2, <1>3, <2>1
<1>10. CASE KbdStart \/ ReplayDone \/ KbdServe
  <2>1. /\ at[Starter] = "idle" /\ at'[Starter] # "record" /\ running # "serving"
        /\ \A u \in Threads \ {Starter} : at'[u] = at[u]
        /\ cache' = cache /\ lamp' = lamp /\ disturbed' = disturbed
    BY <1>4, <1>10 DEF KbdStart, ReplayDone, KbdServe, device, ThreadsPlaced, Threads
  <2>2. \A u \in Threads : at[u] = "idle"
    BY <1>4, <2>1 DEF ThreadsPlaced, Threads
  <2>3. \A u \in Threads : at'[u] # "record"
    BY <2>1, <2>2
  <2>4. ~disturbed /\ (\A u \in Threads : at[u] # "record") /\ cache' = cache /\ lamp' = lamp
    BY <1>1, <2>1, <2>2
  <2> QED BY <1>2, <2>3, <2>4
<1>11. CASE DesktopSetsLed
  BY <1>1, <1>11 DEF DesktopSetsLed
<1>12. CASE KbdKilled
  BY <1>12 DEF KbdKilled, NoThreads, FreshCache, DarkInv, Threads
<1>13. CASE UNCHANGED kbdVars
  <2>1. UNCHANGED <<backend, overlap, at, todo, cache, lamp, disturbed>>
    BY <1>13 DEF kbdVars
  <2> QED BY <2>1 DEF DarkInv
<1>14. ASSUME NEW t \in Setters,
              \/ SetKeyboardMode(t) \/ SetKeyboardBrightness(t) \/ SetKeyboardZone(t)
              \/ SetKeyboardKey(t) \/ SetSomethingElse(t)
       PROVE  \E steps : Begin(t, steps)
  BY <1>14 DEF SetKeyboardMode, SetKeyboardBrightness, SetKeyboardZone, SetKeyboardKey,
               SetSomethingElse
<1> QED
  <2>1. ASSUME NEW t \in Threads, KbdThread(t) PROVE DarkInv'
    BY <1>6, <1>7, <1>8, <1>9, <2>1 DEF KbdThread
  <2> QED BY <1>5, <1>10, <1>11, <1>12, <1>13, <1>14, <2>1 DEF KbdNext, Threads

\* What the keyboard's later proofs start from.
LEMMA OrderlyAlways == KbdSpec => []Orderly
<1>1. KbdInit => Orderly
  BY KbdInitially, KbdTypesInitially
     DEF KbdInit, Stopped, NoThreads, Orderly, OneAtATime
<1>2. Orderly /\ [KbdNext]_kbdVars => Orderly'
  BY KbdStep, KbdTypesStep, OneAtATimeStep DEF Orderly, KbdIInv
<1> QED BY <1>1, <1>2, PTL DEF KbdSpec

(* Turned off, the RGB15 channel stays dark until it is turned on again, for  *)
(* any colours, zones and percentages set meanwhile by calls that do not      *)
(* overlap, whatever the caches of the driver hold (keyboard_rgb_store,       *)
(* clevo-cc.c:841).                                                           *)
THEOREM OffIsDark == KbdSpec => []OffStaysDark
<1>1. KbdInit => DarkInv
  BY DEF KbdInit, Stopped, NoThreads, FreshCache, DarkInv, Threads
<1>2. DarkInv => OffStaysDark
  BY DEF DarkInv, OffStaysDark, AtRest, NoThreads, Threads
<1> QED
  BY <1>1, <1>2, OrderlyAlways, DarkStep, PTL DEF KbdSpec

-----------------------------------------------------------------------------
(* A replay brings back what was saved.                                      *)

\* How far a replay has come on RGB15: mine is what is left of it, where says
\* whether its first step has been accepted, lp and ld what the device shows.
EcReplay(saved, mine, where, lp, ld) ==
    LET lit    == DOMAIN saved.keys
        mode   == ModeStep(saved.mode)
        bright == BrightnessStep(saved.brightness)
        colour == saved.keys[FirstKey(lit)]
        level  == EcLevel(saved.brightness)
        coloured == ld.colour = colour /\ lp.keys = [k \in Keys |-> colour]
        restored == /\ saved.mode = "static" => lp.on /\ lp.level = level
                    /\ saved.mode = "off" => ~lp.on
    IN  \/ /\ lit # {} /\ mine = <<ChannelStep(colour), bright, mode>>
           /\ where = "record" => coloured
        \/ /\ lit # {} => coloured
           /\ \/ mine = <<bright, mode>> /\ (where = "record" => ld.level = level)
              \/ mine = <<mode>> /\ IF where = "record" THEN restored ELSE ld.level = level
              \/ mine = <<>> /\ restored

\* The same on the HID controller, where keys are sent one by one.
HidReplay(saved, mine, where, lp) ==
    LET lit     == DOMAIN saved.keys
        mode    == ModeStep(saved.mode)
        bright  == BrightnessStep(saved.brightness)
        rest(K) == KeysStep([k \in K |-> saved.keys[k]])
        shown(K) == \A k \in K : lp.keys[k] = saved.keys[k]
        level   == lp.level = HidLevel(saved.brightness)
    IN  /\ lp.on
        /\ \/ mine = IF lit = {} THEN <<mode, bright>> ELSE <<mode, bright, rest(lit)>>
           \/ /\ mine = IF lit = {} THEN <<bright>> ELSE <<bright, rest(lit)>>
              /\ where = "record" => level
           \/ /\ level
              /\ \E K \in (SUBSET lit) \ {{}} :
                   /\ mine = <<rest(K)>>
                   /\ shown(lit \ K) /\ (where = "record" => shown({FirstKey(K)}))
           \/ level /\ mine = <<>> /\ shown(lit)

ReplayInv ==
    running \in {"replaying", "replayed"} /\ Replays(base) /\ ~disturbed =>
        /\ at[Starter] = "idle" <=> todo[Starter] = <<>>
        /\ backend = "acpi" => EcReplay(base, todo[Starter], at[Starter], lamp, led)
        /\ backend = "hid" => HidReplay(base, todo[Starter], at[Starter], lamp)

\* On the HID controller nothing but the brightness takes the light away.
HidIsOn == backend = "hid" => lamp.on

\* What a saved section holds.
LEMMA SavedKeys ==
  ASSUME NEW saved \in Sections
  PROVE  /\ DOMAIN saved.keys \subseteq Keys
         /\ saved.keys = [k \in DOMAIN saved.keys |-> saved.keys[k]]
         /\ \A k \in DOMAIN saved.keys : saved.keys[k] \in Colours
         /\ saved.mode \in {"off", "static"} /\ saved.brightness \in 0..100
         /\ DOMAIN saved.keys # {} => FirstKey(DOMAIN saved.keys) \in DOMAIN saved.keys
<1>1. PICK K \in SUBSET Keys : saved.keys \in [K -> Colours]
  BY DEF Sections
<1>2. DOMAIN saved.keys = K
  BY <1>1
<1>3. K # {} => FirstKey(K) \in K
  BY <1>1, FirstKeyIn
<1> QED BY <1>1, <1>2, <1>3 DEF Sections

\* The constructors of steps, and the kinds they make.
LEMMA StepFacts ==
  /\ \A m : IsMode(ModeStep(m)) /\ ~IsBrightness(ModeStep(m)) /\ ~IsKeys(ModeStep(m))
            /\ ModeStep(m).mode = m
  /\ \A p : IsBrightness(BrightnessStep(p)) /\ ~IsMode(BrightnessStep(p))
            /\ ~IsKeys(BrightnessStep(p)) /\ BrightnessStep(p).brightness = p
  /\ \A f : IsKeys(KeysStep(f)) /\ ~IsMode(KeysStep(f)) /\ ~IsBrightness(KeysStep(f))
            /\ KeysStep(f).keys = f
  /\ \A c : ~IsKeys(ChannelStep(c)) /\ ~IsMode(ChannelStep(c)) /\ ~IsBrightness(ChannelStep(c))
            /\ ChannelStep(c).channel = c
BY DEF IsMode, IsBrightness, IsKeys, ModeStep, BrightnessStep, KeysStep, ChannelStep

\* A replay over the kernel's backend starts with everything still to do.
LEMMA EcBegins ==
  ASSUME NEW saved \in Sections, backend = "acpi"
  PROVE  EcReplay(saved, ReplaySteps(saved), "send", lamp, led)
<1> DEFINE m == ModeStep(saved.mode)
           b == BrightnessStep(saved.brightness)
           c == ChannelStep(saved.keys[FirstKey(DOMAIN saved.keys)])
<1>1. CASE DOMAIN saved.keys = {}
  <2>1. ReplaySteps(saved) = <<>> \o <<b, m>>
    BY <1>1 DEF ReplaySteps, ColourSteps
  <2>2. ReplaySteps(saved) = <<b, m>>
    BY <2>1, Joined
  <2> QED BY <1>1, <2>2 DEF EcReplay
<1>2. CASE DOMAIN saved.keys # {}
  <2>1. ReplaySteps(saved) = <<c>> \o <<b, m>>
    BY <1>2 DEF ReplaySteps, ColourSteps
  <2>2. ReplaySteps(saved) = <<c, b, m>>
    BY <2>1, Joined
  <2> QED BY <1>2, <2>2 DEF EcReplay
<1> QED BY <1>1, <1>2

\* And over the HID backend.
LEMMA HidBegins ==
  ASSUME NEW saved \in Sections, backend = "hid", lamp.on
  PROVE  HidReplay(saved, ReplaySteps(saved), "send", lamp)
<1> DEFINE m == ModeStep(saved.mode)
           b == BrightnessStep(saved.brightness)
           r == KeysStep([k \in DOMAIN saved.keys |-> saved.keys[k]])
<1>1. CASE DOMAIN saved.keys = {}
  <2>1. ReplaySteps(saved) = <<m, b>> \o <<>>
    BY <1>1 DEF ReplaySteps, ColourSteps
  <2>2. ReplaySteps(saved) = <<m, b>>
    BY <2>1, ConcatEmptySeq, ShortSequences
  <2> QED BY <1>1, <2>2 DEF HidReplay
<1>2. CASE DOMAIN saved.keys # {}
  <2>1. ReplaySteps(saved) = <<m, b>> \o <<r>>
    BY <1>2, SavedKeys DEF ReplaySteps, ColourSteps
  <2>2. ReplaySteps(saved) = <<m, b, r>>
    BY <2>1, Joined
  <2> QED BY <1>2, <2>2 DEF HidReplay
<1> QED BY <1>1, <1>2

\* Each step of a replay on RGB15 does its part, and undoes none of the earlier ones.
LEMMA EcSend ==
  ASSUME NEW saved \in Sections, NEW mine, mine # <<>>, lamp \in Lamps, led \in Leds,
         EcReplay(saved, mine, "send", lamp, led), backend = "acpi", Accepts(Head(mine))
  PROVE  EcReplay(saved, mine, "record", lamp', led')
<1> DEFINE lit == DOMAIN saved.keys
           m == ModeStep(saved.mode)
           b == BrightnessStep(saved.brightness)
           c == saved.keys[FirstKey(lit)]
           s == Head(mine)
           level == EcLevel(saved.brightness)
           coloured == led.colour = c /\ lamp.keys = [k \in Keys |-> c]
           restored == /\ saved.mode = "static" => lamp'.on /\ lamp'.level = level
                       /\ saved.mode = "off" => ~lamp'.on
<1>1. lamp' = Lamp(EcCommands(s), Len(EcCommands(s))) /\ led' = LedAfter(s)
  BY DEF Accepts
<1>2. \/ lit # {} /\ mine = <<ChannelStep(c), b, m>>
      \/ /\ lit # {} => coloured
         /\ mine = <<b, m>> \/ (mine = <<m>> /\ led.level = level)
  BY DEF EcReplay
<1>3. CASE lit # {} /\ mine = <<ChannelStep(c), b, m>>
  <2>1. s = ChannelStep(c)
    BY <1>3
  <2>2. ~IsMode(s) /\ ~IsBrightness(s) /\ s.channel = c
    BY <2>1, StepFacts
  <2>3. lamp'.keys = [k \in Keys |-> c]
    BY <1>1, <2>2, ChannelEffect
  <2>4. led'.colour = c
    BY <1>1, <2>2 DEF LedAfter, Leds
  <2> QED BY <1>3, <2>3, <2>4 DEF EcReplay
<1>4. CASE (lit # {} => coloured) /\ mine = <<b, m>>
  <2>1. s = b
    BY <1>4
  <2>2. ~IsMode(s) /\ IsBrightness(s) /\ s.brightness = saved.brightness
    BY <2>1, StepFacts
  <2>3. lamp'.keys = lamp.keys
    BY <1>1, <2>2, BrightnessEffect
  <2>4. led'.colour = led.colour /\ led'.level = level
    BY <1>1, <2>2 DEF LedAfter, Leds
  <2> QED BY <1>4, <2>3, <2>4 DEF EcReplay
<1>5. CASE (lit # {} => coloured) /\ mine = <<m>> /\ led.level = level
  <2>1. s = m
    BY <1>5
  <2>2. IsMode(s) /\ s.mode = saved.mode
    BY <2>1, StepFacts
  <2>3. led'.colour = led.colour
    BY <1>1, <2>2 DEF LedAfter, Leds
  <2>4. lit # {} => c # NoColour
    <3>1. NoColour \notin Colours
      BY KbdConfigured DEF AnyColour
    <3>2. lit # {} => c \in Colours
      BY SavedKeys
    <3> QED BY <3>1, <3>2
  <2>5. CASE saved.mode = "off"
    <3>1. lamp'.keys = lamp.keys
      BY <1>1, <2>2, <2>5, OffEffect
    <3>2. ~lamp'.on
      BY <1>1, <2>2, <2>5, OffEffect
    <3>3. restored
      BY <2>5, <3>2
    <3>4. lit # {} => led'.colour = c /\ lamp'.keys = [k \in Keys |-> c]
      BY <1>5, <2>3, <3>1
    <3> QED BY <1>5, <3>3, <3>4 DEF EcReplay
  <2>6. CASE saved.mode # "off"
    <3>1. lamp'.keys = IF led.colour = NoColour THEN lamp.keys ELSE [k \in Keys |-> led.colour]
      BY <1>1, <2>2, <2>6, StaticEffect
    <3>2. lamp'.on /\ lamp'.level = led.level
      BY <1>1, <2>2, <2>6, StaticEffect
    <3>3. restored
      BY <1>5, <2>6, <3>2
    <3>4. lit # {} => led'.colour = c /\ lamp'.keys = [k \in Keys |-> c]
      BY <1>5, <2>3, <2>4, <3>1
    <3> QED BY <1>5, <3>3, <3>4 DEF EcReplay
  <2> QED BY <2>5, <2>6
<1> QED BY <1>2, <1>3, <1>4, <1>5

\* Recording a step of the replay leaves the rest to do, on the kernel's backend.
LEMMA EcRecord ==
  ASSUME NEW saved, NEW mine, mine # <<>>, NEW lp, NEW ld, NEW where, where # "record",
         EcReplay(saved, mine, "record", lp, ld)
  PROVE  EcReplay(saved, Further(mine), where, lp, ld)
<1> DEFINE lit == DOMAIN saved.keys
           m == ModeStep(saved.mode)
           b == BrightnessStep(saved.brightness)
           c == saved.keys[FirstKey(lit)]
<1>1. CASE mine = <<ChannelStep(c), b, m>>
  <2>1. Further(mine) = <<b, m>>
    BY <1>1, StepFacts DEF Further
  <2>2. ld.colour = c /\ lp.keys = [k \in Keys |-> c]
    BY <1>1 DEF EcReplay
  <2> QED BY <2>1, <2>2 DEF EcReplay
<1>2. CASE mine = <<b, m>>
  <2>1. Further(mine) = <<m>>
    BY <1>2, StepFacts DEF Further
  <2> QED BY <1>2, <2>1 DEF EcReplay
<1>3. CASE mine = <<m>>
  <2>1. Further(mine) = <<>>
    BY <1>3, StepFacts DEF Further
  <2> QED BY <1>3, <2>1 DEF EcReplay
<1> QED BY <1>1, <1>2, <1>3 DEF EcReplay

\* A brightness that is replayed is valid, and so is every other step.
LEMMA ReplayIsValid ==
  ASSUME NEW saved \in Sections, NEW mine, mine # <<>>, NEW where, NEW lp, NEW ld,
         EcReplay(saved, mine, where, lp, ld) \/ HidReplay(saved, mine, where, lp)
  PROVE  Valid(Head(mine))
<1> DEFINE s == Head(mine)
<1>1. \/ s = ModeStep(saved.mode) \/ s = BrightnessStep(saved.brightness)
      \/ (\E c : s = ChannelStep(c)) \/ (\E f : s = KeysStep(f))
  <2>1. CASE EcReplay(saved, mine, where, lp, ld)
    BY <2>1 DEF EcReplay
  <2>2. CASE HidReplay(saved, mine, where, lp)
    <3> DEFINE rest(K) == KeysStep([k \in K |-> saved.keys[k]])
    <3>1. \/ mine = <<ModeStep(saved.mode), BrightnessStep(saved.brightness)>>
          \/ mine = <<ModeStep(saved.mode), BrightnessStep(saved.brightness),
                      rest(DOMAIN saved.keys)>>
          \/ mine = <<BrightnessStep(saved.brightness)>>
          \/ mine = <<BrightnessStep(saved.brightness), rest(DOMAIN saved.keys)>>
          \/ \E K : mine = <<rest(K)>>
      BY <2>2 DEF HidReplay
    <3>2. ASSUME NEW K, mine = <<rest(K)>> PROVE \E f : s = KeysStep(f)
      BY <3>2
    <3>3. CASE \/ mine = <<ModeStep(saved.mode), BrightnessStep(saved.brightness)>>
               \/ mine = <<ModeStep(saved.mode), BrightnessStep(saved.brightness),
                          rest(DOMAIN saved.keys)>>
      <4>1. s = ModeStep(saved.mode)
        BY <3>3
      <4> QED BY <4>1
    <3>4. CASE \/ mine = <<BrightnessStep(saved.brightness)>>
               \/ mine = <<BrightnessStep(saved.brightness), rest(DOMAIN saved.keys)>>
      <4>1. s = BrightnessStep(saved.brightness)
        BY <3>4
      <4> QED BY <4>1
    <3> QED BY <3>1, <3>2, <3>3, <3>4
  <2> QED BY <2>1, <2>2
<1>2. saved.brightness \in 0..100
  BY SavedKeys
<1>3. CASE s = ModeStep(saved.mode)
  BY <1>3, StepFacts DEF Valid
<1>6. CASE s = BrightnessStep(saved.brightness)
  <2>1. BrightnessStep(saved.brightness).brightness = saved.brightness
    BY StepFacts
  <2>2. s.brightness \in 0..100
    BY <1>2, <1>6, <2>1
  <2>3. s.brightness <= 100
    <3>1. \A p \in 0..100 : p <= 100
      OBVIOUS
    <3> HIDE DEF s
    <3> QED BY ONLY <2>2, <3>1
  <2> QED BY <2>3 DEF Valid
<1>4. CASE \E c : s = ChannelStep(c)
  BY <1>4, StepFacts DEF Valid
<1>5. CASE \E f : s = KeysStep(f)
  BY <1>5, StepFacts DEF Valid
<1> QED BY <1>1, <1>3, <1>4, <1>5, <1>6

\* One after the other, the saved keys are sent and recorded.
LEMMA HidSend ==
  ASSUME NEW saved \in Sections, NEW mine, mine # <<>>, lamp \in Lamps,
         HidReplay(saved, mine, "send", lamp), backend = "hid", Accepts(Head(mine))
  PROVE  HidReplay(saved, mine, "record", lamp')
<1> DEFINE lit == DOMAIN saved.keys
           m == ModeStep(saved.mode)
           b == BrightnessStep(saved.brightness)
           rest(K) == KeysStep([k \in K |-> saved.keys[k]])
           s == Head(mine)
<1>1. lamp' = HidLamp(s) /\ lamp.on
  BY DEF Accepts, HidReplay
<1>2. CASE mine = IF lit = {} THEN <<m, b>> ELSE <<m, b, rest(lit)>>
  <2>1. s = m
    BY <1>2
  <2>2. lamp'.on
    BY <1>1, <2>1, StepFacts DEF HidLamp, Lamps
  <2> QED BY <1>2, <2>2 DEF HidReplay
<1>3. CASE mine = IF lit = {} THEN <<b>> ELSE <<b, rest(lit)>>
  <2>1. s = b
    BY <1>3
  <2>2. lamp' = [lamp EXCEPT !.level = HidLevel(saved.brightness)]
    BY <1>1, <2>1, StepFacts DEF HidLamp
  <2>3. lamp'.on /\ lamp'.level = HidLevel(saved.brightness)
    BY <1>1, <2>2 DEF Lamps
  <2> QED BY <1>3, <2>3 DEF HidReplay
<1>4. ASSUME NEW K \in (SUBSET lit) \ {{}}, mine = <<rest(K)>>,
             lamp.level = HidLevel(saved.brightness),
             \A k \in lit \ K : lamp.keys[k] = saved.keys[k]
      PROVE  HidReplay(saved, mine, "record", lamp')
  <2> DEFINE f == FirstKey(K)
  <2>1. K \in SUBSET Keys /\ f \in K
    BY SavedKeys, FirstKeyIn
  <2>2. s = rest(K) /\ DOMAIN s.keys = K /\ s.keys[f] = saved.keys[f]
    BY <1>4, <2>1, StepFacts
  <2>3. ~IsMode(s) /\ ~IsBrightness(s)
    BY <2>2, StepFacts
  <2>4. lamp' = [lamp EXCEPT !.keys[f] = saved.keys[f]]
    BY <1>1, <2>2, <2>3 DEF HidLamp
  <2>5. lamp'.on /\ lamp'.level = lamp.level /\ lamp'.keys = [lamp.keys EXCEPT ![f] = saved.keys[f]]
    BY <1>1, <2>4 DEF Lamps
  <2>6. lamp'.keys[f] = saved.keys[f] /\ \A k \in lit \ K : lamp'.keys[k] = lamp.keys[k]
    BY <2>1, <2>5, SavedKeys DEF Lamps
  <2> QED BY <1>4, <2>5, <2>6 DEF HidReplay
<1>5. \/ mine = IF lit = {} THEN <<m, b>> ELSE <<m, b, rest(lit)>>
      \/ mine = IF lit = {} THEN <<b>> ELSE <<b, rest(lit)>>
      \/ \E K \in (SUBSET lit) \ {{}} :
           /\ mine = <<rest(K)>> /\ lamp.level = HidLevel(saved.brightness)
           /\ \A k \in lit \ K : lamp.keys[k] = saved.keys[k]
  BY DEF HidReplay
<1> QED BY <1>2, <1>3, <1>4, <1>5

\* And on the HID backend.
LEMMA HidRecord ==
  ASSUME NEW saved \in Sections, NEW mine, mine # <<>>, NEW lp, NEW where, where # "record",
         HidReplay(saved, mine, "record", lp)
  PROVE  HidReplay(saved, Further(mine), where, lp)
<1> DEFINE lit == DOMAIN saved.keys
           m == ModeStep(saved.mode)
           b == BrightnessStep(saved.brightness)
           rest(K) == KeysStep([k \in K |-> saved.keys[k]])
           level == lp.level = HidLevel(saved.brightness)
<1>1. lp.on
  BY DEF HidReplay
<1>2. CASE mine = IF lit = {} THEN <<m, b>> ELSE <<m, b, rest(lit)>>
  <2>1. Further(mine) = IF lit = {} THEN <<b>> ELSE <<b, rest(lit)>>
    BY <1>2, StepFacts DEF Further
  <2> QED BY <1>1, <2>1 DEF HidReplay
<1>3. CASE level /\ mine = IF lit = {} THEN <<b>> ELSE <<b, rest(lit)>>
  <2>1. Further(mine) = IF lit = {} THEN <<>> ELSE <<rest(lit)>>
    BY <1>3, StepFacts DEF Further
  <2>2. CASE lit = {}
    BY <1>1, <1>3, <2>1, <2>2 DEF HidReplay
  <2>3. CASE lit # {}
    <3>1. lit \in (SUBSET lit) \ {{}} /\ Further(mine) = <<rest(lit)>>
          /\ \A k \in lit \ lit : lp.keys[k] = saved.keys[k]
      BY <2>1, <2>3
    <3> QED BY <1>1, <1>3, <3>1 DEF HidReplay
  <2> QED BY <2>2, <2>3
<1>4. ASSUME NEW K \in (SUBSET lit) \ {{}}, mine = <<rest(K)>>, level,
             \A k \in lit \ K : lp.keys[k] = saved.keys[k],
             lp.keys[FirstKey(K)] = saved.keys[FirstKey(K)]
      PROVE  HidReplay(saved, Further(mine), where, lp)
  <2> DEFINE more == K \ {FirstKey(K)}
             s == Head(mine)
  <2>1. s = rest(K) /\ Tail(mine) = <<>>
    BY <1>4
  <2>2. IsKeys(s) /\ s.keys = [k \in K |-> saved.keys[k]]
    BY <2>1, StepFacts
  <2>3. \A k \in lit \ more : lp.keys[k] = saved.keys[k]
    BY <1>4
  <2>4. CASE more = {}
    <3>1. Further(mine) = <<>>
      BY <2>1, <2>2, <2>4 DEF Further
    <3> QED BY <1>1, <1>4, <2>3, <2>4, <3>1 DEF HidReplay
  <2>5. CASE more # {}
    <3>1. [k \in more |-> s.keys[k]] = [k \in more |-> saved.keys[k]]
      BY <2>2
    <3>2. Further(mine) = <<rest(more)>> \o <<>>
      BY <2>1, <2>2, <2>5, <3>1 DEF Further
    <3>3. Further(mine) = <<rest(more)>>
      BY <3>2, ConcatEmptySeq, ShortSequences
    <3>4. more \in (SUBSET lit) \ {{}}
      BY <2>5
    <3> QED BY <1>1, <1>4, <2>3, <3>3, <3>4 DEF HidReplay
  <2> QED BY <2>4, <2>5
<1>5. \/ mine = IF lit = {} THEN <<m, b>> ELSE <<m, b, rest(lit)>>
      \/ level /\ mine = IF lit = {} THEN <<b>> ELSE <<b, rest(lit)>>
      \/ \E K \in (SUBSET lit) \ {{}} :
           /\ mine = <<rest(K)>> /\ level
           /\ \A k \in lit \ K : lp.keys[k] = saved.keys[k]
           /\ lp.keys[FirstKey(K)] = saved.keys[FirstKey(K)]
  BY DEF HidReplay
<1> QED BY <1>2, <1>3, <1>4, <1>5

\* No write takes the light from the HID controller.
LEMMA HidStays ==
  ASSUME KbdTypeInv, HidIsOn, NEW t \in Threads, KbdThread(t)
  PROVE  HidIsOn'
<1>1. lamp \in Lamps
  BY DEF KbdTypeInv, DeviceTypes
<1>2. CASE Send(t)
  <2> DEFINE s == Head(todo[t])
  <2>1. SUFFICES ASSUME backend = "hid", lamp.on PROVE lamp'.on
    BY <1>2 DEF Send, fixed, HidIsOn
  <2>2. lamp' = HidLamp(s)
    BY <1>2, <2>1 DEF Send, Accepts
  <2> QED BY <1>1, <2>1, <2>2 DEF HidLamp, Lamps
<1>3. CASE SendFails(t)
  BY <1>3 DEF SendFails, Refuses, fixed, HidIsOn
<1>4. CASE Record(t) \/ DraftSave(t) \/ SaveSection(t)
  BY <1>4 DEF Record, DraftSave, SaveSection, fixed, device, HidIsOn
<1> QED BY <1>2, <1>3, <1>4 DEF KbdThread

\* Every step keeps what the replay has done and has still to do.
LEMMA ReplayStep == Orderly /\ HidIsOn /\ ReplayInv /\ [KbdNext]_kbdVars => HidIsOn' /\ ReplayInv'
<1> SUFFICES ASSUME Orderly, HidIsOn, ReplayInv, [KbdNext]_kbdVars PROVE HidIsOn' /\ ReplayInv'
  OBVIOUS
<1>1. /\ DOMAIN at = Threads /\ DOMAIN todo = Threads /\ ThreadsPlaced /\ KbdTypeInv
      /\ lamp \in Lamps /\ led \in Leds
      /\ {section, base} \subseteq Sections \cup {NoSection} /\ backend \in KbBackends
      /\ Starter \in Threads /\ Starter \notin Setters
  BY ThreadsDistinct
     DEF Orderly, KbdIInv, KbdTypeInv, ThreadsPlaced, DeviceTypes, SavesTypes, ControlTypes, Threads
<1>2. ASSUME running' = running, base' = base, restore' = restore, backend' = backend,
             disturbed' = disturbed, todo'[Starter] = todo[Starter], at'[Starter] = at[Starter],
             lamp' = lamp, led' = led
      PROVE  HidIsOn' /\ ReplayInv'
  BY <1>2 DEF HidIsOn, ReplayInv, Replays
<1>3. ASSUME running' = "serving", lamp' = lamp, backend' = backend PROVE HidIsOn' /\ ReplayInv'
  BY <1>3 DEF HidIsOn, ReplayInv
<1>4. ASSUME NEW t \in Setters, NEW steps, Begin(t, steps) PROVE HidIsOn' /\ ReplayInv'
  BY <1>3, <1>4 DEF Begin, device
<1>5. ASSUME NEW t \in Setters, KbdThread(t) PROVE HidIsOn' /\ ReplayInv'
  <2>1. at[t] # "idle" /\ running' = running
    BY <1>5 DEF KbdThread, Send, SendFails, Record, DraftSave, SaveSection
  <2>2. running' = "serving"
    BY <1>1, <1>5, <2>1 DEF ThreadsPlaced
  <2>3. HidIsOn'
    BY <1>1, <1>5, HidStays DEF Threads
  <2> QED BY <2>2, <2>3 DEF ReplayInv
<1>6. CASE Send(Starter)
  <2> DEFINE mine == todo[Starter]
  <2>1. /\ at[Starter] = "send" /\ at'[Starter] = "record" /\ todo' = todo /\ base' = base
        /\ restore' = restore /\ backend' = backend /\ running' = running
        /\ disturbed' = disturbed /\ Accepts(Head(mine))
    BY <1>1, <1>6 DEF Send, fixed, saves
  <2>2. HidIsOn'
    BY <1>1, <1>6, HidStays DEF KbdThread
  <2>3. SUFFICES ASSUME running \in {"replaying", "replayed"}, Replays(base), ~disturbed
                 PROVE  /\ mine # <<>>
                        /\ backend = "acpi" => EcReplay(base, mine, "record", lamp', led')
                        /\ backend = "hid" => HidReplay(base, mine, "record", lamp')
    BY <2>1, <2>2 DEF ReplayInv, Replays
  <2>4. /\ mine # <<>> /\ base \in Sections
        /\ backend = "acpi" => EcReplay(base, mine, "send", lamp, led)
        /\ backend = "hid" => HidReplay(base, mine, "send", lamp)
    BY <1>1, <2>1, <2>3 DEF ReplayInv, Replays
  <2> QED BY <1>1, <2>1, <2>4, EcSend, HidSend
<1>7. CASE SendFails(Starter)
  <2> DEFINE mine == todo[Starter]
  <2>1. /\ at[Starter] = "send" /\ base' = base /\ restore' = restore /\ backend' = backend
        /\ running' = running /\ disturbed' = (disturbed \/ Valid(Head(mine)))
    BY <1>7 DEF SendFails, fixed, saves
  <2>2. HidIsOn'
    BY <1>1, <1>7, HidStays DEF KbdThread
  <2>3. ASSUME running \in {"replaying", "replayed"}, Replays(base), ~disturbed
        PROVE  Valid(Head(mine))
    <3>1. /\ mine # <<>> /\ base \in Sections /\ backend \in {"acpi", "hid"}
          /\ backend = "acpi" => EcReplay(base, mine, "send", lamp, led)
          /\ backend = "hid" => HidReplay(base, mine, "send", lamp)
      BY <1>1, <2>1, <2>3, KbdConfigured DEF ReplayInv, Replays
    <3> QED BY <3>1, ReplayIsValid
  <2> QED BY <2>1, <2>2, <2>3 DEF ReplayInv, Replays
<1>8. CASE Record(Starter)
  <2> DEFINE mine == todo[Starter]
  <2>1. /\ at[Starter] = "record" /\ todo'[Starter] = Further(mine) /\ base' = base
        /\ at'[Starter] = (IF Further(mine) # <<>> THEN "send" ELSE "idle")
        /\ restore' = restore /\ backend' = backend /\ running' = running
        /\ disturbed' = disturbed /\ lamp' = lamp /\ led' = led
    BY <1>1, <1>8 DEF Record, fixed, saves, device
  <2>2. HidIsOn'
    BY <2>1 DEF HidIsOn
  <2>3. SUFFICES ASSUME running \in {"replaying", "replayed"}, Replays(base), ~disturbed
                 PROVE  /\ backend = "acpi" =>
                              EcReplay(base, Further(mine), at'[Starter], lamp, led)
                        /\ backend = "hid" => HidReplay(base, Further(mine), at'[Starter], lamp)
    BY <2>1, <2>2 DEF ReplayInv, Replays
  <2>4. /\ mine # <<>> /\ base \in Sections
        /\ backend = "acpi" => EcReplay(base, mine, "record", lamp, led)
        /\ backend = "hid" => HidReplay(base, mine, "record", lamp)
    BY <1>1, <2>1, <2>3 DEF ReplayInv, Replays
  <2> QED BY <2>1, <2>4, EcRecord, HidRecord
<1>9. CASE DraftSave(Starter) \/ SaveSection(Starter)
  BY <1>1, <1>9 DEF DraftSave, SaveSection, ThreadsPlaced
<1>10. CASE KbdStart
  <2>1. /\ base' = section /\ lamp' = lamp /\ led' = led /\ backend' = backend
        /\ restore' = restore
        /\ Replays(section) => todo'[Starter] = ReplaySteps(section) /\ at'[Starter] = "send"
    BY <1>1, <1>10 DEF KbdStart, fixed, device
  <2>2. HidIsOn'
    BY <2>1 DEF HidIsOn
  <2>3. SUFFICES ASSUME Replays(section)
                 PROVE  /\ ReplaySteps(section) # <<>>
                        /\ backend = "acpi" =>
                             EcReplay(section, ReplaySteps(section), "send", lamp, led)
                        /\ backend = "hid" =>
                             HidReplay(section, ReplaySteps(section), "send", lamp)
    BY <2>1, <2>2 DEF ReplayInv, Replays
  <2>4. section \in Sections /\ backend # "none"
    BY <1>1, <2>3 DEF Replays
  <2> QED BY <1>1, <2>4, ReplayTyped, EcBegins, HidBegins DEF HidIsOn
<1>11. CASE ReplayDone
  <2>1. /\ running = "replaying" /\ running' = "replayed"
        /\ UNCHANGED <<backend, restore, lamp, led, base, at, todo, disturbed>>
    BY <1>11 DEF ReplayDone, fixed, device, saves
  <2> QED BY <2>1 DEF HidIsOn, ReplayInv, Replays
<1>12. CASE KbdServe
  BY <1>3, <1>12 DEF KbdServe, fixed, device
<1>13. CASE DesktopSetsLed
  BY <1>13 DEF DesktopSetsLed, fixed, HidIsOn, ReplayInv
<1>14. CASE KbdKilled
  BY <1>14 DEF KbdKilled, fixed, device, FreshLamp, HidIsOn, ReplayInv
<1>15. CASE UNCHANGED kbdVars
  BY <1>2, <1>15 DEF kbdVars
<1>16. ASSUME NEW t \in Setters,
              \/ SetKeyboardMode(t) \/ SetKeyboardBrightness(t) \/ SetKeyboardZone(t)
              \/ SetKeyboardKey(t) \/ SetSomethingElse(t)
       PROVE  \E steps : Begin(t, steps)
  BY <1>16 DEF SetKeyboardMode, SetKeyboardBrightness, SetKeyboardZone, SetKeyboardKey,
               SetSomethingElse
<1> QED
  <2>1. CASE KbdThread(Starter)
    BY <1>6, <1>7, <1>8, <1>9, <2>1 DEF KbdThread
  <2> QED
    BY <1>4, <1>5, <1>10, <1>11, <1>12, <1>13, <1>14, <1>15, <1>16, <2>1 DEF KbdNext

(* After a replay in which no write failed and nobody else wrote, the device  *)
(* shows what the file says: for any saved section, any set of saved keys and *)
(* either backend, whatever the driver's caches held before (replay_saved,    *)
(* service.rs:751-797).                                                       *)
THEOREM ReplayIsWhole == KbdSpec => []ReplayRestores
<1>1. KbdInit => HidIsOn /\ ReplayInv
  BY DEF KbdInit, Stopped, FreshLamp, HidIsOn, ReplayInv
<1>2. Orderly /\ ReplayInv => ReplayRestores
  <2> SUFFICES ASSUME Orderly, ReplayInv, running = "replayed", Replays(base), ~disturbed
               PROVE  ReplayRestores
    BY DEF ReplayRestores
  <2> DEFINE lit == DOMAIN base.keys
  <2>1. at[Starter] = "idle" /\ base \in Sections /\ backend \in {"acpi", "hid"}
    BY KbdConfigured
       DEF Orderly, KbdIInv, KbdTypeInv, SavesTypes, ControlTypes, ThreadsPlaced, Replays, Threads
  <2>2. /\ todo[Starter] = <<>>
        /\ backend = "acpi" => EcReplay(base, <<>>, "idle", lamp, led)
        /\ backend = "hid" => HidReplay(base, <<>>, "idle", lamp)
    BY <2>1 DEF ReplayInv
  <2>3. CASE backend = "acpi"
    <3>1. /\ lit # {} => lamp.keys = [k \in Keys |-> base.keys[FirstKey(lit)]]
          /\ base.mode = "static" => lamp.on /\ lamp.level = EcLevel(base.brightness)
          /\ base.mode = "off" => ~lamp.on
      BY <2>2, <2>3 DEF EcReplay
    <3>2. \A k \in lit : lamp.keys[k] = base.keys[FirstKey(lit)]
      <4>1. lit \subseteq Keys
        BY <2>1, SavedKeys
      <4> QED BY <3>1, <4>1
    <3> QED BY <2>3, <3>1, <3>2 DEF ReplayRestores
  <2>4. CASE backend = "hid"
    <3>1. /\ lamp.on /\ lamp.level = HidLevel(base.brightness)
          /\ \A k \in lit : lamp.keys[k] = base.keys[k]
      BY <2>2, <2>4 DEF HidReplay
    <3> QED BY <2>4, <3>1 DEF ReplayRestores
  <2> QED BY <2>1, <2>3, <2>4
<1> QED
  BY <1>1, <1>2, OrderlyAlways, ReplayStep, PTL DEF KbdSpec
=============================================================================
