# clevo-cc: TLA+ models, checks and proofs

clevo-cc controls fans, performance mode, keyboard light and battery charging
of Clevo laptops from Linux. A root daemon, `clevod`, owns the hardware: it
takes D-Bus calls, commands the embedded controller (EC) through the kernel
driver `clevo-cc` or through `acpi_call`, remembers what the user chose in
`/etc/clevo-cc/clevod.toml`, and replays it at start. A command line client and a
desktop UI talk to the daemon only.

This directory models the parts of that program in which the order of steps,
their failure, or the end of the process in their middle decides whether the
user's settings survive.

    tlc -config FanConcurrent.cfg MCFanSettings      # each .cfg names its run
    tlapm FanSettings_proofs.tla                     # each *_proofs module

`PROJECT.json` lists the runs, the line of source each definition stands for, the
hazards with the properties that cover them, and the findings.

## Inventory

| part | state it keeps | operations | talks to |
|---|---|---|---|
| fan settings: `clevod/src/service.rs` | `baseline` (loaded config), `last_fan_mode`, `DaemonState.saved_curve`, `fan_mode`, `applying`, `persistence_lock` | `set_curve`, `set_fan_mode`, `capture_factory_curve`, `apply_saved`/`replay_saved`, `persist`/`to_config`, `sync_modes` | EC through the transport; `config.rs` for the file |
| standard charge thresholds: `power.rs` | `charge_thresholds` of `baseline`, `Power.lock` | `set_charge_window`, `set_thresholds_using`, `write_window`, replay | `power_supply` attributes in sysfs |
| native charge thresholds: `power.rs`, `power/native.rs` | the same | `set_native_using` | the driver's `flexicharger` file |
| kernel FlexiCharger: `clevo-cc.c` | the firmware's window, `charge_lock` | `flexicharger_show`, `flexicharger_store` | firmware commands |
| performance mode: `service.rs`, `clevo-cc.c` | `last_perf_mode`, `perf_lock`; the driver's `perf_mode`, platform profile | `set_perf_mode`, `sync_modes`, `perf_mode_store`, `profile_set` | EC, desktop power profile |
| polling: `main.rs`, `state.rs` | cached readings and their freshness | `poll_fan`, `read_status`, `apply_status`, `mark_fan_stale` | EC |
| authorization: `policy.rs`, `dbus.rs` | cache of senders, cache of answers | `require`, `authorized` | PolicyKit, `/proc`, logind |
| keyboard: `clevo-transport/src/keyboard.rs`, `clevo-cc.c` | snapshot of mode, brightness, colours; the driver's LED state under `keyboard_lock` | setters, `keyboard_rgb_store`, the LED class device, replay | USB HID or EC |
| kernel fan attributes: `clevo-cc.c` | `cc->fan_mode` | `fan_mode_store`, `fan_curve_store` (read, merge, write) | EC |
| fan curve codec: `clevo-proto/src/fan_curve.rs` | none | validate, encode, decode, slopes, duties, `same_writable_state` | - |
| transports: `clevo-transport` | none, or `acpi_call`'s one reply | a status or a capability read, out of several files or commands | sysfs, `acpi_call`, a recording |
| CLI: `clevo-cc-cli` | none | status, writes with `--apply`, `doctor` | daemon, or a transport |
| UI backend: `ui/src-tauri` | wallpaper, launch preferences, autostart entry, last CPU sample | one thread per request | daemon, files |
| UI front end, packaging | the editors' drafts; - | - | UI backend; systemd |

What is hard about them, and what would make them correct:

* *Overlap.* D-Bus calls run on the threads of a multi-threaded runtime. Only
  the save (`persistence_lock`), the performance mode (`perf_lock`) and the
  charge window (`charge_lock`, `Power.lock`) are serialised; a fan call is a
  series of steps on the EC, an atomic, a mutex and a file. Correct means: when
  the calls are over, EC, memory and file agree, and no save put an older choice
  over a newer one.
* *Irreversible writes.* No command brings the shipped fan curve back. Correct
  means: the daemon records it before the first write, records nothing else in
  its place, and never loses it again.
* *Replay.* After a kill or a power loss at any point the file is replayed on an
  EC that kept everything or nothing. Correct means: the EC ends as the file says,
  and never runs `custom` over a table nobody chose.
* *Transactions on hardware that lies.* A threshold write may fail, take effect
  and fail, be ignored, or store something else. Correct means: a true report, the
  way back taken, valid windows in between, all of it under other writers and
  kills.
* *Locks on error paths, and locks others keep taking.* Correct means: every call
  returns, and a choice that waits for the lock still reaches the disk.
* *State others change.* The performance mode, the keyboard and the fan table have
  other writers: the desktop's power profile and LED slider, scripts, a second
  program. Correct means: what the daemon believes is wrong only while such a write
  has not been seen yet, and settles on the truth once the machine is left alone.
* *Answers that come late, twice, or from somebody else.* PolicyKit races a timeout;
  a daemon exits and starts between two of the calls that make up one status;
  `acpi_call` has one reply for everybody. Correct means: nothing is granted, shown
  as fresh or believed that nobody said.
* *Conversions.* Percent to duty and back, speed to period and back, points to
  slopes, the kernel's text and the daemon's curve. Correct means: what was set reads
  back as it was given, and what was read may be written again.

`PROJECT.json` has the hazards line by line, those no property covers yet
included.

## Modules

| module | models |
|---|---|
| `FanSettings` | the fan settings of clevod over the EC and the file |
| `StandardCharge` | thresholds as `power_supply` attributes, transaction, save, replay |
| `AtomicCharge` | the promise of a charge transaction: change at once and say so, refuse and say so, or say that it is broken |
| `FlexiCharger` | the kernel's `flexicharger_store`; implements `AtomicCharge` |
| `NativeCharge` | the daemon's transaction on that file; EXTENDS `FlexiCharger`, whose calls its own steps interleave with |
| `Authorization` | `require` in front of every writing handler, and its two caches |
| `PerfStatus` | the performance mode and the polled status: memory, property and file against a driver that others write, too |
| `Keyboard` | setters, replay and save over two backends and the kernel's LED state |
| `CurvePath` | the curve codec, and the kernel's unlocked read, merge and write of the table |
| `Transports` | a status and a capability read through the driver's files, `acpi_call` and a recording |
| `Clients` | clevo-cc, the UI's snapshot and the doctor against a daemon that polls, exits and restarts |
| `DesktopFiles` | the UI backend's threads over the wallpaper, preferences, autostart entry and CPU sample |
| `MCDaemon` | composes `Authorization` and `PerfStatus` for one run |
| `MCParts` | composes the five modules from `Keyboard` to `DesktopFiles` for one run |
| `MCNativeCharge` | `FlexiCharger` alone and `NativeCharge` over it, for one run |
| `MCFanLive` | two halves of `FanSettings` for one run: competing calls, and start-up |
| `MCFanSettings`, `MCStandardCharge`, `MCKeyboard` | the small instances of the other runs |
| `FanSettings_proofs`, `FanOutcome_proofs` | theorems of `FanSettings`: the choices on disk; then everything that follows the EC, the factory curve and the replay |
| `StandardCharge_proofs` | theorems of `StandardCharge` |
| `NativeCharge_proofs` | theorems of `FlexiCharger`, its refinement of `AtomicCharge`, and `NativeCharge` |
| `Daemon_proofs` | theorems of `Authorization`, `PerfStatus` and their composition |
| `Keyboard_proofs`, `CurvePath_proofs` | theorems of `Keyboard` and of `CurvePath` |
| `Parts_proofs` | theorems of `Clients`, `DesktopFiles`, `Transports` and of the composition `MCParts` |

`MCDaemon` and `MCParts` compose parts that share no state: a behaviour is about one
of them and the others stay where they start, so that the run costs the sum of the
parts and not their product. `MCNativeCharge` and `MCFanLive` do the same with two
environments of one system: a variable `about`, chosen once, says which. Parts that do
interact are composed step by step:
`NativeCharge` with the kernel's calls, `FanSettings` with the EC and the file,
`PerfStatus` with the driver's other writers, `Keyboard` with the kernel's LED state,
`CurvePath` with programs and scripts over one kernel table.

Operators whose comment begins with "Fault:" are not part of a specification;
each is a plausible mistake in the definition after it, used to see that a
property notices.

### FanSettings

One label of `pc` per stretch of code between two touches of shared state.

| code | model |
|---|---|
| EC table and mode | `ec.curve`, `ec.mode` |
| `clevod.toml` | `file` (fan fields and `apply_on_start`) |
| `Service.baseline`, `last_fan_mode`, `state.saved_curve`, `state.fan_mode` | same names |
| `persistence_lock`, the config `to_config` builds under it | `saver`, `snap` |
| `applying` | `phase = "replaying"` |
| `capture_factory_curve` | `CheckFactory`, `ReadCurve`, `RecordFactory` |
| `set_curve` | `SetCurve` then capture, `WriteCurve`, `SelectCustom`, `RememberCurve`, `RememberCustom` |
| `set_fan_mode` | `SetFanMode`, `WriteMode`, `RememberMode`, `ShowMode` |
| `persist` | `LockAndReadBaseline`, `ReadLastMode`, `ReadSavedCurve`, `Save` |
| `apply_saved`, `replay_saved` | `Boot`, capture, `SkipReplay`, `ReplayNoCurve`, `ReplayInvalidCurve`, `ReplayCurve`, `ReplayNoMode`, `ReplayMode`, `Serve` |
| `sync_modes` | `PollRead`, `PollStore` |
| a setter of another part reaching its `persist` | `OtherSetter` |
| another program writing the driver's `fan_mode` | `ExternalMode` |
| `apply` returning an error | `WriteFails`: the write has had no effect, or all of it (`Effect`) |
| kill, power loss | `Killed`, `PowerLoss` at any step |

A curve is, per channel, the two points command 14 carries as one value, or `Skip`
when both temperatures are zero: `Written` leaves such a channel to the EC and
`SameWritable` does not compare it, as `encode_curve` and `same_writable_state`
do. Curves the encoder refuses are those outside `Encodable`.

`PowerLoss` keeps the file as the last finished save left it. `config::save` writes a
temporary file and renames it without an fsync (`config.rs:352`), so this assumes a file
system that keeps what has been renamed. On one that does not, a power loss may bring
back the older file, which is a power loss before that save, or leave an empty one, which
loads as the defaults; a factory curve on disk is then lost, and `FactoryNeverReplaced`
does not speak of that.

### StandardCharge

`dev` is the driver's window per battery, `saved` and `file` the remembered ones. A
transaction goes `Begin` (validation and first reading), `WriteAttr` for each
attribute in the order `WriteWindow` chooses, `Verify`, `Record`, `Persist`; on
trouble `ReadCurrent`, the attributes again, `VerifyRestore`. `WriteFails` covers
a refused write and one that takes effect and fails; `WriteAltered` a driver that
stores another value; readings may lose an attribute. `altered` and `suspect` are
history: batteries whose driver lied, and batteries the daemon has no claim on.

### FlexiCharger and NativeCharge

`FlexiCharger` has a step per firmware command of `clevo_cc_charge_set`, under
`owner` (`charge_lock`). A command is refused, late, ignored or altered; reads
fail. `NativeCharge` adds `set_native_using`: `Ask`, `WriteFile` (which enters the
kernel's call), `Written`, `Readback`, `Recheck`, the way back. A kill leaves the
system call running (`OrphanEnds`), and the next daemon asks once it has ended: the
kernel ends a process when its system calls have returned, and systemd starts a daemon
when the last one has ended. `Meddle` is another process. `KernelFairness` is what the
kernel owes its callers.

### Authorization

A call goes `lookup`, `proc`, `remember`, `check`, `asked`, `run`; every step boundary
is an await of the code. What is decided on is the code's subject: the pid and the uid
the bus gives for the sender, the start time found under `/proc` afterwards, and the login
session. A process may exit at any of these steps and another one be given its pid
(`ProcessStarts`, `ProcessExits`), so the start time may be another process's, or 0 when
nobody has the pid or `/proc` cannot be read (`StartsSeen`). PolicyKit refuses a start
time of 0; the daemon then falls back to the uid. Two processes of one boot that have the
same pid have different start times (`StartsDiffer`): a pid is not given again within one
clock tick.

| code | model |
|---|---|
| `CcDaemon.subjects`, cleared at 64 entries | `subjects`, `MaxSubjects` |
| `PolicyKitAuthorizer.cache` | `decisions` |
| `require`: cached sender, or bus, then `/proc` | `KnownSender`, `AskBus`, `SenderUnknown`, `ReadProc`, `RememberSender` |
| `authorized`: cached decision, PolicyKit, timeout | `KnownDecision`, `AskPolicyKit`, `PolicyKitAnswers`, `GiveUp` |
| the handler behind it | `Handle` |
| a client starting, or exiting and leaving its pid to another | `ProcessStarts`, `ProcessExits` |

`OnlyAuthorized` holds with one exception, which it names: a caller that has exited before
its call is handled may be taken for the process that has its pid by then. A caller that
still runs needs a grant of its own.

### PerfStatus

| code | model |
|---|---|
| `last_perf_mode`, `DaemonState.perf_mode`, `DaemonState.fan` | `last`, `shown`, `fan` |
| `perf_lock`, `persistence_lock` | `perfLock`, `fileLock` |
| `set_perf_mode` | `CallSetPerfMode`, `RefusePerf`, `ApplyPerf`, `RememberPerf`, `ShowPerf` |
| `poll_fan`: `sync_modes`, then the status | `BeginPoll`, `SyncRead`, `SyncSkipped`, `SyncAdopt`, `ReadStatus`, `ApplyStatus` |
| `persist` | `DraftConfig`, `WriteConfig`; `CallOtherSetter` saves for another part |
| `perf_mode_store`, `profile_set` | `OutsidePerf` |

`drift` and `stale` are history: another program has changed the mode since the daemon
set or read it, and the last save failed.

### Keyboard

A setter is a list of device steps (`todo`), each sent (`Send`) and then recorded in
the snapshot (`Record`), and a save (`DraftSave`, `SaveSection`). On the HID backend a
step is a report to the controller (`HidLamp`); on the kernel's it is the list of EC
commands `EcCommands` gives, of which a failing one leaves a prefix carried out
(`SendFails`) and the driver's cached fields as `LedAfter` says. `DesktopSetsLed` is
the LED class device. `ReplaySteps` has the order of `replay_saved` for each backend.

### CurvePath

Percent (`Requested`), raw duties in a payload (`Encoded`), the driver's text
(`DriverText`), and the table with its slopes. `RunSetCurve` encodes and writes the
text; `SeedPayload`, `RefuseText` and `WritePayload` are the three stretches of
`fan_curve_store` between which other writers run; `SelectCustom` follows.
`SaveCurve` and `RestoreCurve` are a script's `cat` and `echo`. The numbers are the
real ones: bytes, percentages and the rounding of both languages.

### Transports

One step per file read (`ReadFile`), per write of a command and per read of a reply
(`WriteCommand`, `CollectReply`) and per recorded answer (`Replay`). `Stranger` is
another user of `acpi_call`, `ReadingsChange` the machine. Periods, speeds and the CPU
temperature are converted as the code does, on the numbers of both sides.

### Clients

`DaemonStarts`, `DaemonExits` and the polls are the daemon as its clients see it.
A status is one `ReadProperty` after the other, each of which may fail (`CallFails`): the
instance is gone, late, or of another version. A setter is refused without `--apply`;
otherwise the daemon carries out its writes one by one (`CarriedOut`; `set_curve` has two)
and may fail, exit or be misunderstood between any two, so an error tells nothing of what
was done. The doctor goes through `Checks` in the order of `doctor.rs`, of which those of
the daemon may fail as the calls do and the mock's may find a fixture that does not parse,
and skips the checks behind a failed one where the code does (`FileCheck`,
`ResolveService`, `ProbeDaemon`, `DoctorExits`).

### DesktopFiles

Every system call that changes a file is a step: `RemoveOne`, `CreateImage`,
`FillImage`; `TruncatePrefs`, `FillPrefs`; `CreateTemp`, `FillTemp`, `RenameTemp`.
`CompareSample` is the step under the mutex of `cpu_percent`. `UiKilled` may come
between any two, and any of them may fail (`ImageFails`, `EntryFails`; a removal that
fails is ignored, as in the code).

Two history variables say what the wallpaper should be: `kept`, the one saved last, and
`calm`, that the last save or clear began alone and has since neither met another one nor
failed nor been killed. A kill ends `calm`, and the next save or clear that begins alone
begins it again, on whatever files the kill left: `WallpaperKept` is a property of crash
recovery. It says that what is found at such a moment is the wallpaper saved last, or none
if its extension is not tried; that this exception loses wallpapers is finding 5
(`WallpaperSurvives`).

## Runs

| run | shows |
|---|---|
| `FanConcurrent` | three calls at once, reads, writes and saves failing, kills and power losses anywhere: the file catches up with memory (`ChoicesOnDisk`), never selects custom without a curve (`CustomHasCurve`), a replay without failures restores it (`RestoredOnStart`) and never runs custom over another table (`ReplayNeverBlind`), a recorded factory curve stays (`FactoryNeverReplaced`) |
| `FanSequential` | one call at a time, current and hand-edited files, hardware and disk that work, restarts of both kinds: the factory curve is the shipped one and on disk, memory and EC agree at rest |
| `FanLive` | two halves. Calls: over writes and saves that succeed, a choice reaches the disk under competition (`ChoiceReachesDisk`) and stale polls are corrected (`PollShowsMode`). Start-up: whatever read, write or save fails and from each of nine files, it comes to serve (`StartupCompletes`) |
| `FanMigrated` | finding 1 |
| `FanRace` | finding 2 |
| `FanReplayCapture` | finding 3 |
| `StandardCharge` | two batteries, every request, two faults per transaction: valid windows throughout, true reports, one fault undone, the remembered window is the driver's |
| `NativeCharge` | two halves. The kernel alone, two processes, two faults per call: `AtomicCharge` is implemented (`StoreIsAtomic`), one fault is undone (`OneFaultRestored`), every call returns (`StoreReturns`). The daemon over the kernel, two faults per transaction, another writer, kills: true reports (`ReportHonest`), one trouble recovered from (`OneTroubleSurvived`) |
| `Daemon` | `Authorization`: two overlapping calls of two senders, one of them root's or both one user's and the later with the pid of the one that has exited; a cache of one, lookups that fail or find no start time, a PolicyKit that refuses or never answers: handlers run for authorized processes only (`OnlyAuthorized`), every call is answered (`CallsAnswered`). `PerfStatus`: poll loop, a D-Bus call and start-up with failures, kills, power losses and other writers: driver, memory, property and file agree between two holders of `perf_lock` (`PerfAgrees`), and the daemon's view settles (`StatusSettles`) |
| `Parts` | keyboard: the file holds the snapshot at rest (`SavedKeyboard`), a replay without failures restores the device (`ReplayRestores`), off stays off (`OffStaysDark`). Curve: what was set reads back (`CurveTakesEffect`), the table is never torn (`TableWhole`), what is shown may be written back (`RestoreAccepted`). Reads are of the moment and of the machine (`ReadsAreTrue`). What a client says holds (`AnswersHold`). Files of the UI recover from kills, failures and overlaps (`FilesHold`) |
| `KeyboardKept` | finding 4 |
| `WallpaperLost` | finding 5 |

### Bounds, and why they are enough

* *Calls.* `FanConcurrent` has three calls at once that share one curve and one mode:
  two to race and one that saves in between; `FanLive` has two in its first half, and none
  in its second, whose threads are the start-up's. The theorems below hold for any number.
* *Two channels, three values.* What the code asks of curves is equality per channel
  and absence. `FanConcurrent` and `FanLive` use the curve that leaves a channel alone,
  `FanSequential` one more that writes both and one that cannot be encoded; the third
  value is the shipped one.
* *Modes.* `custom`, the mode after power-on, and one other: the code treats the
  normal modes alike. `FanConcurrent` requests the other one only, so that its
  `CustomHasCurve` has its premise (see the first of the open points).
* *Files.* `FreshFiles`, `CurrentFiles`, `EditedFiles`, `MigratedFiles` in
  `MCFanSettings`: no file, the files this version writes, the files a user may
  leave, the files of a version before the factory snapshot. `MCFanLive`'s start-up begins with
  `LiveFiles`: one or more of each kind, not to be applied and not to be encoded included.
  `FanConcurrent` starts without a file: calls, kills and failures lead it to every file
  this version can leave, the torn ones included (a curve without a mode, a curve without
  a factory curve).
* *Percentages* are a few small numbers: the code compares them with each other, with
  0 and with 100 only. `MCStandardCharge` uses 0, 1, 2: zero is a legal start and an
  illegal end.
* *Faults.* `MaxFaults` = 2 per transaction or call: the properties distinguish none,
  one and more than one. In `FlexiCharger` the count is per client, in `NativeCharge` per
  transaction, from its first write on.
* `NativeCharge`, daemon's half (`DaemonBound`): only the daemon's commands go wrong, the
  other writer stands for another cause of trouble. Three windows are on offer, to be old,
  new and foreign, and an altered command may store a fourth that cannot be read.
* `Daemon`: a cache of one sender (`MaxSubjects`) is full as soon as the second sender
  calls, so clearing falls between every two steps of a call. Two processes at a time
  (`Cast`): one after the other on one pid, or one of them root's. There is one login
  session (`Sessions`): it is part of the key of a cached decision and not of the question
  PolicyKit is asked. `MaxOutside` = 2 bounds
  the calls and changes from outside and `MaxTroubles` = 2 the failures, kills and power
  losses of a behaviour: a change the daemon has not seen, a second one while it is
  being saved, and one failure at each. Three performance modes: two the firmware
  advertises and one it does not.
* `Parts`: two setters (`MaxCalls` = 2) and a replay, two keys in one zone, brightness
  0, 10 and an illegal 101, and sections that are absent, dark and dim; in `CurvePath`
  a program and a script, of which a third writer would repeat one, start `MaxRuns` = 2
  commands with curves that have a rising, a falling, an out-of-range and an absent
  channel; one reader with `MaxChanges` = 2 of the readings,
  because readers do not change anything for each other except on `acpi_call`, where
  `Stranger` stands for them; `MaxInstances` = 2 and `MaxPolls` = 2 of the daemon: a
  status across one restart; two requests at once and `MaxTicks` = 2.

### Fairness

`FanLive`, in both halves: each daemon thread, the start-up and the two steps of a poll are
weakly fair: threads run while the process lives and the poll loop ticks. Calls, failures,
kills, starts and other programs owe nothing. Weak fairness gives no thread the
lock: `ChoiceReachesDisk` holds because whoever does get it saves the choice too.
Poll fairness is the case without `--no-poll`.

`NativeCharge`: strong fairness of each call's kernel steps (`KernelFairness`), for the one
step that can be disabled and enabled again: a kernel mutex hands itself to a waiter that has
waited too long.

`Daemon`: every step of an authorization call that does not depend on PolicyKit is weakly
fair (`DaemonStep`), the timeout included: the runtime polls its futures and its timer.
PolicyKit's answer is not. systemd starts the daemon again, its threads go on and the
timer ticks (`PerfFairness`); callers, other programs, failures and kills owe nothing
and are bounded, so they end, as the property's premise wants them to. The other runs
are safety only.

Deadlock is checked in every run but `Parts` and `WallpaperLost`; a daemon that is down can
start again,
and one at rest can be called. In `Parts` the bounds on calls, changes and requests
end a behaviour.

## Proofs

TLAPS proves, for every value of the constants that the named assumptions allow:

| theorem | statement |
|---|---|
| `FanSettings_proofs!Invariance` | `Spec => []IInv` |
| `FanSettings_proofs!TypeCorrect` | `Spec => []TypeOK` |
| `FanSettings_proofs!ChoicesSafe` | `Spec => []ChoicesOnDisk` |
| `FanOutcome_proofs!FactoryKept` | `Spec => FactoryNeverReplaced` |
| `FanOutcome_proofs!FactoryShipped` | `FactoryIsShipped`, if reads and saves succeed and no file has a user's curve without a factory curve |
| `FanOutcome_proofs!FactorySaved` | `FactoryOnDisk`, if reads succeed |
| `FanOutcome_proofs!CustomSafe` | `CustomHasCurve`, if no request and no file reaches custom without a curve |
| `FanOutcome_proofs!ReplayRestoresFan` | `RestoredOnStart`, on a transport that writes, if no other program sets the mode |
| `FanOutcome_proofs!ReplayIsNeverBlind` | `ReplayNeverBlind`, if no other program sets the mode |
| `FanOutcome_proofs!ModeHolds` | `ModeMatchesHardware`, for one call at a time, writes that succeed and no other program |
| `FanOutcome_proofs!CurveHolds` | `CurveMatchesHardware`, for one call at a time, writes that succeed, and custom through `set_curve` only |
| `StandardCharge_proofs!ChargeTypes` | `Spec => []TypeOK` |
| `StandardCharge_proofs!WindowsValid` | `Spec => []WindowStaysValid` |
| `StandardCharge_proofs!OutcomesHonest` | `Spec => []OutcomeHonest` |
| `StandardCharge_proofs!SavedMatches` | `Spec => []SavedIsDevice` |
| `StandardCharge_proofs!OneFaultIsSurvived` | `Spec => []OneFaultSurvived` |
| `NativeCharge_proofs!KernelTypes` | `FlexiCharger`: `Spec => []TypeOK` |
| `NativeCharge_proofs!StoreAtomic` | `FlexiCharger`: `Spec => StoreIsAtomic`, the refinement of `AtomicCharge` |
| `NativeCharge_proofs!OneFaultIsRestored` | `FlexiCharger`: `Spec => []OneFaultRestored` |
| `NativeCharge_proofs!NativeTypes` | `NativeSpec => []NativeTypeOK` |
| `NativeCharge_proofs!ReportsAreHonest` | `NativeSpec => []ReportHonest` |
| `NativeCharge_proofs!OneTroubleIsSurvived` | `OneTroubleSurvived`, if the commands of the other writers go well |
| `Daemon_proofs!PerfModesAgree` | `PerfSpec => []PerfAgrees` |
| `Daemon_proofs!AuthTypes` | `AuthSpec => []AuthTypeOK` |
| `Daemon_proofs!HandlersAuthorized` | `AuthSpec => []OnlyAuthorized` |
| `Daemon_proofs!DaemonTypes` | `MCDaemon`: `Spec => []TypeOK` |
| `Keyboard_proofs!KeyboardIsSaved` | `KbdSpec => []SavedKeyboard` |
| `Keyboard_proofs!KbdTypes` | `KbdSpec => []KbdTypeOK` |
| `Keyboard_proofs!OffIsDark` | `KbdSpec => []OffStaysDark` |
| `Keyboard_proofs!ReplayIsWhole` | `KbdSpec => []ReplayRestores` |
| `CurvePath_proofs!DutyRoundTrip` | `RawToPct(PctToRaw(p)) = p` for every percentage |
| `CurvePath_proofs!TableStaysWhole` | `CurveSpec => []TableWhole` |
| `CurvePath_proofs!SetCurveTakesEffect` | `CurveSpec => []CurveTakesEffect` |
| `CurvePath_proofs!RestoreIsAccepted` | `CurveSpec => []RestoreAccepted` |
| `CurvePath_proofs!CurveTypes` | `CurveSpec => []CurveTypeOK`, slopes of at most 4080 among it |
| `Parts_proofs!AnswersAreTrue` | `ClientsSpec => []AnswersHold` |
| `Parts_proofs!FilesAreKept` | `UiSpec => []FilesHold` |
| `Parts_proofs!SpeedSurvives` | the speed of any period of a fan word survives the way into a period and back |
| `Parts_proofs!ReadsTellTruth` | `ReadSpec => []ReadsAreTrue` |
| `Parts_proofs!PartsTypes` | `MCParts`: `Spec => []TypeOK` |

So every invariant and every action property of a passing run is a theorem, those about
`FanSettings` that hold under a premise (`one call at a time`, a disk that works) with the
premise the run's constants give them.

### The arguments

*ChoicesSafe.* `ChoicesOnDisk` says nothing about a save in progress, so it is not
inductive. `SnapInv` and `FileInv` strengthen it: a snapshot, or a file, that differs
from memory has some thread at a label from which it will still read the newer value
for a save of its own (`WillSaveMode`, `WillSaveCurve`). When no thread is at any
label, file and memory must agree. The lock (`LockInv`) makes the snapshot of the
moment unique, `PhaseInv` keeps calls and start-up apart, `StartInv` carries the
claim through the replay, which suppresses saving.

*FactoryKept* needs that what is on disk is in memory and in every snapshot on its
way to the disk (`KeptInv`). *FactoryShipped*: as long as no factory curve is on disk
the EC has never been written (`ShippedInv`), so the capture of the start-up, which
cannot fail here, records the shipped curve and saves it before anything can
overwrite it; from then on `FactoryKept`'s argument holds. *FactorySaved*
(`CapturedInv`): a snapshot or a file that lacks the factory curve in memory has a
thread behind it that will still save it; without failing reads the start-up has looked
before the replay begins, so that the replay, which saves nothing, captures nothing
(finding 3 is what happens otherwise). *CustomSafe* follows a snapshot through
`to_config`: the mode is read first and the curve second, and `set_curve` stores them in
the opposite order.

*ReplayRestoresFan, ReplayIsNeverBlind.* `ReplayInv` says at each label of the start-up
what of the file the EC has already, that `curve_applied` means the file's curve is in the
EC under custom, and that past the replay's last label, without failures, nothing is left
to restore. An action property of the step that leaves the replay follows. *ModeHolds,
CurveHolds*: with one call at a time a thread between its write to the EC and its note of
it is the only thread in a call (`Alone`); `ModeInv` and `CurveInv` say which value it
carries.

*WindowsValid* rests on `WriteWindowSafe`, about the operator that chooses the order:
from any window that could have been seen, with an attribute missing or not, each
prefix of the writes leaves a valid window. The invariant carries that for the
writes still to be done (`Safe`). *OutcomesHonest* and *SavedMatches* share `TruthInv`:
until a transaction is verified the remembered window is its `old`, afterwards its
`target`, and a reading that has every attribute of the battery is the driver's window
(`SeenWhole`). *OneFaultIsSurvived* counts (`CountInv`): a transaction that has counted no
fault reaches its target with the writes it still has (`Reaches`, over what
`WriteWindow` returns), and one on its way back that has counted one reaches the old
window with them.

*StoreAtomic* maps the abstract window to the old one while the lock is held, so the
change happens when the lock is released. The invariant `Safe` (types and `LockInv`)
says that the labels past the first belong to the lock's owner. *OneFaultIsRestored*
adds `WindowInv`: as long as a call's commands went right, the firmware holds what
the call believes it holds.

*ReportsAreHonest* (`HonestInv`) needs the labels at which the daemon's own system call is
running (`PlaceInv`) and that nobody else's is while `meddled` is 0 (`MeddledInv`): then
only the daemon's commands move the window, and what it read last is in force.
*OneTroubleIsSurvived* counts failed commands and writes by others as one sort of trouble
(`OneTrouble`). With none so far the window is `before` up to the daemon's write and
`target` after it; with one, either the daemon's commands were clear and somebody else's
write is over (`Past`) or nobody else wrote and the kernel put the window back
(`TransactionInv`, with `WritingInv` and `RollingInv` for the two system calls). The
premise, that a meddler's own commands do not fail, is the run's, too: such a failure
would be a second trouble the daemon cannot count.

*PerfModesAgree.* `PerfAgrees` speaks of moments at which nobody holds `perf_lock`.
`LocksHeld` says which steps it covers and that its holder is unique; `MemoryFollows`
what the holder knows of the driver's mode; `FileFollows` that a file, or a draft in
the hands of another saver, that differs from memory has the holder of `perf_lock`
behind it, who will still draft (`WillDraft`) or write (`WillWrite`) what is in memory.
That the first observation is saved only if the file lacks it (`NeedsSave`) is what
keeps memory and file together across a poll that saves nothing.

*HandlersAuthorized* carries through both caches what a subject says of the process it
stands for (`SubjectTrue`): pid and uid are its own, and the start time is its own, or 0,
or that of a later process with the pid, and then the first has exited; and who has said
yes (`Justified`): PolicyKit for the process the subject names, or the fallback for uid 0.
Names are never reused on a bus, which `ProcessOf`, a constant, states. *AuthTypes* needs
that a cache that is
cleared and then given one entry has one (`CacheBounded`).

*KeyboardIsSaved.* Either some setter is still before its draft, or the section on its
way to the disk, or on the disk when nobody saves, is the snapshot (`Saved`). *KbdTypes*
bounds what the two conversions of a percentage return and follows commands, for which
`Lamp` takes the last one to each register. *OffIsDark*: dark is what the snapshot says,
and what it will say once an accepted step has been recorded (`DarkInv`);
`BrightnessEffect` and `ChannelEffect` say that only a mode lights the lamp.
*ReplayIsWhole*: `EcReplay` and `HidReplay` say, for each remainder of the replay, what the
device shows already; on the HID controller the colours go out key by key, and `lit` minus
the keys still to be sent is what is lit.

*TableStaysWhole* follows the points a writer may still merge: whatever is in a seed,
and whatever rises in a text, was shipped or asked for (`AllCarried`).
*SetCurveTakesEffect* and *RestoreIsAccepted* follow one writer while it is `alone`
(`ProgramOnTrack`, `ScriptOnTrack`) and rest on *DutyRoundTrip*, whose arithmetic is
proved for all percentages, and on what the merge does to an absent channel.

*AnswersAreTrue* (`ClientsInv`): the instance on the bus is the newest one and has itself
polled what it shows as fresh (`BusInv`); a reader that read "fresh" first finds a reading
that has been taken, or one of an instance started since (`FreshInv`), which cannot be for
the doctor; the doctor asks the daemon only once it has resolved the
name, and then stays with it (`PinnedInv`); a needed check that has been carried out or
skipped and is not good has failed the report (`ReportInv`), which takes the order of the
doctor's list (`DoctorList`): `dbus.service` comes before the daemon's own checks.

*FilesAreKept* (`UiInv`): what a request holds is what its stage needs, the temporary file
of an entry that is about to be renamed is complete (`Holds`); while `calm`, one request at
most is on the wallpaper, it has removed what is no longer on its list, and without one the
only image that is tried is the one saved last (`Wallpaper`), whatever files there were when
it began; the share between any two samples that are known has been (`SharesKnown`).

*ReadsTellTruth* (`ReadInv`): what a reader has collected answers the questions it has
asked so far, each at some moment since it began (`Answered`), and with `acpi_call` the
reply in the buffer is to its own question unless someone came between (`Awaited`).
Moments only accumulate (`MoreMoments`). *SpeedSurvives* is the arithmetic of two
roundings (`WayBack`): the rounded quotient of 2 156 250 by a period is turned into a
period by the same rounded division, and dividing by that period comes back to it.

### What the theorems assume

The named `ASSUME`s type the constants and keep values that stand for "nothing" apart from
real ones. TLC evaluates them in every run. Those that say more:

* `ValuesTyped`: percentages of the firmware are at most 100, as `flexicharger_store`
  checks (`clevo-cc.c:1764`).
* `ClientsFinite`: finitely many processes write the file at a time.
* `KbdConfigured`, `KeysListed`: brightness, colours, keys and sections are of their types
  and `KeyOrder` lists the keys; a section in the file was parsed by the daemon.
* `ProcessesTyped`, `StartsDiffer`: a start time is positive, and of two processes with one
  pid the start times differ.
* `PerfTyped`, `ClientsBounded`, `FilesTold`: the bounds on restarts, polls, ticks and
  troubles are numbers. Any numbers: the theorems hold however long a behaviour is.
* `SamplesTyped`, `FirmwaresTyped`: periods are words and a temperature is a byte, which is
  what the driver and the payload carry.
* `WritersDistinct`, `ThreadsDistinct`, `DaemonIsClient`, `ValuesDistinct`: names differ.

`ReplayRestoresFan`, `ReplayIsNeverBlind`, `ModeHolds`, `CurveHolds`, `FactorySaved`,
`FactoryShipped`, `CustomSafe` and `OneTroubleIsSurvived` have premises about the
environment, given in the table. They are what the runs' constants say of it, and findings
1 to 3 are runs in which one of them does not hold.

### What is not proved

Liveness is beyond the prover and stays with TLC: `ChoiceReachesDisk`, `PollShowsMode` and
`StartupCompletes` of the fan settings, `CallsAnswered` and `StatusSettles` of the daemon,
and `StoreReturns` of the kernel's FlexiCharger.
The five expected violations are TLC's, too. TLC alone also checks the recursive
definitions by evaluating them; the prover cannot induct over data, so the models iterate
with a minimum over a set of naturals (`FirstKey` and `Further` over the keys, `Todo` over
the doctor's list, `Loaded` over the extensions). `MinOfNaturals`, that such a minimum
exists, is proved in `Keyboard_proofs` from the well-foundedness of strict inclusion among
the finite sets `0..n`, without the library's induction theorems.

## Findings

1. `FanMigrated`: from a configuration written before the factory snapshot existed,
   the user's own curve is recorded as the factory default at the second `set_curve`:
   the comparison is with the curve that was loaded, not with the one last written.
2. `FanRace`: two mode changes may reach the EC in one order and memory in the other.
3. `FanReplayCapture`: a factory curve first read during the replay stays in memory
   and is lost if the daemon ends before the next save.

4. `KeyboardKept`: the snapshot of a keyboard nobody has written to replaces the saved
   section at the next save of anything else. A replay that ran has made the two equal;
   with `apply_on_start` off, or after a replay that failed, the saved colours are lost.
5. `WallpaperLost`: a wallpaper is saved under any extension its file's name has, and looked
   for under seven; saved as `avif` it is shown, and gone at the next start
   (`assets.rs:3`: "so the choice survives a restart").

Open points without a line in the repository to hold them against: `set_fan_mode`
with `custom` after a restart in a normal mode runs the EC's own table while another
curve is reported as saved; a file that cannot be loaded is replaced at the next save;
the daemon's way back in `NativeCharge` may overwrite another program's success; a late
PolicyKit timeout may overwrite a grant by a refusal that is then cached for the
daemon's life; a save of `sync_modes` that fails is not tried again, because memory then
already has the mode; with a stranger on `acpi_call` a reader may be given the
stranger's answer; the start time of a D-Bus caller is read after two awaits
(`dbus.rs:96`), where `policy.rs:14` says it "must be read at the same time as the pid":
`OnlyAuthorized` names what that leaves; clevo-cc shows the zero of a daemon that has not
polled as fresh if it was started again between label and reading; the UI reads the
freshness label last and may call an older reading
fresh; a table whose points do not rise, once in the EC, is accepted unchanged by the
kernel but makes the daemon and the CLI refuse the whole curve; a keyboard
saved as off is lit by the brightness that the HID replay sends after it
(`docs/install.md:176` describes the kernel backend, where it stays dark).

## What the models leave out

* `config::load` failing or refusing a newer schema (defaults are used and later
  saved); mode numbers the daemon does not know.
* Failing reads of the fan mode in `sync_modes` (they change nothing).
* A rename that does not outlive the power (`config::save` has no fsync): see `FanSettings`.
* Of `Authorization`: messages without a sender (a peer-to-peer connection, which only
  tests open), and pids given again within one clock tick.
* Of `Clients`: what the doctor does when its own output cannot be written. The UI reads
  values before their label, and `FreshIsRead` says nothing of it.
* Of `DesktopFiles`: a write that is on its way to an image another request has removed
  goes to a file without a name, and its request fails or reports an image that is not
  there.
* `FanSettings` takes the kernel's `fan_curve_store` as one step; its reads and writes
  are apart in `CurvePath`. `fan_mode_store` and `fan_mode_show` touch `cc->fan_mode`
  without a lock (`clevo-cc.c:1210`): the race is the one of finding 2, one level down.
* `StandardCharge` saves always succeed; failing saves are in `FanSettings`, whose
  `persist` it is. `NativeCharge` leaves out the record, the save and the replay, which
  are the ones of `StandardCharge`, and power losses.
* Other programs that write `power_supply` attributes.
* Matching a native control with its battery, and parsing of the file's text.
* The platform_profile's names: `OutsidePerf` is any of its writes.
* Two PolicyKit actions at once: the cache is keyed by action.
* Keyboard effects other than static and off, the HID controller's packet layout, the
  driver's sleep timer command. The sender and the snapshot's lock are separate in the
  code: `OffStaysDark` is stated for callers that do not overlap.
* Opening a transport and choosing one; the fields of a status that no property is
  about; the layout of payloads, replies and of `--json`.
* clevo-cc's `fan watch` and its direct mode setters.
* The UI's front end, tray and windows: their state lives in one event loop and
  reaches the daemon through calls that are modelled. GPU, memory and disk usage.
* Packaging; that the service is restarted is assumed.

## Plan

Done: all modules of the table above, their runs, and theorems for every invariant and
action property they check. Left, in this order:

1. `StandardCharge` with a second writer of the attributes, and what is left of
   `WindowStaysValid` then.
2. `fan_mode_store` and the driver's cached mode in `CurvePath`, with the platform
   profile's handler as an action of its own beside `PerfStatus`.
3. The front end's polling hooks and drafts against `Clients`' daemon.
4. Abstract specifications of the fan settings and of the doctor, with the detailed
   modules proved to implement them.
