---------------------------- MODULE FanSettings ----------------------------
(***************************************************************************)
(* The fan settings of clevod: the embedded controller (EC) that acts on    *)
(* them, the in-memory copies, and the configuration file they are replayed *)
(* from.  D-Bus calls run on the threads of a multi-threaded runtime with   *)
(* no lock around a call (only `persist` is serialised), so each call is    *)
(* split where the code touches a different lock, atomic or device.  The    *)
(* daemon may be killed, and the machine may lose power, between any two    *)
(* of these steps.                                                          *)
(*                                                                          *)
(* A curve is what command 14 carries of it: per fan channel, the middle    *)
(* two points as one value, or Skip when both are zero ("leave this channel *)
(* alone").  Temperatures and duties are the business of FanCurveCodec.     *)
(***************************************************************************)
EXTENDS Naturals, FiniteSets

CONSTANTS
    Calls,          \* D-Bus calls that may be in flight at once
    Main,           \* the start-up thread, which runs apply_saved
    Nobody,         \* no thread: the persistence lock is free
    Channels,       \* fan channels of a curve (cpu, gpu1, gpu2)
    Points,         \* what a channel's two writable points may be
    Skip,           \* both writable points zero: channel absent from a write
    NoCurve,        \* Option::None for a curve
    Factory,        \* the curve the EC holds after power-on
    UserCurves,     \* the curves callers send and files hold
    Encodable,      \* those encode_curve accepts
    NormalModes,    \* the fan modes other than custom
    Custom,         \* fan mode 6, which makes the EC use the written curve
    AutoMode,       \* the mode the driver reports after power-on
    NoMode,         \* Option::None for a mode, and UNSET in last_fan_mode
    ModeRequests,   \* the modes callers ask set_fan_mode for
    InitialFiles,   \* configurations found on disk before the first start
    Writable,       \* transport.writable()
    Polling,        \* modes are polled (not --no-poll, and nobody calls Poll)
    ReadsFail,      \* may a command 13 read fail
    WritesFail,     \* may a command 14 or 121/1 write fail
    SavesFail,      \* may config::save fail
    ExternalWrites  \* phases in which another program may write the driver's fan_mode

Threads == Calls \cup {Main}
Modes   == NormalModes \cup {Custom}
Curves  == [Channels -> Points \cup {Skip}]
Config  == [fan_mode      : Modes \cup {NoMode},
            fan_curve     : UserCurves \cup {NoCurve},
            factory_curve : Curves \cup {NoCurve},
            apply_on_start : BOOLEAN]

ASSUME ThreadsDistinct == Main \notin Calls /\ Nobody \notin Threads
ASSUME CurvesTyped == /\ Factory \in Curves
                      /\ UserCurves \subseteq Curves
                      /\ Encodable \subseteq UserCurves
                      /\ NoCurve \notin Curves
ASSUME ModesTyped == /\ AutoMode \in NormalModes
                     /\ Custom \notin NormalModes
                     /\ NoMode \notin Modes
                     /\ ModeRequests \subseteq Modes
ASSUME InitialFilesTyped == InitialFiles \subseteq Config
ASSUME SwitchesTyped ==
    /\ {Writable, Polling, ReadsFail, WritesFail, SavesFail} \subseteq BOOLEAN
    /\ ExternalWrites \subseteq {"down", "starting", "replaying", "serving"}

VARIABLES
    ec,             \* the EC: the curve it holds and the mode it runs
    file,           \* clevod.toml
    phase,          \* "down", "starting", "replaying" (`applying`), "serving"
    baseline,       \* Service.baseline: the loaded config, merge base of a save
    last_fan_mode,  \* Service.last_fan_mode
    saved_curve,    \* DaemonState.saved_curve
    fan_mode,       \* DaemonState.fan_mode, the FanMode property
    saver,          \* holder of persistence_lock
    snap,           \* the config to_config is assembling under that lock
    pc, op, arg,    \* per thread: where it is, in which call, with which argument
    seen,           \* per thread: the EC curve capture_factory_curve has read
    after,          \* per thread: where persist returns to
    curve_applied,  \* replay_saved's local of that name
    failures,       \* apply_saved's failure list is not empty
    polled,         \* the mode sync_modes has read and not yet stored
    unsaved         \* the last save failed

store    == <<last_fan_mode, saved_curve, fan_mode>>
replay   == <<curve_applied, failures>>
saving   == <<saver, snap, unsaved>>
vars == <<ec, file, phase, baseline, store, saving, pc, op, arg, seen, after,
          replay, polled>>

EmptyConfig == [fan_mode |-> NoMode, fan_curve |-> NoCurve,
                factory_curve |-> NoCurve, apply_on_start |-> TRUE]
PowerOn == [curve |-> Factory, mode |-> AutoMode]

-----------------------------------------------------------------------------
(* Curves.                                                                   *)

\* Fault: the write is lost.
WrittenNothing(held, c) == held

\* What the EC holds once `c` has been written: absent channels keep theirs.
Written(held, c) ==
    [ch \in Channels |-> IF c[ch] = Skip THEN held[ch] ELSE c[ch]]

\* FanCurve::same_writable_state: `held` could be the read-back of `written`.
SameWritable(written, held) ==
    \A ch \in Channels : written[ch] # Skip => written[ch] = held[ch]

(* The configuration a save writes now, field by field as to_config builds   *)
(* it: what was set since start, over what was loaded.                       *)
ModeToSave  == IF last_fan_mode = NoMode THEN baseline.fan_mode ELSE last_fan_mode
CurveToSave == IF saved_curve = NoCurve THEN baseline.fan_curve ELSE saved_curve

-----------------------------------------------------------------------------
(* Control flow of a thread.                                                 *)

Goto(t, label) == pc' = [pc EXCEPT ![t] = label]

\* Where capture_factory_curve returns: apply_saved goes on to the replay,
\* set_curve to the write.
AfterCapture(t) == IF op[t] = "apply_saved" THEN "replay_curve" ELSE "write_curve"

\* Where set_curve and set_fan_mode return.
AfterCall(t) == IF t # Main THEN "idle"
                ELSE IF op[t] = "set_curve" THEN "replay_mode" ELSE "serve"

\* A call's locals end with it.
Leave(t, next) ==
    /\ Goto(t, next)
    /\ op' = [op EXCEPT ![t] = IF next = "idle" THEN "none" ELSE @]
    /\ arg' = [arg EXCEPT ![t] = IF next = "idle" THEN NoMode ELSE @]

\* An error is returned to the caller; replay_saved adds it to its list.
Fail(t) == /\ Leave(t, AfterCall(t))
           /\ failures' = (failures \/ t = Main)

\* Fault: a save that finds another one in progress is skipped.
PersistUnlessBusy(t, next) ==
    /\ Goto(t, IF phase = "replaying" \/ saver # Nobody THEN next ELSE "lock")
    /\ after' = [after EXCEPT ![t] = next]

\* persist(): returns at once while the replay runs (`applying`).
Persist(t, next) ==
    /\ Goto(t, IF phase = "replaying" THEN next ELSE "lock")
    /\ after' = [after EXCEPT ![t] = next]

-----------------------------------------------------------------------------
Blank ==
    /\ phase = "down"
    /\ baseline = EmptyConfig
    /\ last_fan_mode = NoMode
    /\ saved_curve = NoCurve
    /\ fan_mode = NoMode
    /\ saver = Nobody
    /\ snap = EmptyConfig
    /\ pc = [t \in Threads |-> "idle"]
    /\ op = [t \in Threads |-> "none"]
    /\ arg = [t \in Threads |-> NoMode]
    /\ seen = [t \in Threads |-> Factory]
    /\ after = [t \in Threads |-> "idle"]
    /\ curve_applied = FALSE
    /\ failures = FALSE
    /\ polled = NoMode
    /\ unsaved = FALSE

(* The first start finds a file, and an EC fresh from power-on or still      *)
(* holding the file's curve (the daemon was upgraded, the machine was not    *)
(* rebooted).                                                                *)
Init ==
    /\ file \in InitialFiles
    /\ \/ ec = PowerOn
       \/ /\ file.fan_curve # NoCurve
          /\ ec = [curve |-> Written(Factory, file.fan_curve),
                   mode |-> IF file.fan_mode = NoMode THEN Custom ELSE file.fan_mode]
    /\ Blank

-----------------------------------------------------------------------------
(* Start-up: apply_saved, on the main thread, before the poll loop and the   *)
(* D-Bus object exist.                                                       *)

\* Fault: `applying` is set before the factory curve is captured.
BootApplying ==
    /\ phase = "down"
    /\ phase' = "replaying"
    /\ baseline' = file
    /\ Goto(Main, "check_factory")
    /\ op' = [op EXCEPT ![Main] = "apply_saved"]
    /\ UNCHANGED <<ec, file, store, saving, arg, seen, after, replay, polled>>

Boot ==
    /\ phase = "down"
    /\ phase' = "starting"
    /\ baseline' = file
    /\ Goto(Main, "check_factory")
    /\ op' = [op EXCEPT ![Main] = "apply_saved"]
    /\ UNCHANGED <<ec, file, store, saving, arg, seen, after, replay, polled>>

\* apply_on_start = false: nothing is replayed.
SkipReplay ==
    /\ pc[Main] = "replay_curve"
    /\ ~baseline.apply_on_start
    /\ Goto(Main, "serve")
    /\ UNCHANGED <<ec, file, phase, baseline, store, saving, op, arg, seen,
                   after, replay, polled>>

ReplayNoCurve ==
    /\ pc[Main] = "replay_curve"
    /\ baseline.apply_on_start
    /\ ~Writable \/ baseline.fan_curve = NoCurve
    /\ phase' = "replaying"
    /\ Goto(Main, "replay_mode")
    /\ UNCHANGED <<ec, file, baseline, store, saving, op, arg, seen, after,
                   replay, polled>>

ReplayInvalidCurve ==
    /\ pc[Main] = "replay_curve"
    /\ baseline.apply_on_start /\ Writable
    /\ baseline.fan_curve # NoCurve
    /\ baseline.fan_curve \notin Encodable
    /\ phase' = "replaying"
    /\ failures' = TRUE
    /\ Goto(Main, "replay_mode")
    /\ UNCHANGED <<ec, file, baseline, store, saving, op, arg, seen, after,
                   curve_applied, polled>>

\* Fault: a file that has a curve and no mode is not taken as custom.
OnlyCustomUsesCurve == baseline.fan_mode = Custom

\* The curve is written only when it is meant to be active; a normal saved
\* mode leaves the EC's curve alone.
ModeUsesCurve == baseline.fan_mode \in {NoMode, Custom}

ReplayCurve ==
    /\ pc[Main] = "replay_curve"
    /\ baseline.apply_on_start /\ Writable
    /\ baseline.fan_curve \in Encodable
    /\ phase' = "replaying"
    /\ saved_curve' = baseline.fan_curve
    /\ IF ModeUsesCurve
       THEN /\ op' = [op EXCEPT ![Main] = "set_curve"]
            /\ arg' = [arg EXCEPT ![Main] = baseline.fan_curve]
            /\ Goto(Main, "check_factory")
       ELSE /\ Goto(Main, "replay_mode")
            /\ UNCHANGED <<op, arg>>
    /\ UNCHANGED <<ec, file, baseline, last_fan_mode, fan_mode, saving, seen,
                   after, replay, polled>>

\* Nothing to select, or custom, which set_curve selected if it succeeded.
ReplayNoMode ==
    /\ pc[Main] = "replay_mode"
    /\ \/ ~Writable \/ baseline.fan_mode = NoMode
       \/ baseline.fan_mode = Custom /\ baseline.fan_curve # NoCurve
    /\ failures' = (failures \/ /\ Writable /\ baseline.fan_mode = Custom
                                /\ ~curve_applied)
    /\ Goto(Main, "serve")
    /\ UNCHANGED <<ec, file, phase, baseline, store, saving, op, arg, seen,
                   after, curve_applied, polled>>

SelectSavedMode ==
    /\ pc[Main] = "replay_mode"
    /\ Writable
    /\ op' = [op EXCEPT ![Main] = "set_fan_mode"]
    /\ arg' = [arg EXCEPT ![Main] = baseline.fan_mode]
    /\ Goto(Main, "write_mode")
    /\ UNCHANGED <<ec, file, phase, baseline, store, saving, seen, after,
                   replay, polled>>

\* Faults: no check that the file has a mode; custom selected again although
\* the file has a curve.
ReplayAnyMode == baseline.fan_mode # Custom /\ SelectSavedMode
ReplayModeBlindly == baseline.fan_mode # NoMode /\ SelectSavedMode

ReplayMode ==
    /\ baseline.fan_mode # NoMode
    /\ baseline.fan_mode = Custom => baseline.fan_curve = NoCurve
    /\ SelectSavedMode

Serve ==
    /\ pc[Main] = "serve"
    /\ phase' = "serving"
    /\ Goto(Main, "idle")
    /\ UNCHANGED <<ec, file, baseline, store, saving, op, arg, seen, after,
                   replay, polled>>

-----------------------------------------------------------------------------
(* capture_factory_curve.                                                    *)

CheckFactory(t) ==
    /\ pc[t] = "check_factory"
    /\ Goto(t, IF baseline.factory_curve # NoCurve
               THEN AfterCapture(t) ELSE "read_ec")
    /\ UNCHANGED <<ec, file, phase, baseline, store, saving, op, arg, seen,
                   after, replay, polled>>

\* Fault: a failed read is retried for as long as it fails.
ReadCurveRetrying(t) ==
    /\ pc[t] = "read_ec"
    /\ \/ /\ seen' = [seen EXCEPT ![t] = ec.curve]
          /\ Goto(t, "record_factory")
       \/ /\ ReadsFail
          /\ Goto(t, "check_factory")
          /\ UNCHANGED seen
    /\ UNCHANGED <<ec, file, phase, baseline, store, saving, op, arg, after,
                   replay, polled>>

ReadCurve(t) ==
    /\ pc[t] = "read_ec"
    /\ \/ /\ seen' = [seen EXCEPT ![t] = ec.curve]
          /\ Goto(t, "record_factory")
       \/ /\ ReadsFail
          /\ Goto(t, AfterCapture(t))
          /\ UNCHANGED seen
    /\ UNCHANGED <<ec, file, phase, baseline, store, saving, op, arg, after,
                   replay, polled>>

\* The EC still holds what the loaded config saved: a warm restart.
HoldsSavedCurve(held) ==
    /\ baseline.fan_curve # NoCurve
    /\ SameWritable(baseline.fan_curve, held)

\* Fault: no second look at the baseline under its lock.
NotShippedUnlocked(held) == HoldsSavedCurve(held)

\* Another call captured it meanwhile, or what was read is the user's curve.
NotShipped(held) == baseline.factory_curve # NoCurve \/ HoldsSavedCurve(held)

\* Fault: the capture is not saved.
KeepFactoryInMemory(t) ==
    /\ baseline' = [baseline EXCEPT !.factory_curve = seen[t]]
    /\ Goto(t, AfterCapture(t))
    /\ UNCHANGED after

KeepFactory(t) ==
    /\ baseline' = [baseline EXCEPT !.factory_curve = seen[t]]
    /\ Persist(t, AfterCapture(t))

RecordFactory(t) ==
    /\ pc[t] = "record_factory"
    /\ IF NotShipped(seen[t])
       THEN /\ Goto(t, AfterCapture(t))
            /\ UNCHANGED <<baseline, after>>
       ELSE KeepFactory(t)
    /\ seen' = [seen EXCEPT ![t] = Factory]
    /\ UNCHANGED <<ec, file, phase, store, saving, op, arg, replay, polled>>

-----------------------------------------------------------------------------
(* set_curve, once the factory curve has been looked at.                     *)

WriteCurve(t) ==
    /\ pc[t] = "write_curve"
    /\ arg[t] \in Encodable
    /\ ec' = [ec EXCEPT !.curve = Written(ec.curve, arg[t])]
    /\ Goto(t, "select_custom")
    /\ UNCHANGED <<file, phase, baseline, store, saving, op, arg, seen, after,
                   replay, polled>>

SelectCustom(t) ==
    /\ pc[t] = "select_custom"
    /\ ec' = [ec EXCEPT !.mode = Custom]
    /\ Goto(t, "remember_curve")
    /\ UNCHANGED <<file, phase, baseline, store, saving, op, arg, seen, after,
                   replay, polled>>

\* Fault: the curve is left to the EC, only the mode is remembered.
RememberCurveModeOnly(t) ==
    /\ pc[t] = "remember_curve"
    /\ fan_mode' = Custom
    /\ Goto(t, "remember_custom")
    /\ UNCHANGED <<ec, file, phase, baseline, last_fan_mode, saved_curve, saving,
                   op, arg, seen, after, replay, polled>>

RememberCurve(t) ==
    /\ pc[t] = "remember_curve"
    /\ fan_mode' = Custom
    /\ saved_curve' = arg[t]
    /\ Goto(t, "remember_custom")
    /\ UNCHANGED <<ec, file, phase, baseline, last_fan_mode, saving, op, arg,
                   seen, after, replay, polled>>

\* Fault: set_curve does not record that it changed the mode.
RememberCustomNot(t) ==
    /\ pc[t] = "remember_custom"
    /\ curve_applied' = (curve_applied \/ t = Main)
    /\ Persist(t, AfterCall(t))
    /\ UNCHANGED <<ec, file, phase, baseline, store, saving, op, arg, seen,
                   failures, polled>>

RememberCustom(t) ==
    /\ pc[t] = "remember_custom"
    /\ last_fan_mode' = Custom
    /\ curve_applied' = (curve_applied \/ t = Main)
    /\ Persist(t, AfterCall(t))
    /\ UNCHANGED <<ec, file, phase, baseline, saved_curve, fan_mode, saving, op,
                   arg, seen, failures, polled>>

-----------------------------------------------------------------------------
(* set_fan_mode.                                                             *)

WriteMode(t) ==
    /\ pc[t] = "write_mode"
    /\ ec' = [ec EXCEPT !.mode = arg[t]]
    /\ Goto(t, "remember_mode")
    /\ UNCHANGED <<file, phase, baseline, store, saving, op, arg, seen, after,
                   replay, polled>>

RememberMode(t) ==
    /\ pc[t] = "remember_mode"
    /\ last_fan_mode' = arg[t]
    /\ Goto(t, "show_mode")
    /\ UNCHANGED <<ec, file, phase, baseline, saved_curve, fan_mode, saving, op,
                   arg, seen, after, replay, polled>>

ShowMode(t) ==
    /\ pc[t] = "show_mode"
    /\ fan_mode' = arg[t]
    /\ Persist(t, AfterCall(t))
    /\ UNCHANGED <<ec, file, phase, baseline, last_fan_mode, saved_curve, saving,
                   op, arg, seen, replay, polled>>

\* What the write that `t` is about to make would do to the EC.
Effect(t) == CASE pc[t] = "write_curve"   -> [ec EXCEPT !.curve = Written(ec.curve, arg[t])]
               [] pc[t] = "select_custom" -> [ec EXCEPT !.mode = Custom]
               [] pc[t] = "write_mode"    -> [ec EXCEPT !.mode = arg[t]]

\* encode_curve rejects the curve before anything is sent, or the transport reports
\* an error, whether or not the EC has taken the write: `?` leaves the call with
\* nothing remembered and nothing saved.
WriteFails(t) ==
    /\ \/ pc[t] = "write_curve" /\ arg[t] \notin Encodable /\ UNCHANGED ec
       \/ /\ WritesFail
          /\ pc[t] \in {"write_curve", "select_custom", "write_mode"}
          /\ pc[t] = "write_curve" => arg[t] \in Encodable
          /\ ec' \in {ec, Effect(t)}
    /\ Fail(t)
    /\ UNCHANGED <<file, phase, baseline, store, saving, seen, after,
                   curve_applied, polled>>

-----------------------------------------------------------------------------
(* persist, under persistence_lock: to_config reads the baseline, the mode   *)
(* atomic and the saved curve one after the other, then config::save         *)
(* replaces the file in one rename.                                          *)

LockAndReadBaseline(t) ==
    /\ pc[t] = "lock"
    /\ saver = Nobody
    /\ saver' = t
    /\ snap' = baseline
    /\ Goto(t, "read_mode")
    /\ UNCHANGED <<ec, file, phase, baseline, store, unsaved, op, arg, seen,
                   after, replay, polled>>

ModeOver(loaded) == IF last_fan_mode = NoMode THEN loaded ELSE last_fan_mode

ReadLastMode(t) ==
    /\ pc[t] = "read_mode"
    /\ snap' = [snap EXCEPT !.fan_mode = ModeOver(snap.fan_mode)]
    /\ Goto(t, "read_curve")
    /\ UNCHANGED <<ec, file, phase, baseline, store, saver, unsaved, op, arg,
                   seen, after, replay, polled>>

ReadSavedCurve(t) ==
    /\ pc[t] = "read_curve"
    /\ snap' = [snap EXCEPT !.fan_curve =
                    IF saved_curve = NoCurve THEN snap.fan_curve ELSE saved_curve]
    /\ Goto(t, "save")
    /\ UNCHANGED <<ec, file, phase, baseline, store, saver, unsaved, op, arg,
                   seen, after, replay, polled>>

\* A failed save is logged and otherwise ignored.
Save(t) ==
    /\ pc[t] = "save"
    /\ \/ file' = snap /\ unsaved' = FALSE
       \/ SavesFail /\ unsaved' = TRUE /\ UNCHANGED file
    /\ saver' = Nobody
    /\ Leave(t, after[t])
    /\ after' = [after EXCEPT ![t] = "idle"]
    /\ snap' = EmptyConfig
    /\ UNCHANGED <<ec, phase, baseline, store, seen, replay, polled>>

-----------------------------------------------------------------------------
(* D-Bus calls.                                                              *)

Call(t, name, value, label) ==
    /\ phase = "serving"
    /\ pc[t] = "idle"
    /\ Goto(t, label)
    /\ op' = [op EXCEPT ![t] = name]
    /\ arg' = [arg EXCEPT ![t] = value]
    /\ UNCHANGED <<ec, file, phase, baseline, store, saving, seen, replay,
                   polled>>

SetCurve(t) ==
    /\ Writable
    /\ \E c \in UserCurves : Call(t, "set_curve", c, "check_factory")
    /\ UNCHANGED after

SetFanMode(t) ==
    /\ Writable
    /\ \E m \in ModeRequests : Call(t, "set_fan_mode", m, "write_mode")
    /\ UNCHANGED after

\* A setter of another part (keyboard, battery, performance mode) reaches its
\* persist, which saves the fan settings along with its own.
OtherSetter(t) ==
    /\ Call(t, "other", NoMode, "lock")
    /\ after' = [after EXCEPT ![t] = "idle"]

-----------------------------------------------------------------------------
(* sync_modes, from the poll loop and the Poll method (perf_lock keeps these *)
(* apart from each other, not from set_fan_mode).                            *)

PollRead ==
    /\ Polling
    /\ phase = "serving"
    /\ polled = NoMode
    /\ polled' = ec.mode
    /\ UNCHANGED <<ec, file, phase, baseline, store, saving, pc, op, arg, seen,
                   after, replay>>

\* Fault: only a mode that was never known is taken over.
PollStoreFirst ==
    /\ polled # NoMode
    /\ fan_mode' = IF fan_mode = NoMode THEN polled ELSE fan_mode
    /\ polled' = NoMode
    /\ UNCHANGED <<ec, file, phase, baseline, last_fan_mode, saved_curve, saving,
                   pc, op, arg, seen, after, replay>>

PollStore ==
    /\ polled # NoMode
    /\ fan_mode' = polled
    /\ polled' = NoMode
    /\ UNCHANGED <<ec, file, phase, baseline, last_fan_mode, saved_curve, saving,
                   pc, op, arg, seen, after, replay>>

-----------------------------------------------------------------------------
(* Outside the daemon.                                                       *)

ExternalMode ==
    /\ phase \in ExternalWrites
    /\ \E m \in Modes : ec' = [ec EXCEPT !.mode = m]
    /\ UNCHANGED <<file, phase, baseline, store, saving, pc, op, arg, seen,
                   after, replay, polled>>

\* The process ends, in the middle of anything: memory is lost.
Forget ==
    /\ phase' = "down"
    /\ baseline' = EmptyConfig
    /\ last_fan_mode' = NoMode
    /\ saved_curve' = NoCurve
    /\ fan_mode' = NoMode
    /\ saver' = Nobody
    /\ snap' = EmptyConfig
    /\ pc' = [t \in Threads |-> "idle"]
    /\ op' = [t \in Threads |-> "none"]
    /\ arg' = [t \in Threads |-> NoMode]
    /\ seen' = [t \in Threads |-> Factory]
    /\ after' = [t \in Threads |-> "idle"]
    /\ curve_applied' = FALSE
    /\ failures' = FALSE
    /\ polled' = NoMode
    /\ unsaved' = FALSE

Killed ==
    /\ phase # "down"
    /\ Forget
    /\ UNCHANGED <<ec, file>>

\* The EC forgets the curve and the mode; a running daemon goes with it.  Assumed:
\* a file system that keeps a file once it has been renamed into place (config::save
\* renames without an fsync), so a finished save outlives the power.
PowerLoss ==
    /\ ec' = PowerOn
    /\ Forget
    /\ UNCHANGED file

-----------------------------------------------------------------------------
ThreadStep(t) ==
    \/ CheckFactory(t)  \/ ReadCurve(t)     \/ RecordFactory(t)
    \/ WriteCurve(t)    \/ SelectCustom(t)  \/ RememberCurve(t)
    \/ RememberCustom(t)
    \/ WriteMode(t)     \/ RememberMode(t)  \/ ShowMode(t)
    \/ WriteFails(t)
    \/ LockAndReadBaseline(t) \/ ReadLastMode(t) \/ ReadSavedCurve(t)
    \/ Save(t)

StartUp ==
    \/ SkipReplay \/ ReplayNoCurve \/ ReplayInvalidCurve \/ ReplayCurve
    \/ ReplayNoMode \/ ReplayMode \/ Serve

Poll == PollRead \/ PollStore

Next ==
    \/ Boot
    \/ StartUp
    \/ \E t \in Threads : ThreadStep(t)
    \/ \E t \in Calls : SetCurve(t) \/ SetFanMode(t) \/ OtherSetter(t)
    \/ Poll
    \/ ExternalMode
    \/ Killed
    \/ PowerLoss

Spec == Init /\ [][Next]_vars

(* The daemon's own threads keep running while the process lives, and the    *)
(* poll loop ticks and reads the driver.  Starts, callers, failures, kills   *)
(* and power losses owe nothing.                                             *)
Fairness ==
    /\ WF_vars(StartUp)
    /\ \A t \in Threads : WF_vars(ThreadStep(t))
    /\ WF_vars(PollRead) /\ WF_vars(PollStore)

FairSpec == Spec /\ Fairness

-----------------------------------------------------------------------------
(* Properties.                                                               *)

Labels == {"idle", "check_factory", "read_ec", "record_factory", "write_curve",
           "select_custom", "remember_curve", "remember_custom", "write_mode",
           "remember_mode", "show_mode", "lock", "read_mode", "read_curve",
           "save", "replay_curve", "replay_mode", "serve"}

TypeOK ==
    /\ ec \in [curve : Curves, mode : Modes]
    /\ file \in Config
    /\ phase \in {"down", "starting", "replaying", "serving"}
    /\ baseline \in Config
    /\ last_fan_mode \in Modes \cup {NoMode}
    /\ saved_curve \in UserCurves \cup {NoCurve}
    /\ fan_mode \in Modes \cup {NoMode}
    /\ saver \in Threads \cup {Nobody}
    /\ snap \in Config
    /\ pc \in [Threads -> Labels]
    /\ op \in [Threads -> {"none", "apply_saved", "set_curve", "set_fan_mode",
                           "other"}]
    /\ arg \in [Threads -> Modes \cup {NoMode} \cup UserCurves]
    /\ seen \in [Threads -> Curves]
    /\ after \in [Threads -> Labels]
    /\ curve_applied \in BOOLEAN
    /\ failures \in BOOLEAN
    /\ polled \in Modes \cup {NoMode}
    /\ unsaved \in BOOLEAN

AtRest == phase = "serving" /\ \A t \in Calls : pc[t] = "idle"

(* A file with a curve and no mode is replayed as custom and not rewritten.  *)
ModeOnDisk ==
    \/ file.fan_mode = ModeToSave
    \/ /\ file.fan_mode = NoMode
       /\ file.fan_curve # NoCurve
       /\ ModeToSave = Custom

CurveOnDisk == file.fan_curve = CurveToSave

(* Whatever calls overlapped and however their steps interleaved, once none  *)
(* is running and the last save succeeded, the file holds the mode and the   *)
(* curve the daemon has in memory: no persist overwrote a newer choice with  *)
(* an older snapshot (persistence_lock, to_config inside it).                *)
ChoicesOnDisk == AtRest /\ ~unsaved => ModeOnDisk /\ CurveOnDisk

(* The file never selects custom without a curve, as long as custom is only  *)
(* reached by set_curve: to_config reads the mode before the curve, and      *)
(* set_curve stores the curve before the mode, so even a snapshot torn by a  *)
(* call in progress and frozen by a crash can be replayed.                   *)
CustomHasCurve == file.fan_mode = Custom => file.fan_curve # NoCurve

(* What "restore default" offers is the shipped curve or nothing, never a    *)
(* curve the user wrote (capture_factory_curve).                             *)
FactoryIsShipped == file.factory_curve \in {NoCurve, Factory}

(* A factory curve that is known is on disk when the daemon is at rest: a    *)
(* restart does not lose it.                                                 *)
FactoryOnDisk == AtRest /\ ~unsaved => file.factory_curve = baseline.factory_curve

(* Once on disk the factory curve is never replaced or lost, whichever calls *)
(* raced to capture it and whatever crashed.                                 *)
FactoryNeverReplaced ==
    [][file.factory_curve # NoCurve => file'.factory_curve = file.factory_curve]_vars

(* The EC does what the file says.                                           *)
Restored ==
    /\ file.fan_mode # NoMode => ec.mode = file.fan_mode
    /\ file.fan_curve # NoCurve /\ file.fan_mode \in {NoMode, Custom} =>
            ec.mode = Custom /\ SameWritable(file.fan_curve, ec.curve)

(* A replay that reports no failure has restored the file's mode, and its    *)
(* curve when the mode uses it, from any point a crash or a power loss left  *)
(* the EC and the file at.                                                   *)
RestoredOnStart ==
    [][phase = "replaying" /\ phase' = "serving" /\ ~failures => Restored]_vars

(* The replay selects custom only over the curve of the file, never over a   *)
(* table a failed or invalid curve write left in the EC.                     *)
ReplayNeverBlind ==
    [][phase = "replaying" /\ ec'.mode = Custom /\ ec.mode # Custom
            /\ file.fan_curve # NoCurve
         => SameWritable(file.fan_curve, ec.curve)]_vars

(* last_fan_mode is "the last applied fan mode": at rest, what the EC runs.  *)
ModeMatchesHardware == AtRest /\ last_fan_mode # NoMode => ec.mode = last_fan_mode

(* In custom mode the EC runs the curve the daemon reports as saved.         *)
CurveMatchesHardware ==
    AtRest /\ last_fan_mode = Custom /\ saved_curve # NoCurve =>
        SameWritable(saved_curve, ec.curve)

(* A mode set while other calls keep coming reaches the file, or is replaced *)
(* in memory, unless a save fails or the process ends: a caller that is      *)
(* still waiting for the lock is covered by whoever gets it.                 *)
ChoiceReachesDisk ==
    \A m \in Modes :
        (phase = "serving" /\ last_fan_mode = m) ~>
            (ModeOnDisk \/ last_fan_mode # m \/ unsaved \/ phase # "serving")

(* A poll that read the mode before a write may show the old one, but not    *)
(* for good: when the EC settles on a mode, so does the FanMode property.    *)
PollShowsMode ==
    \A m \in Modes :
        <>[](phase = "serving" /\ ec.mode = m) => <>[](fan_mode = m)

(* Start-up is best effort: whatever read, write or save fails, and whatever *)
(* the file holds, the daemon comes to serve.                                *)
StartupCompletes == phase = "starting" ~> phase \in {"serving", "down"}

=============================================================================
