------------------------ MODULE FanSettings_proofs ------------------------
(***************************************************************************)
(* Proofs about FanSettings, for any number of overlapping calls and any    *)
(* curves, modes and initial files.                                         *)
(***************************************************************************)
EXTENDS FanSettings, TLAPS

CurveLabels   == {"write_curve", "select_custom", "remember_curve",
                  "remember_custom"}
ModeLabels    == {"write_mode", "remember_mode", "show_mode"}
CaptureLabels == {"check_factory", "read_ec", "record_factory"}
SaveLabels    == {"read_mode", "read_curve", "save"}
ReplayLabels  == {"replay_curve", "replay_mode", "serve"}

(* What a thread's label says of the call it runs and of its argument.       *)
ArgInv ==
    \A t \in Threads :
        /\ pc[t] \in CurveLabels => op[t] = "set_curve"
        /\ pc[t] \in ModeLabels => op[t] = "set_fan_mode" /\ arg[t] \in Modes
        /\ pc[t] \in CaptureLabels => op[t] \in {"apply_saved", "set_curve"}
        /\ pc[t] \in ReplayLabels => t = Main
        /\ pc[t] # "idle" /\ op[t] = "set_curve" => arg[t] \in UserCurves
        /\ op[t] = "apply_saved" => t = Main
        /\ pc[t] \in SaveLabels \cup {"lock"} =>
               \/ after[t] = "idle" /\ t # Main
               \/ after[t] = "write_curve" /\ op[t] = "set_curve" /\ t # Main
               \/ after[t] = "replay_curve" /\ t = Main

(* The main thread is alone until the daemon serves.                         *)
PhaseInv ==
    /\ \A t \in Calls : pc[t] # "idle" => phase = "serving"
    /\ pc[Main] = "idle" <=> phase \in {"down", "serving"}
    /\ phase = "starting" =>
           /\ pc[Main] \in CaptureLabels \cup SaveLabels
                               \cup {"lock", "replay_curve", "serve"}
           /\ op[Main] = "apply_saved"
    /\ phase \in {"down", "starting"} => last_fan_mode = NoMode /\ saved_curve = NoCurve
    /\ phase = "replaying" =>
           /\ pc[Main] \notin SaveLabels \cup {"lock", "replay_curve"}
           /\ pc[Main] \in CaptureLabels => op[Main] = "set_curve"

(* persistence_lock excludes, and to_config starts from the baseline.        *)
LockInv ==
    /\ \A t \in Threads : pc[t] \in SaveLabels <=> saver = t
    /\ \A t \in Threads :
           /\ pc[t] = "read_mode" => snap.fan_mode = baseline.fan_mode
           /\ pc[t] \in {"read_mode", "read_curve"} =>
                  snap.fan_curve = baseline.fan_curve

(* Until it serves, the daemon remembers nothing the file does not say.      *)
StartInv ==
    phase \in {"starting", "replaying"} =>
        /\ baseline.fan_mode = file.fan_mode
        /\ baseline.fan_curve = file.fan_curve
        /\ ModeOnDisk /\ CurveOnDisk
        /\ pc[Main] \in SaveLabels =>
               /\ snap.fan_mode = baseline.fan_mode
               /\ snap.fan_curve = baseline.fan_curve
        /\ pc[Main] # "idle" /\ op[Main] = "set_fan_mode" =>
               arg[Main] = file.fan_mode
        /\ pc[Main] # "idle" /\ op[Main] = "set_curve" =>
               /\ arg[Main] = file.fan_curve
               /\ file.fan_mode \in {NoMode, Custom}

(* A thread at one of these labels will still read the mode, or the curve,   *)
(* for a save of its own.                                                    *)
WillSaveMode  == \E t \in Threads : pc[t] \in {"show_mode", "lock", "read_mode"}
WillSaveCurve ==
    \E t \in Threads : pc[t] \in {"remember_custom", "lock", "read_mode", "read_curve"}

(* A snapshot or a file that is out of date has a thread behind it that will *)
(* bring it up to date.                                                      *)
SnapInv ==
    \A t \in Threads :
        /\ pc[t] \in {"read_curve", "save"} =>
               snap.fan_mode = ModeToSave \/ WillSaveMode
        /\ pc[t] = "save" => snap.fan_curve = CurveToSave \/ WillSaveCurve

FileInv ==
    phase = "serving" /\ ~unsaved =>
        /\ (\A t \in Threads : pc[t] \notin {"read_curve", "save"}) =>
               ModeOnDisk \/ WillSaveMode
        /\ (\A t \in Threads : pc[t] # "save") =>
               CurveOnDisk \/ WillSaveCurve

IInv == TypeOK /\ ArgInv /\ PhaseInv /\ LockInv /\ StartInv /\ SnapInv /\ FileInv

-----------------------------------------------------------------------------
(* Types.                                                                    *)

USE DEF store, saving, replay

\* Writing a curve leaves the EC with a curve.
LEMMA WrittenTyped ==
    ASSUME NEW held \in Curves, NEW c \in Curves
    PROVE  Written(held, c) \in Curves
BY DEF Written, Curves

\* Types and arguments, which go together: what may be stored depends on the
\* call a thread is in.
LEMMA TypeStep ==
    ASSUME TypeOK, ArgInv, [Next]_vars
    PROVE  TypeOK'
<1> USE ThreadsDistinct, CurvesTyped, ModesTyped
<1> USE DEF Threads, Labels, Goto, Config
<1>1. CASE Boot
  BY <1>1 DEF TypeOK, Boot
<1>2. CASE StartUp
  <2>1. CASE SkipReplay
    BY <2>1 DEF TypeOK, SkipReplay
  <2>2. CASE ReplayNoCurve
    BY <2>2 DEF TypeOK, ReplayNoCurve
  <2>3. CASE ReplayInvalidCurve
    BY <2>3 DEF TypeOK, ReplayInvalidCurve
  <2>4. CASE ReplayCurve
    BY <2>4 DEF TypeOK, ReplayCurve
  <2>5. CASE ReplayNoMode
    BY <2>5 DEF TypeOK, ReplayNoMode
  <2>6. CASE ReplayMode
    BY <2>6 DEF TypeOK, ReplayMode, SelectSavedMode
  <2>7. CASE Serve
    BY <2>7 DEF TypeOK, Serve
  <2> QED BY <1>2, <2>1, <2>2, <2>3, <2>4, <2>5, <2>6, <2>7 DEF StartUp
<1>3. ASSUME NEW t \in Threads, ThreadStep(t)
      PROVE  TypeOK'
  <2>1. CASE CheckFactory(t)
    BY <2>1 DEF TypeOK, CheckFactory, AfterCapture
  <2>2. CASE ReadCurve(t)
    BY <2>2 DEF TypeOK, ReadCurve, AfterCapture
  <2>3. CASE RecordFactory(t)
    BY <2>3 DEF TypeOK, RecordFactory, NotShipped, KeepFactory, AfterCapture,
           Persist
  <2>4. CASE WriteCurve(t)
    <3>1. arg[t] \in Curves
      BY <2>4 DEF TypeOK, WriteCurve
    <3>2. ec'.curve \in Curves /\ ec'.mode = ec.mode
      BY <2>4, <3>1, WrittenTyped DEF TypeOK, WriteCurve
    <3> QED BY <2>4, <3>2 DEF TypeOK, WriteCurve
  <2>5. CASE SelectCustom(t)
    BY <2>5 DEF TypeOK, SelectCustom, Modes
  <2>6. CASE RememberCurve(t)
    BY <2>6 DEF TypeOK, RememberCurve, ArgInv, CurveLabels, Modes
  <2>7. CASE RememberCustom(t)
    BY <2>7 DEF TypeOK, RememberCustom, Persist, AfterCall, Modes
  <2>8. CASE WriteMode(t)
    BY <2>8 DEF TypeOK, WriteMode, ArgInv, ModeLabels
  <2>9. CASE RememberMode(t)
    BY <2>9 DEF TypeOK, RememberMode, ArgInv, ModeLabels
  <2>10. CASE ShowMode(t)
    BY <2>10 DEF TypeOK, ShowMode, ArgInv, ModeLabels, Persist, AfterCall
  <2>11. CASE WriteFails(t)
    <3>1. ec' \in [curve : Curves, mode : Modes]
      <4>1. CASE ec' = ec
        BY <4>1 DEF TypeOK
      <4>2. CASE ec' = Effect(t) /\ pc[t] = "write_curve" /\ arg[t] \in Encodable
        <5>1. Written(ec.curve, arg[t]) \in Curves
          BY <4>2, WrittenTyped DEF TypeOK
        <5> QED BY <4>2, <5>1 DEF TypeOK, Effect
      <4>3. CASE ec' = Effect(t) /\ pc[t] = "select_custom"
        BY <4>3 DEF TypeOK, Effect, Modes
      <4>4. CASE ec' = Effect(t) /\ pc[t] = "write_mode"
        BY <4>4 DEF TypeOK, Effect, ArgInv, ModeLabels
      <4> QED BY <2>11, <4>1, <4>2, <4>3, <4>4 DEF WriteFails
    <3> QED BY <2>11, <3>1 DEF TypeOK, WriteFails, Fail, Leave, AfterCall
  <2>12. CASE LockAndReadBaseline(t)
    BY <2>12 DEF TypeOK, LockAndReadBaseline
  <2>13. CASE ReadLastMode(t)
    BY <2>13 DEF TypeOK, ReadLastMode, ModeOver
  <2>14. CASE ReadSavedCurve(t)
    BY <2>14 DEF TypeOK, ReadSavedCurve
  <2>15. CASE Save(t)
    <3>1. EmptyConfig \in Config
      BY DEF EmptyConfig
    <3>2. file' \in Config /\ unsaved' \in BOOLEAN
      BY <2>15 DEF TypeOK, Save
    <3> QED BY <2>15, <3>1, <3>2 DEF TypeOK, Save, Leave
  <2> QED BY <1>3, <2>1, <2>2, <2>3, <2>4, <2>5, <2>6, <2>7, <2>8, <2>9,
             <2>10, <2>11, <2>12, <2>13, <2>14, <2>15 DEF ThreadStep
<1>4. ASSUME NEW t \in Calls, SetCurve(t) \/ SetFanMode(t) \/ OtherSetter(t)
      PROVE  TypeOK'
  BY <1>4 DEF TypeOK, SetCurve, SetFanMode, OtherSetter, Call
<1>5. CASE Poll
  BY <1>5 DEF TypeOK, Poll, PollRead, PollStore
<1>6. CASE ExternalMode
  BY <1>6 DEF TypeOK, ExternalMode
<1>7. CASE Killed \/ PowerLoss
  <2>1. EmptyConfig \in Config
    BY DEF EmptyConfig
  <2>2. ec' \in [curve : Curves, mode : Modes] /\ file' \in Config
    BY <1>7 DEF TypeOK, Killed, PowerLoss, PowerOn, Modes
  <2>3. Forget
    BY <1>7 DEF Killed, PowerLoss
  <2> QED BY <2>1, <2>2, <2>3 DEF TypeOK, Forget
<1>8. CASE UNCHANGED vars
  BY <1>8 DEF TypeOK, vars
<1> QED BY <1>1, <1>2, <1>3, <1>4, <1>5, <1>6, <1>7, <1>8 DEF Next

-----------------------------------------------------------------------------
(* Control and data: one lemma per conjunct of IInv, one step per action.    *)

\* A thread keeps to the call it runs; the argument keeps the type the call
\* gave it.
LEMMA ArgStep ==
    ASSUME TypeOK, ArgInv, PhaseInv, [Next]_vars
    PROVE  ArgInv'
<1> USE ThreadsDistinct, CurvesTyped, ModesTyped
<1> USE DEF TypeOK, ArgInv, PhaseInv, Config,
           Threads, Goto, CurveLabels, ModeLabels, CaptureLabels, SaveLabels,
           ReplayLabels
<1>1. CASE Boot
  BY <1>1 DEF Boot
<1>2. CASE StartUp
  <2>1. CASE SkipReplay
    BY <2>1 DEF SkipReplay
  <2>2. CASE ReplayNoCurve
    BY <2>2 DEF ReplayNoCurve
  <2>3. CASE ReplayInvalidCurve
    BY <2>3 DEF ReplayInvalidCurve
  <2>4. CASE ReplayCurve
    BY <2>4 DEF ReplayCurve, ModeUsesCurve
  <2>5. CASE ReplayNoMode
    BY <2>5 DEF ReplayNoMode
  <2>6. CASE ReplayMode
    BY <2>6 DEF ReplayMode, SelectSavedMode
  <2>7. CASE Serve
    BY <2>7 DEF Serve
  <2> QED BY <1>2, <2>1, <2>2, <2>3, <2>4, <2>5, <2>6, <2>7 DEF StartUp
<1>3. ASSUME NEW t \in Threads, ThreadStep(t)
      PROVE  ArgInv'
  <2>1. CASE CheckFactory(t)
    BY <2>1 DEF CheckFactory, AfterCapture
  <2>2. CASE ReadCurve(t)
    BY <2>2 DEF ReadCurve, AfterCapture
  <2>3. CASE RecordFactory(t)
    BY <2>3 DEF RecordFactory, NotShipped, KeepFactory, AfterCapture, Persist
  <2>4. CASE WriteCurve(t)
    BY <2>4 DEF WriteCurve
  <2>5. CASE SelectCustom(t)
    BY <2>5 DEF SelectCustom
  <2>6. CASE RememberCurve(t)
    BY <2>6 DEF RememberCurve
  <2>7. CASE RememberCustom(t)
    BY <2>7 DEF RememberCustom, Persist, AfterCall
  <2>8. CASE WriteMode(t)
    BY <2>8 DEF WriteMode
  <2>9. CASE RememberMode(t)
    BY <2>9 DEF RememberMode
  <2>10. CASE ShowMode(t)
    BY <2>10 DEF ShowMode, Persist, AfterCall
  <2>11. CASE WriteFails(t)
    BY <2>11 DEF WriteFails, Fail, Leave, AfterCall
  <2>12. CASE LockAndReadBaseline(t)
    BY <2>12 DEF LockAndReadBaseline
  <2>13. CASE ReadLastMode(t)
    BY <2>13 DEF ReadLastMode, ModeOver
  <2>14. CASE ReadSavedCurve(t)
    BY <2>14 DEF ReadSavedCurve
  <2>15. CASE Save(t)
    BY <2>15 DEF Save, Leave
  <2> QED BY <1>3, <2>1, <2>2, <2>3, <2>4, <2>5, <2>6, <2>7, <2>8,
             <2>9, <2>10, <2>11, <2>12, <2>13, <2>14, <2>15 DEF ThreadStep
<1>4. ASSUME NEW t \in Calls, SetCurve(t) \/ SetFanMode(t) \/ OtherSetter(t)
      PROVE  ArgInv'
  BY <1>4 DEF SetCurve, SetFanMode, OtherSetter, Call
<1>5. CASE Poll
  BY <1>5 DEF Poll, PollRead, PollStore
<1>6. CASE ExternalMode
  BY <1>6 DEF ExternalMode
<1>7. CASE Killed \/ PowerLoss
  BY <1>7 DEF Killed, PowerLoss, Forget
<1>8. CASE UNCHANGED vars
  BY <1>8 DEF vars
<1> QED BY <1>1, <1>2, <1>3, <1>4, <1>5, <1>6, <1>7, <1>8 DEF Next

\* No call runs before the start-up thread is done, and nothing is saved while
\* it replays.
LEMMA PhaseStep ==
    ASSUME TypeOK, ArgInv, PhaseInv, [Next]_vars
    PROVE  PhaseInv'
<1> USE ThreadsDistinct
<1> USE DEF TypeOK, ArgInv, PhaseInv,
           Threads, Goto, CurveLabels, ModeLabels, CaptureLabels, SaveLabels,
           ReplayLabels
<1>1. CASE Boot
  BY <1>1 DEF Boot
<1>2. CASE StartUp
  <2>1. CASE SkipReplay
    BY <2>1 DEF SkipReplay
  <2>2. CASE ReplayNoCurve
    BY <2>2 DEF ReplayNoCurve
  <2>3. CASE ReplayInvalidCurve
    BY <2>3 DEF ReplayInvalidCurve
  <2>4. CASE ReplayCurve
    BY <2>4 DEF ReplayCurve, ModeUsesCurve
  <2>5. CASE ReplayNoMode
    BY <2>5 DEF ReplayNoMode
  <2>6. CASE ReplayMode
    BY <2>6 DEF ReplayMode, SelectSavedMode
  <2>7. CASE Serve
    BY <2>7 DEF Serve
  <2> QED BY <1>2, <2>1, <2>2, <2>3, <2>4, <2>5, <2>6, <2>7 DEF StartUp
<1>3. ASSUME NEW t \in Threads, ThreadStep(t)
      PROVE  PhaseInv'
  <2>1. CASE CheckFactory(t)
    BY <2>1 DEF CheckFactory, AfterCapture
  <2>2. CASE ReadCurve(t)
    BY <2>2 DEF ReadCurve, AfterCapture
  <2>3. CASE RecordFactory(t)
    BY <2>3 DEF RecordFactory, NotShipped, KeepFactory, AfterCapture, Persist
  <2>4. CASE WriteCurve(t)
    BY <2>4 DEF WriteCurve
  <2>5. CASE SelectCustom(t)
    BY <2>5 DEF SelectCustom
  <2>6. CASE RememberCurve(t)
    BY <2>6 DEF RememberCurve
  <2>7. CASE RememberCustom(t)
    BY <2>7 DEF RememberCustom, Persist, AfterCall
  <2>8. CASE WriteMode(t)
    BY <2>8 DEF WriteMode
  <2>9. CASE RememberMode(t)
    BY <2>9 DEF RememberMode
  <2>10. CASE ShowMode(t)
    BY <2>10 DEF ShowMode, Persist, AfterCall
  <2>11. CASE WriteFails(t)
    BY <2>11 DEF WriteFails, Fail, Leave, AfterCall
  <2>12. CASE LockAndReadBaseline(t)
    BY <2>12 DEF LockAndReadBaseline
  <2>13. CASE ReadLastMode(t)
    BY <2>13 DEF ReadLastMode, ModeOver
  <2>14. CASE ReadSavedCurve(t)
    BY <2>14 DEF ReadSavedCurve
  <2>15. CASE Save(t)
    BY <2>15 DEF Save, Leave
  <2> QED BY <1>3, <2>1, <2>2, <2>3, <2>4, <2>5, <2>6, <2>7, <2>8,
             <2>9, <2>10, <2>11, <2>12, <2>13, <2>14, <2>15 DEF ThreadStep
<1>4. ASSUME NEW t \in Calls, SetCurve(t) \/ SetFanMode(t) \/ OtherSetter(t)
      PROVE  PhaseInv'
  BY <1>4 DEF SetCurve, SetFanMode, OtherSetter, Call
<1>5. CASE Poll
  BY <1>5 DEF Poll, PollRead, PollStore
<1>6. CASE ExternalMode
  BY <1>6 DEF ExternalMode
<1>7. CASE Killed \/ PowerLoss
  BY <1>7 DEF Killed, PowerLoss, Forget
<1>8. CASE UNCHANGED vars
  BY <1>8 DEF vars
<1> QED BY <1>1, <1>2, <1>3, <1>4, <1>5, <1>6, <1>7, <1>8 DEF Next

\* The thread between to_config and the end of config::save holds the lock.
LEMMA LockStep ==
    ASSUME TypeOK, ArgInv, PhaseInv, LockInv, [Next]_vars
    PROVE  LockInv'
<1> USE ThreadsDistinct
<1> USE DEF TypeOK, ArgInv, PhaseInv, LockInv, Config,
           Threads, Goto, CurveLabels, ModeLabels, CaptureLabels, SaveLabels,
           ReplayLabels
<1>1. CASE Boot
  BY <1>1 DEF Boot
<1>2. CASE StartUp
  <2>1. CASE SkipReplay
    BY <2>1 DEF SkipReplay
  <2>2. CASE ReplayNoCurve
    BY <2>2 DEF ReplayNoCurve
  <2>3. CASE ReplayInvalidCurve
    BY <2>3 DEF ReplayInvalidCurve
  <2>4. CASE ReplayCurve
    BY <2>4 DEF ReplayCurve, ModeUsesCurve
  <2>5. CASE ReplayNoMode
    BY <2>5 DEF ReplayNoMode
  <2>6. CASE ReplayMode
    BY <2>6 DEF ReplayMode, SelectSavedMode
  <2>7. CASE Serve
    BY <2>7 DEF Serve
  <2> QED BY <1>2, <2>1, <2>2, <2>3, <2>4, <2>5, <2>6, <2>7 DEF StartUp
<1>3. ASSUME NEW t \in Threads, ThreadStep(t)
      PROVE  LockInv'
  <2>1. CASE CheckFactory(t)
    BY <2>1 DEF CheckFactory, AfterCapture
  <2>2. CASE ReadCurve(t)
    BY <2>2 DEF ReadCurve, AfterCapture
  <2>3. CASE RecordFactory(t)
    BY <2>3 DEF RecordFactory, NotShipped, KeepFactory, AfterCapture, Persist
  <2>4. CASE WriteCurve(t)
    BY <2>4 DEF WriteCurve
  <2>5. CASE SelectCustom(t)
    BY <2>5 DEF SelectCustom
  <2>6. CASE RememberCurve(t)
    BY <2>6 DEF RememberCurve
  <2>7. CASE RememberCustom(t)
    BY <2>7 DEF RememberCustom, Persist, AfterCall
  <2>8. CASE WriteMode(t)
    BY <2>8 DEF WriteMode
  <2>9. CASE RememberMode(t)
    BY <2>9 DEF RememberMode
  <2>10. CASE ShowMode(t)
    BY <2>10 DEF ShowMode, Persist, AfterCall
  <2>11. CASE WriteFails(t)
    BY <2>11 DEF WriteFails, Fail, Leave, AfterCall
  <2>12. CASE LockAndReadBaseline(t)
    BY <2>12 DEF LockAndReadBaseline
  <2>13. CASE ReadLastMode(t)
    BY <2>13 DEF ReadLastMode, ModeOver
  <2>14. CASE ReadSavedCurve(t)
    BY <2>14 DEF ReadSavedCurve
  <2>15. CASE Save(t)
    BY <2>15 DEF Save, Leave
  <2> QED BY <1>3, <2>1, <2>2, <2>3, <2>4, <2>5, <2>6, <2>7, <2>8,
             <2>9, <2>10, <2>11, <2>12, <2>13, <2>14, <2>15 DEF ThreadStep
<1>4. ASSUME NEW t \in Calls, SetCurve(t) \/ SetFanMode(t) \/ OtherSetter(t)
      PROVE  LockInv'
  BY <1>4 DEF SetCurve, SetFanMode, OtherSetter, Call
<1>5. CASE Poll
  BY <1>5 DEF Poll, PollRead, PollStore
<1>6. CASE ExternalMode
  BY <1>6 DEF ExternalMode
<1>7. CASE Killed \/ PowerLoss
  BY <1>7 DEF Killed, PowerLoss, Forget
<1>8. CASE UNCHANGED vars
  BY <1>8 DEF vars
<1> QED BY <1>1, <1>2, <1>3, <1>4, <1>5, <1>6, <1>7, <1>8 DEF Next

\* Neither the capture nor the replay makes memory disagree with the file.
LEMMA StartStep ==
    ASSUME TypeOK, ArgInv, PhaseInv, LockInv, StartInv, [Next]_vars
    PROVE  StartInv'
<1> USE ThreadsDistinct, ModesTyped, CurvesTyped
<1> USE DEF TypeOK, ArgInv, PhaseInv, LockInv, StartInv, ModeOnDisk,
           CurveOnDisk, ModeToSave, CurveToSave, Config,
           Threads, Goto, CurveLabels, ModeLabels, CaptureLabels, SaveLabels,
           ReplayLabels
<1>1. CASE Boot
  BY <1>1 DEF Boot
<1>2. CASE StartUp
  <2>1. CASE SkipReplay
    BY <2>1 DEF SkipReplay
  <2>2. CASE ReplayNoCurve
    BY <2>2 DEF ReplayNoCurve
  <2>3. CASE ReplayInvalidCurve
    BY <2>3 DEF ReplayInvalidCurve
  <2>4. CASE ReplayCurve
    BY <2>4 DEF ReplayCurve, ModeUsesCurve
  <2>5. CASE ReplayNoMode
    BY <2>5 DEF ReplayNoMode
  <2>6. CASE ReplayMode
    BY <2>6 DEF ReplayMode, SelectSavedMode
  <2>7. CASE Serve
    BY <2>7 DEF Serve
  <2> QED BY <1>2, <2>1, <2>2, <2>3, <2>4, <2>5, <2>6, <2>7 DEF StartUp
<1>3. ASSUME NEW t \in Threads, ThreadStep(t)
      PROVE  StartInv'
  <2>1. CASE CheckFactory(t)
    BY <2>1 DEF CheckFactory, AfterCapture
  <2>2. CASE ReadCurve(t)
    BY <2>2 DEF ReadCurve, AfterCapture
  <2>3. CASE RecordFactory(t)
    BY <2>3 DEF RecordFactory, NotShipped, KeepFactory, AfterCapture, Persist
  <2>4. CASE WriteCurve(t)
    BY <2>4 DEF WriteCurve
  <2>5. CASE SelectCustom(t)
    BY <2>5 DEF SelectCustom
  <2>6. CASE RememberCurve(t)
    BY <2>6 DEF RememberCurve
  <2>7. CASE RememberCustom(t)
    BY <2>7 DEF RememberCustom, Persist, AfterCall
  <2>8. CASE WriteMode(t)
    BY <2>8 DEF WriteMode
  <2>9. CASE RememberMode(t)
    BY <2>9 DEF RememberMode
  <2>10. CASE ShowMode(t)
    BY <2>10 DEF ShowMode, Persist, AfterCall
  <2>11. CASE WriteFails(t)
    BY <2>11 DEF WriteFails, Fail, Leave, AfterCall
  <2>12. CASE LockAndReadBaseline(t)
    BY <2>12 DEF LockAndReadBaseline
  <2>13. CASE ReadLastMode(t)
    BY <2>13 DEF ReadLastMode, ModeOver
  <2>14. CASE ReadSavedCurve(t)
    BY <2>14 DEF ReadSavedCurve
  <2>15. CASE Save(t)
    BY <2>15 DEF Save, Leave
  <2> QED BY <1>3, <2>1, <2>2, <2>3, <2>4, <2>5, <2>6, <2>7, <2>8,
             <2>9, <2>10, <2>11, <2>12, <2>13, <2>14, <2>15 DEF ThreadStep
<1>4. ASSUME NEW t \in Calls, SetCurve(t) \/ SetFanMode(t) \/ OtherSetter(t)
      PROVE  StartInv'
  BY <1>4 DEF SetCurve, SetFanMode, OtherSetter, Call
<1>5. CASE Poll
  BY <1>5 DEF Poll, PollRead, PollStore
<1>6. CASE ExternalMode
  BY <1>6 DEF ExternalMode
<1>7. CASE Killed \/ PowerLoss
  BY <1>7 DEF Killed, PowerLoss, Forget
<1>8. CASE UNCHANGED vars
  BY <1>8 DEF vars
<1> QED BY <1>1, <1>2, <1>3, <1>4, <1>5, <1>6, <1>7, <1>8 DEF Next

\* A snapshot goes out of date only through a thread that is yet to save.
LEMMA SnapStep ==
    ASSUME TypeOK, ArgInv, PhaseInv, LockInv, StartInv, SnapInv, [Next]_vars
    PROVE  SnapInv'
<1> USE ThreadsDistinct, ModesTyped, CurvesTyped
<1> USE DEF TypeOK, ArgInv, PhaseInv, LockInv, SnapInv, WillSaveMode,
           WillSaveCurve, ModeToSave, CurveToSave, Config,
           Threads, Goto, CurveLabels, ModeLabels, CaptureLabels, SaveLabels,
           ReplayLabels
<1>1. CASE Boot
  BY <1>1 DEF Boot
<1>2. CASE StartUp
  <2>1. CASE SkipReplay
    BY <2>1 DEF SkipReplay
  <2>2. CASE ReplayNoCurve
    BY <2>2 DEF ReplayNoCurve
  <2>3. CASE ReplayInvalidCurve
    BY <2>3 DEF ReplayInvalidCurve
  <2>4. CASE ReplayCurve
    BY <2>4 DEF ReplayCurve, ModeUsesCurve
  <2>5. CASE ReplayNoMode
    BY <2>5 DEF ReplayNoMode
  <2>6. CASE ReplayMode
    BY <2>6 DEF ReplayMode, SelectSavedMode
  <2>7. CASE Serve
    BY <2>7 DEF Serve
  <2> QED BY <1>2, <2>1, <2>2, <2>3, <2>4, <2>5, <2>6, <2>7 DEF StartUp
<1>3. ASSUME NEW t \in Threads, ThreadStep(t)
      PROVE  SnapInv'
  <2>1. CASE CheckFactory(t)
    BY <2>1 DEF CheckFactory, AfterCapture
  <2>2. CASE ReadCurve(t)
    BY <2>2 DEF ReadCurve, AfterCapture
  <2>3. CASE RecordFactory(t)
    BY <2>3 DEF RecordFactory, NotShipped, KeepFactory, AfterCapture, Persist
  <2>4. CASE WriteCurve(t)
    BY <2>4 DEF WriteCurve
  <2>5. CASE SelectCustom(t)
    BY <2>5 DEF SelectCustom
  <2>6. CASE RememberCurve(t)
    BY <2>6 DEF RememberCurve
  <2>7. CASE RememberCustom(t)
    BY <2>7 DEF RememberCustom, Persist, AfterCall
  <2>8. CASE WriteMode(t)
    BY <2>8 DEF WriteMode
  <2>9. CASE RememberMode(t)
    BY <2>9 DEF RememberMode
  <2>10. CASE ShowMode(t)
    BY <2>10 DEF ShowMode, Persist, AfterCall
  <2>11. CASE WriteFails(t)
    BY <2>11 DEF WriteFails, Fail, Leave, AfterCall
  <2>12. CASE LockAndReadBaseline(t)
    BY <2>12 DEF LockAndReadBaseline
  <2>13. CASE ReadLastMode(t)
    BY <2>13 DEF ReadLastMode, ModeOver
  <2>14. CASE ReadSavedCurve(t)
    BY <2>14 DEF ReadSavedCurve
  <2>15. CASE Save(t)
    BY <2>15 DEF Save, Leave
  <2> QED BY <1>3, <2>1, <2>2, <2>3, <2>4, <2>5, <2>6, <2>7, <2>8,
             <2>9, <2>10, <2>11, <2>12, <2>13, <2>14, <2>15 DEF ThreadStep
<1>4. ASSUME NEW t \in Calls, SetCurve(t) \/ SetFanMode(t) \/ OtherSetter(t)
      PROVE  SnapInv'
  BY <1>4 DEF SetCurve, SetFanMode, OtherSetter, Call
<1>5. CASE Poll
  BY <1>5 DEF Poll, PollRead, PollStore
<1>6. CASE ExternalMode
  BY <1>6 DEF ExternalMode
<1>7. CASE Killed \/ PowerLoss
  BY <1>7 DEF Killed, PowerLoss, Forget
<1>8. CASE UNCHANGED vars
  BY <1>8 DEF vars
<1> QED BY <1>1, <1>2, <1>3, <1>4, <1>5, <1>6, <1>7, <1>8 DEF Next

\* So does the file, and a save that succeeds makes it as good as its snapshot.
LEMMA FileStep ==
    ASSUME TypeOK, ArgInv, PhaseInv, LockInv, StartInv, SnapInv, FileInv, [Next]_vars
    PROVE  FileInv'
<1> USE ThreadsDistinct, ModesTyped, CurvesTyped
<1> USE DEF TypeOK, ArgInv, PhaseInv, LockInv, StartInv, SnapInv, FileInv,
           WillSaveMode, WillSaveCurve, ModeOnDisk, CurveOnDisk, ModeToSave,
           CurveToSave, Config,
           Threads, Goto, CurveLabels, ModeLabels, CaptureLabels, SaveLabels,
           ReplayLabels
<1>1. CASE Boot
  BY <1>1 DEF Boot
<1>2. CASE StartUp
  <2>1. CASE SkipReplay
    BY <2>1 DEF SkipReplay
  <2>2. CASE ReplayNoCurve
    BY <2>2 DEF ReplayNoCurve
  <2>3. CASE ReplayInvalidCurve
    BY <2>3 DEF ReplayInvalidCurve
  <2>4. CASE ReplayCurve
    BY <2>4 DEF ReplayCurve, ModeUsesCurve
  <2>5. CASE ReplayNoMode
    BY <2>5 DEF ReplayNoMode
  <2>6. CASE ReplayMode
    BY <2>6 DEF ReplayMode, SelectSavedMode
  <2>7. CASE Serve
    BY <2>7 DEF Serve
  <2> QED BY <1>2, <2>1, <2>2, <2>3, <2>4, <2>5, <2>6, <2>7 DEF StartUp
<1>3. ASSUME NEW t \in Threads, ThreadStep(t)
      PROVE  FileInv'
  <2>1. CASE CheckFactory(t)
    BY <2>1 DEF CheckFactory, AfterCapture
  <2>2. CASE ReadCurve(t)
    BY <2>2 DEF ReadCurve, AfterCapture
  <2>3. CASE RecordFactory(t)
    BY <2>3 DEF RecordFactory, NotShipped, KeepFactory, AfterCapture, Persist
  <2>4. CASE WriteCurve(t)
    BY <2>4 DEF WriteCurve
  <2>5. CASE SelectCustom(t)
    BY <2>5 DEF SelectCustom
  <2>6. CASE RememberCurve(t)
    BY <2>6 DEF RememberCurve
  <2>7. CASE RememberCustom(t)
    BY <2>7 DEF RememberCustom, Persist, AfterCall
  <2>8. CASE WriteMode(t)
    BY <2>8 DEF WriteMode
  <2>9. CASE RememberMode(t)
    BY <2>9 DEF RememberMode
  <2>10. CASE ShowMode(t)
    BY <2>10 DEF ShowMode, Persist, AfterCall
  <2>11. CASE WriteFails(t)
    BY <2>11 DEF WriteFails, Fail, Leave, AfterCall
  <2>12. CASE LockAndReadBaseline(t)
    BY <2>12 DEF LockAndReadBaseline
  <2>13. CASE ReadLastMode(t)
    BY <2>13 DEF ReadLastMode, ModeOver
  <2>14. CASE ReadSavedCurve(t)
    BY <2>14 DEF ReadSavedCurve
  <2>15. CASE Save(t)
    BY <2>15 DEF Save, Leave
  <2> QED BY <1>3, <2>1, <2>2, <2>3, <2>4, <2>5, <2>6, <2>7, <2>8,
             <2>9, <2>10, <2>11, <2>12, <2>13, <2>14, <2>15 DEF ThreadStep
<1>4. ASSUME NEW t \in Calls, SetCurve(t) \/ SetFanMode(t) \/ OtherSetter(t)
      PROVE  FileInv'
  BY <1>4 DEF SetCurve, SetFanMode, OtherSetter, Call
<1>5. CASE Poll
  BY <1>5 DEF Poll, PollRead, PollStore
<1>6. CASE ExternalMode
  BY <1>6 DEF ExternalMode
<1>7. CASE Killed \/ PowerLoss
  BY <1>7 DEF Killed, PowerLoss, Forget
<1>8. CASE UNCHANGED vars
  BY <1>8 DEF vars
<1> QED BY <1>1, <1>2, <1>3, <1>4, <1>5, <1>6, <1>7, <1>8 DEF Next

-----------------------------------------------------------------------------
(* Theorems.                                                                 *)

\* The invariant holds before the daemon starts.
LEMMA InitIInv == Init => IInv
<1> SUFFICES ASSUME Init PROVE IInv
  OBVIOUS
<1> USE ThreadsDistinct, CurvesTyped, ModesTyped, InitialFilesTyped
<1> USE DEF Init, Blank
<1>1. EmptyConfig \in Config
  BY DEF EmptyConfig, Config
<1>2. file \in Config
  OBVIOUS
<1>3. ec \in [curve : Curves, mode : Modes]
  <2>1. CASE ec = PowerOn
    BY <2>1 DEF PowerOn, Modes
  <2>2. CASE /\ file.fan_curve # NoCurve
             /\ ec = [curve |-> Written(Factory, file.fan_curve),
                      mode |-> IF file.fan_mode = NoMode THEN Custom
                               ELSE file.fan_mode]
    <3>1. file.fan_curve \in Curves
      BY <1>2, <2>2 DEF Config
    <3>2. Written(Factory, file.fan_curve) \in Curves
      BY <3>1, WrittenTyped
    <3>3. file.fan_mode \in Modes \cup {NoMode}
      BY <1>2 DEF Config
    <3> QED BY <2>2, <3>2, <3>3 DEF Modes
  <2> QED BY <2>1, <2>2
<1>4. TypeOK
  BY <1>1, <1>2, <1>3 DEF TypeOK, Labels
<1>5. ArgInv /\ PhaseInv /\ LockInv /\ StartInv /\ SnapInv /\ FileInv
  BY DEF ArgInv, PhaseInv, LockInv, StartInv, SnapInv, FileInv, Threads,
         CurveLabels, ModeLabels, CaptureLabels, SaveLabels, ReplayLabels
<1> QED BY <1>4, <1>5 DEF IInv

\* IInv is inductive.
THEOREM Invariance == Spec => []IInv
<1>1. IInv /\ [Next]_vars => IInv'
  BY TypeStep, ArgStep, PhaseStep, LockStep, StartStep, SnapStep, FileStep
     DEF IInv
<1> QED BY InitIInv, <1>1, PTL DEF Spec

\* Every variable keeps its type, in every interleaving of the calls.
THEOREM TypeCorrect == Spec => []TypeOK
<1>1. IInv => TypeOK
  BY DEF IInv
<1> QED BY Invariance, <1>1, PTL

\* At rest after a successful save the file holds the mode and the curve in
\* memory: no thread is left that could owe a save.
THEOREM ChoicesSafe == Spec => []ChoicesOnDisk
<1>1. IInv => ChoicesOnDisk
  <2> SUFFICES ASSUME IInv, AtRest, ~unsaved
               PROVE  ModeOnDisk /\ CurveOnDisk
    BY DEF ChoicesOnDisk
  <2>1. \A t \in Threads : pc[t] = "idle"
    BY DEF IInv, PhaseInv, AtRest, Threads
  <2>2. ~WillSaveMode /\ ~WillSaveCurve
    BY <2>1 DEF WillSaveMode, WillSaveCurve
  <2> QED BY <2>1, <2>2 DEF IInv, FileInv, AtRest
<1> QED BY Invariance, <1>1, PTL

=============================================================================
