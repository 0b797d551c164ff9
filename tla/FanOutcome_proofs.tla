------------------------- MODULE FanOutcome_proofs --------------------------
(***************************************************************************)
(* More theorems on FanSettings, each from an invariant of its own on top    *)
(* of IInv: the factory curve and the custom mode on disk; and what the EC   *)
(* does against what the daemon says, in the replay at start-up and when     *)
(* calls come one at a time.                                                 *)
(***************************************************************************)
EXTENDS FanSettings_proofs

USE DEF store, saving, replay

-----------------------------------------------------------------------------
(* The factory curve on disk is never replaced.                              *)

(* What is on disk is in memory, and in the snapshot about to replace it.    *)
KeptInv ==
    /\ phase # "down" /\ file.factory_curve # NoCurve =>
           baseline.factory_curve = file.factory_curve
    /\ \A t \in Threads : pc[t] \in SaveLabels =>
           /\ file.factory_curve # NoCurve =>
                  snap.factory_curve = file.factory_curve
           /\ snap.factory_curve # NoCurve =>
                  baseline.factory_curve = snap.factory_curve

\* Only capture_factory_curve assigns the field, and only when it is empty.
LEMMA KeptStep ==
    ASSUME TypeOK, ArgInv, PhaseInv, LockInv, KeptInv, [Next]_vars
    PROVE  KeptInv'
<1> USE ThreadsDistinct
<1> USE DEF TypeOK, ArgInv, PhaseInv, LockInv, KeptInv, Config, Threads,
           Goto, CurveLabels, ModeLabels, CaptureLabels, SaveLabels,
           ReplayLabels
<1>1. CASE Boot
  BY <1>1 DEF Boot
<1>2. CASE StartUp
  <2>1. CASE SkipReplay
    BY <2>1 DEF SkipReplay
  <2>2. CASE ReplayNoCurve
    BY <2>2 DEF ReplayNoCurve
  <2>3. CASE ReplayInvalidCurve
    BY <2>3 DEF ReplayInvalidCurve
  <2>4. CASE ReplayCurve
    BY <2>4 DEF ReplayCurve, ModeUsesCurve
  <2>5. CASE ReplayNoMode
    BY <2>5 DEF ReplayNoMode
  <2>6. CASE ReplayMode
    BY <2>6 DEF ReplayMode, SelectSavedMode
  <2>7. CASE Serve
    BY <2>7 DEF Serve
  <2> QED BY <1>2, <2>1, <2>2, <2>3, <2>4, <2>5, <2>6, <2>7 DEF StartUp
<1>3. ASSUME NEW t \in Threads, ThreadStep(t)
      PROVE  KeptInv'
  <2>1. CASE CheckFactory(t)
    BY <2>1 DEF CheckFactory, AfterCapture
  <2>2. CASE ReadCurve(t)
    BY <2>2 DEF ReadCurve, AfterCapture
  <2>3. CASE RecordFactory(t)
    BY <2>3 DEF RecordFactory, NotShipped, KeepFactory, AfterCapture, Persist
  <2>4. CASE WriteCurve(t)
    BY <2>4 DEF WriteCurve
  <2>5. CASE SelectCustom(t)
    BY <2>5 DEF SelectCustom
  <2>6. CASE RememberCurve(t)
    BY <2>6 DEF RememberCurve
  <2>7. CASE RememberCustom(t)
    BY <2>7 DEF RememberCustom, Persist, AfterCall
  <2>8. CASE WriteMode(t)
    BY <2>8 DEF WriteMode
  <2>9. CASE RememberMode(t)
    BY <2>9 DEF RememberMode
  <2>10. CASE ShowMode(t)
    BY <2>10 DEF ShowMode, Persist, AfterCall
  <2>11. CASE WriteFails(t)
    BY <2>11 DEF WriteFails, Fail, Leave, AfterCall
  <2>12. CASE LockAndReadBaseline(t)
    BY <2>12 DEF LockAndReadBaseline
  <2>13. CASE ReadLastMode(t)
    BY <2>13 DEF ReadLastMode, ModeOver
  <2>14. CASE ReadSavedCurve(t)
    BY <2>14 DEF ReadSavedCurve
  <2>15. CASE Save(t)
    BY <2>15 DEF Save, Leave
  <2> QED BY <1>3, <2>1, <2>2, <2>3, <2>4, <2>5, <2>6, <2>7, <2>8,
             <2>9, <2>10, <2>11, <2>12, <2>13, <2>14, <2>15 DEF ThreadStep
<1>4. ASSUME NEW t \in Calls, SetCurve(t) \/ SetFanMode(t) \/ OtherSetter(t)
      PROVE  KeptInv'
  BY <1>4 DEF SetCurve, SetFanMode, OtherSetter, Call
<1>5. CASE Poll
  BY <1>5 DEF Poll, PollRead, PollStore
<1>6. CASE ExternalMode
  BY <1>6 DEF ExternalMode
<1>7. CASE Killed \/ PowerLoss
  BY <1>7 DEF Killed, PowerLoss, Forget
<1>8. CASE UNCHANGED vars
  BY <1>8 DEF vars
<1> QED BY <1>1, <1>2, <1>3, <1>4, <1>5, <1>6, <1>7, <1>8 DEF Next

\* Once on disk, the factory curve stays: through races to capture it, failed
\* saves, kills and power losses.
THEOREM FactoryKept == Spec => FactoryNeverReplaced
<1>1. Init => KeptInv
  BY DEF Init, Blank, KeptInv, SaveLabels
<1>2. IInv /\ KeptInv /\ [Next]_vars => KeptInv'
  BY KeptStep DEF IInv
<1>3. IInv /\ KeptInv /\ [Next]_vars =>
          [file.factory_curve # NoCurve =>
               file'.factory_curve = file.factory_curve]_vars
  <2> SUFFICES ASSUME IInv, KeptInv, [Next]_vars, file' # file,
                      file.factory_curve # NoCurve
               PROVE  file'.factory_curve = file.factory_curve
    OBVIOUS
  <2>1. \E t \in Threads : pc[t] = "save" /\ file' = snap
    <3>1. ASSUME NEW t \in Threads, ThreadStep(t)
          PROVE  pc[t] = "save" /\ file' = snap
      BY <3>1 DEF ThreadStep, CheckFactory, ReadCurve, RecordFactory,
           WriteCurve, SelectCustom, RememberCurve, RememberCustom, WriteMode,
           RememberMode, ShowMode, WriteFails, LockAndReadBaseline,
           ReadLastMode, ReadSavedCurve, Save
    <3> QED BY <3>1 DEF Next, vars, Boot, StartUp, SkipReplay, ReplayNoCurve,
           ReplayInvalidCurve, ReplayCurve, ReplayNoMode, ReplayMode,
           SelectSavedMode, Serve,
           SetCurve, SetFanMode, OtherSetter, Call, Poll, PollRead, PollStore,
           ExternalMode, Killed, PowerLoss
  <2> QED BY <2>1 DEF KeptInv, SaveLabels
<1> QED BY <1>1, <1>2, <1>3, Invariance, PTL DEF Spec, FactoryNeverReplaced

-----------------------------------------------------------------------------
(* The factory curve on disk is the shipped one, if reads and saves succeed  *)
(* and no file holds a user curve without one.                               *)

CapturedFiles ==
    \A f \in InitialFiles :
        \/ f.factory_curve = Factory
        \/ f.factory_curve = NoCurve /\ f.fan_curve = NoCurve

(* As long as nothing was captured, nothing was written over it: the capture *)
(* is on disk before the first curve write.                                  *)
ShippedInv ==
    /\ file.factory_curve \in {NoCurve, Factory}
    /\ file.factory_curve = NoCurve => ec.curve = Factory /\ file.fan_curve = NoCurve
    /\ phase # "down" => baseline.factory_curve \in {NoCurve, Factory}
    /\ phase \in {"replaying", "serving"} =>
           baseline.factory_curve = Factory /\ file.factory_curve = Factory
    /\ phase = "starting" =>
           /\ pc[Main] \in {"check_factory", "read_ec", "record_factory"} =>
                  baseline.factory_curve = file.factory_curve
           /\ pc[Main] = "record_factory" => seen[Main] = ec.curve
           /\ pc[Main] \in {"read_ec", "record_factory"} =>
                  baseline.factory_curve = NoCurve
           /\ pc[Main] \in SaveLabels \cup {"lock", "replay_curve", "serve"} =>
                  baseline.factory_curve = Factory
           /\ pc[Main] \in {"replay_curve", "serve"} =>
                  file.factory_curve = Factory
    /\ \A t \in Threads : pc[t] \in SaveLabels => snap.factory_curve = Factory

\* The capture is read from an EC nothing was written to, and saved before
\* anything is.
LEMMA ShippedStep ==
    ASSUME TypeOK, ArgInv, PhaseInv, LockInv, StartInv, ShippedInv,
           ~ReadsFail, ~SavesFail, [Next]_vars
    PROVE  ShippedInv'
<1> USE ThreadsDistinct, CurvesTyped
<1> USE DEF TypeOK, ArgInv, PhaseInv, LockInv, StartInv, ShippedInv,
           Config, Threads, Goto, CurveLabels, ModeLabels, CaptureLabels,
           SaveLabels, ReplayLabels
<1>1. CASE Boot
  BY <1>1 DEF Boot
<1>2. CASE StartUp
  <2>1. CASE SkipReplay
    BY <2>1 DEF SkipReplay
  <2>2. CASE ReplayNoCurve
    BY <2>2 DEF ReplayNoCurve
  <2>3. CASE ReplayInvalidCurve
    BY <2>3 DEF ReplayInvalidCurve
  <2>4. CASE ReplayCurve
    BY <2>4 DEF ReplayCurve, ModeUsesCurve
  <2>5. CASE ReplayNoMode
    BY <2>5 DEF ReplayNoMode
  <2>6. CASE ReplayMode
    BY <2>6 DEF ReplayMode, SelectSavedMode
  <2>7. CASE Serve
    BY <2>7 DEF Serve
  <2> QED BY <1>2, <2>1, <2>2, <2>3, <2>4, <2>5, <2>6, <2>7 DEF StartUp
<1>3. ASSUME NEW t \in Threads, ThreadStep(t)
      PROVE  ShippedInv'
  <2>1. CASE CheckFactory(t)
    BY <2>1 DEF CheckFactory, AfterCapture
  <2>2. CASE ReadCurve(t)
    BY <2>2 DEF ReadCurve, AfterCapture
  <2>3. CASE RecordFactory(t)
    BY <2>3 DEF RecordFactory, NotShipped, KeepFactory, AfterCapture,
                Persist, HoldsSavedCurve
  <2>4. CASE WriteCurve(t)
    BY <2>4 DEF WriteCurve
  <2>5. CASE SelectCustom(t)
    BY <2>5 DEF SelectCustom
  <2>6. CASE RememberCurve(t)
    BY <2>6 DEF RememberCurve
  <2>7. CASE RememberCustom(t)
    BY <2>7 DEF RememberCustom, Persist, AfterCall
  <2>8. CASE WriteMode(t)
    BY <2>8 DEF WriteMode
  <2>9. CASE RememberMode(t)
    BY <2>9 DEF RememberMode
  <2>10. CASE ShowMode(t)
    BY <2>10 DEF ShowMode, Persist, AfterCall
  <2>11. CASE WriteFails(t)
    BY <2>11 DEF WriteFails, Fail, Leave, AfterCall
  <2>12. CASE LockAndReadBaseline(t)
    BY <2>12 DEF LockAndReadBaseline
  <2>13. CASE ReadLastMode(t)
    BY <2>13 DEF ReadLastMode, ModeOver
  <2>14. CASE ReadSavedCurve(t)
    BY <2>14 DEF ReadSavedCurve
  <2>15. CASE Save(t)
    BY <2>15 DEF Save, Leave
  <2> QED BY <1>3, <2>1, <2>2, <2>3, <2>4, <2>5, <2>6, <2>7, <2>8,
             <2>9, <2>10, <2>11, <2>12, <2>13, <2>14, <2>15 DEF ThreadStep
<1>4. ASSUME NEW t \in Calls, SetCurve(t) \/ SetFanMode(t) \/ OtherSetter(t)
      PROVE  ShippedInv'
  BY <1>4 DEF SetCurve, SetFanMode, OtherSetter, Call
<1>5. CASE Poll
  BY <1>5 DEF Poll, PollRead, PollStore
<1>6. CASE ExternalMode
  BY <1>6 DEF ExternalMode
<1>7. CASE Killed \/ PowerLoss
  BY <1>7 DEF Killed, PowerLoss, Forget, PowerOn
<1>8. CASE UNCHANGED vars
  BY <1>8 DEF vars
<1> QED BY <1>1, <1>2, <1>3, <1>4, <1>5, <1>6, <1>7, <1>8 DEF Next

\* "Restore default" never offers a curve of the user's.
THEOREM FactoryShipped ==
    ASSUME ~ReadsFail, ~SavesFail, CapturedFiles
    PROVE  Spec => []FactoryIsShipped
<1>1. Init => ShippedInv
  <2> SUFFICES ASSUME Init PROVE ShippedInv
    OBVIOUS
  <2>1. \/ file.factory_curve = Factory
        \/ file.factory_curve = NoCurve /\ file.fan_curve = NoCurve
    BY DEF Init, CapturedFiles
  <2>2. file.factory_curve = NoCurve => ec.curve = Factory
    BY <2>1, CurvesTyped DEF Init, PowerOn
  <2> QED BY <2>1, <2>2, CurvesTyped DEF Init, Blank, ShippedInv, SaveLabels
<1>2. IInv /\ ShippedInv /\ [Next]_vars => ShippedInv'
  BY ShippedStep DEF IInv
<1>3. ShippedInv => FactoryIsShipped
  BY DEF ShippedInv, FactoryIsShipped
<1> QED BY <1>1, <1>2, <1>3, Invariance, PTL DEF Spec

-----------------------------------------------------------------------------
(* A factory curve that is known is on disk, if reads succeed.               *)

WillSaveFactory == \E t \in Threads : pc[t] = "lock"

\* The capture of the start-up had its answer: the shipped curve, or that the
\* EC still holds the user's.
Looked == baseline.factory_curve # NoCurve \/ HoldsSavedCurve(ec.curve)

(* A snapshot, or a file, without the factory curve has a thread behind it   *)
(* that will save it; the replay, which saves nothing, captures nothing.     *)
CapturedInv ==
    /\ \A t \in Threads : pc[t] \in SaveLabels =>
           snap.factory_curve = baseline.factory_curve \/ WillSaveFactory
    /\ phase # "down" /\ ~unsaved /\ (\A t \in Threads : pc[t] \notin SaveLabels) =>
           file.factory_curve = baseline.factory_curve \/ WillSaveFactory
    /\ phase = "starting" =>
           /\ pc[Main] = "record_factory" => seen[Main] = ec.curve
           /\ pc[Main] \in SaveLabels \cup {"lock"} => baseline.factory_curve # NoCurve
           /\ pc[Main] = "replay_curve" => Looked
    /\ phase = "replaying" /\ pc[Main] \in CaptureLabels =>
           /\ Looked
           /\ pc[Main] = "record_factory" => seen[Main] = ec.curve

\* Every step keeps the factory curve in memory on its way to the file.
LEMMA CapturedStep ==
    ASSUME TypeOK, ArgInv, PhaseInv, LockInv, CapturedInv, ~ReadsFail, [Next]_vars
    PROVE  CapturedInv'
<1> USE ThreadsDistinct, CurvesTyped
<1> USE DEF TypeOK, ArgInv, PhaseInv, LockInv, CapturedInv, WillSaveFactory, Looked,
           HoldsSavedCurve, Config, Threads, Goto, CurveLabels, ModeLabels, CaptureLabels,
           SaveLabels, ReplayLabels
<1>1. CASE Boot
  BY <1>1 DEF Boot
<1>2. CASE StartUp
  <2>1. CASE SkipReplay
    BY <2>1 DEF SkipReplay
  <2>2. CASE ReplayNoCurve
    BY <2>2 DEF ReplayNoCurve
  <2>3. CASE ReplayInvalidCurve
    BY <2>3 DEF ReplayInvalidCurve
  <2>4. CASE ReplayCurve
    BY <2>4 DEF ReplayCurve, ModeUsesCurve
  <2>5. CASE ReplayNoMode
    BY <2>5 DEF ReplayNoMode
  <2>6. CASE ReplayMode
    BY <2>6 DEF ReplayMode, SelectSavedMode
  <2>7. CASE Serve
    BY <2>7 DEF Serve
  <2> QED BY <1>2, <2>1, <2>2, <2>3, <2>4, <2>5, <2>6, <2>7 DEF StartUp
<1>3. ASSUME NEW t \in Threads, ThreadStep(t)
      PROVE  CapturedInv'
  <2>1. CASE CheckFactory(t)
    BY <2>1 DEF CheckFactory, AfterCapture
  <2>2. CASE ReadCurve(t)
    BY <2>2 DEF ReadCurve, AfterCapture
  <2>3. CASE RecordFactory(t)
    BY <2>3 DEF RecordFactory, NotShipped, KeepFactory, AfterCapture, Persist
  <2>4. CASE WriteCurve(t)
    BY <2>4 DEF WriteCurve
  <2>5. CASE SelectCustom(t)
    BY <2>5 DEF SelectCustom
  <2>6. CASE RememberCurve(t)
    BY <2>6 DEF RememberCurve
  <2>7. CASE RememberCustom(t)
    BY <2>7 DEF RememberCustom, Persist, AfterCall
  <2>8. CASE WriteMode(t)
    BY <2>8 DEF WriteMode
  <2>9. CASE RememberMode(t)
    BY <2>9 DEF RememberMode
  <2>10. CASE ShowMode(t)
    BY <2>10 DEF ShowMode, Persist, AfterCall
  <2>11. CASE WriteFails(t)
    BY <2>11 DEF WriteFails, Fail, Leave, AfterCall
  <2>12. CASE LockAndReadBaseline(t)
    BY <2>12 DEF LockAndReadBaseline
  <2>13. CASE ReadLastMode(t)
    BY <2>13 DEF ReadLastMode, ModeOver
  <2>14. CASE ReadSavedCurve(t)
    BY <2>14 DEF ReadSavedCurve
  <2>15. CASE Save(t)
    BY <2>15 DEF Save, Leave
  <2> QED BY <1>3, <2>1, <2>2, <2>3, <2>4, <2>5, <2>6, <2>7, <2>8,
             <2>9, <2>10, <2>11, <2>12, <2>13, <2>14, <2>15 DEF ThreadStep
<1>4. ASSUME NEW t \in Calls, SetCurve(t) \/ SetFanMode(t) \/ OtherSetter(t)
      PROVE  CapturedInv'
  BY <1>4 DEF SetCurve, SetFanMode, OtherSetter, Call
<1>5. CASE Poll
  BY <1>5 DEF Poll, PollRead, PollStore
<1>6. CASE ExternalMode
  BY <1>6 DEF ExternalMode
<1>7. CASE Killed \/ PowerLoss
  BY <1>7 DEF Killed, PowerLoss, Forget
<1>8. CASE UNCHANGED vars
  BY <1>8 DEF vars
<1> QED BY <1>1, <1>2, <1>3, <1>4, <1>5, <1>6, <1>7, <1>8 DEF Next

(* A restart does not lose a factory curve the daemon knows, if reads        *)
(* succeed: whichever calls race to capture it, and whichever save fails     *)
(* before one succeeds.                                                      *)
THEOREM FactorySaved ==
    ASSUME ~ReadsFail
    PROVE  Spec => []FactoryOnDisk
<1>1. Init => CapturedInv
  BY DEF Init, Blank, CapturedInv, SaveLabels
<1>2. IInv /\ CapturedInv /\ [Next]_vars => CapturedInv'
  BY CapturedStep DEF IInv
<1>3. IInv /\ CapturedInv => FactoryOnDisk
  BY DEF IInv, PhaseInv, CapturedInv, FactoryOnDisk, AtRest, WillSaveFactory, SaveLabels, Threads
<1> QED BY <1>1, <1>2, <1>3, Invariance, PTL DEF Spec

-----------------------------------------------------------------------------
(* The file never selects custom without a curve.                            *)

(* Wherever custom is on its way to the file, a curve is there before it.    *)
CustomInv ==
    /\ file.fan_mode = Custom => file.fan_curve # NoCurve
    /\ baseline.fan_mode = Custom => baseline.fan_curve # NoCurve
    /\ last_fan_mode = Custom => CurveToSave # NoCurve
    /\ \A t \in Threads :
           /\ pc[t] = "remember_custom" => saved_curve # NoCurve
           /\ pc[t] \in ModeLabels /\ arg[t] = Custom => CurveToSave # NoCurve
           /\ pc[t] = "read_curve" /\ snap.fan_mode = Custom => CurveToSave # NoCurve
           /\ pc[t] = "save" /\ snap.fan_mode = Custom => snap.fan_curve # NoCurve

\* set_curve stores the curve before the mode; to_config reads them in the
\* opposite order.
LEMMA CustomStep ==
    ASSUME TypeOK, ArgInv, PhaseInv, LockInv, StartInv, CustomInv,
           Custom \notin ModeRequests, [Next]_vars
    PROVE  CustomInv'
<1> USE ThreadsDistinct, CurvesTyped, ModesTyped
<1> USE DEF TypeOK, ArgInv, PhaseInv, LockInv, StartInv, CustomInv,
           CurveToSave, Config, Threads, Goto, CurveLabels, ModeLabels, CaptureLabels,
           SaveLabels, ReplayLabels
<1>1. CASE Boot
  BY <1>1 DEF Boot, Modes
<1>2. CASE StartUp
  <2>1. CASE SkipReplay
    BY <2>1 DEF SkipReplay
  <2>2. CASE ReplayNoCurve
    BY <2>2 DEF ReplayNoCurve
  <2>3. CASE ReplayInvalidCurve
    BY <2>3 DEF ReplayInvalidCurve
  <2>4. CASE ReplayCurve
    BY <2>4 DEF ReplayCurve, ModeUsesCurve
  <2>5. CASE ReplayNoMode
    BY <2>5 DEF ReplayNoMode
  <2>6. CASE ReplayMode
    BY <2>6 DEF ReplayMode, SelectSavedMode
  <2>7. CASE Serve
    BY <2>7 DEF Serve
  <2> QED BY <1>2, <2>1, <2>2, <2>3, <2>4, <2>5, <2>6, <2>7 DEF StartUp
<1>3. ASSUME NEW t \in Threads, ThreadStep(t)
      PROVE  CustomInv'
  <2>1. CASE CheckFactory(t)
    BY <2>1 DEF CheckFactory, AfterCapture
  <2>2. CASE ReadCurve(t)
    BY <2>2 DEF ReadCurve, AfterCapture
  <2>3. CASE RecordFactory(t)
    BY <2>3 DEF RecordFactory, NotShipped, KeepFactory, AfterCapture, Persist
  <2>4. CASE WriteCurve(t)
    BY <2>4 DEF WriteCurve
  <2>5. CASE SelectCustom(t)
    BY <2>5 DEF SelectCustom
  <2>6. CASE RememberCurve(t)
    BY <2>6 DEF RememberCurve
  <2>7. CASE RememberCustom(t)
    BY <2>7 DEF RememberCustom, Persist, AfterCall
  <2>8. CASE WriteMode(t)
    BY <2>8 DEF WriteMode
  <2>9. CASE RememberMode(t)
    BY <2>9 DEF RememberMode
  <2>10. CASE ShowMode(t)
    BY <2>10 DEF ShowMode, Persist, AfterCall
  <2>11. CASE WriteFails(t)
    BY <2>11 DEF WriteFails, Fail, Leave, AfterCall
  <2>12. CASE LockAndReadBaseline(t)
    BY <2>12 DEF LockAndReadBaseline
  <2>13. CASE ReadLastMode(t)
    BY <2>13 DEF ReadLastMode, ModeOver
  <2>14. CASE ReadSavedCurve(t)
    BY <2>14 DEF ReadSavedCurve
  <2>15. CASE Save(t)
    BY <2>15 DEF Save, Leave
  <2> QED BY <1>3, <2>1, <2>2, <2>3, <2>4, <2>5, <2>6, <2>7, <2>8,
             <2>9, <2>10, <2>11, <2>12, <2>13, <2>14, <2>15 DEF ThreadStep
<1>4. ASSUME NEW t \in Calls, SetCurve(t) \/ SetFanMode(t) \/ OtherSetter(t)
      PROVE  CustomInv'
  BY <1>4 DEF SetCurve, SetFanMode, OtherSetter, Call
<1>5. CASE Poll
  BY <1>5 DEF Poll, PollRead, PollStore
<1>6. CASE ExternalMode
  BY <1>6 DEF ExternalMode
<1>7. CASE Killed \/ PowerLoss
  BY <1>7 DEF Killed, PowerLoss, Forget, EmptyConfig, Modes
<1>8. CASE UNCHANGED vars
  BY <1>8 DEF vars
<1> QED BY <1>1, <1>2, <1>3, <1>4, <1>5, <1>6, <1>7, <1>8 DEF Next

\* A crash never leaves a file that replays custom over a table nobody chose.
THEOREM CustomSafe ==
    ASSUME Custom \notin ModeRequests,
           \A f \in InitialFiles : f.fan_mode = Custom => f.fan_curve # NoCurve
    PROVE  Spec => []CustomHasCurve
<1>1. Init => CustomInv
  BY ModesTyped DEF Init, Blank, CustomInv, EmptyConfig, ModeLabels, Modes
<1>2. IInv /\ CustomInv /\ [Next]_vars => CustomInv'
  BY CustomStep DEF IInv
<1>3. CustomInv => CustomHasCurve
  BY DEF CustomInv, CustomHasCurve
<1> QED BY <1>1, <1>2, <1>3, Invariance, PTL DEF Spec

-----------------------------------------------------------------------------
(* The EC.                                                                   *)

CurveWritten == {"select_custom", "remember_curve", "remember_custom"}
ModeWritten  == {"remember_curve", "remember_custom", "remember_mode"}

-----------------------------------------------------------------------------
(* The replay.                                                               *)

(* apply_saved on its way.  Writing the file's curve is the only way to      *)
(* `curve_applied`, and a mode is written only where the file's curve is not *)
(* needed for it.                                                            *)
ReplayInv ==
    /\ phase \in {"down", "starting"} => ~curve_applied /\ ~failures
    /\ phase = "replaying" =>
           /\ pc[Main] \in CurveWritten => SameWritable(file.fan_curve, ec.curve)
           /\ pc[Main] \in {"remember_curve", "remember_custom"} => ec.mode = Custom
           /\ pc[Main] \in CurveLabels \cup CaptureLabels => file.fan_curve # NoCurve
           /\ pc[Main] \in ModeLabels =>
                  /\ file.fan_mode = Custom => file.fan_curve = NoCurve
                  /\ ~curve_applied
           /\ pc[Main] \in {"remember_mode", "show_mode"} => ec.mode = file.fan_mode
           /\ curve_applied =>
                  /\ file.fan_curve # NoCurve /\ file.fan_mode \in {NoMode, Custom}
                  /\ ec.mode = Custom /\ SameWritable(file.fan_curve, ec.curve)
                  /\ pc[Main] \in {"replay_mode", "serve"}
           /\ Writable /\ ~failures =>
                  /\ pc[Main] = "replay_mode" /\ file.fan_curve # NoCurve
                         /\ file.fan_mode \in {NoMode, Custom} => curve_applied
                  /\ pc[Main] = "serve" => Restored


\* A curve that has been written could be read back.
LEMMA WrittenHolds ==
    ASSUME NEW held \in Curves, NEW c \in Curves
    PROVE  SameWritable(c, Written(held, c))
BY DEF SameWritable, Written, Curves

\* Every step keeps what the replay has done so far.
LEMMA ReplayStep ==
    ASSUME TypeOK, ArgInv, PhaseInv, StartInv, ReplayInv, "replaying" \notin ExternalWrites, [Next]_vars
    PROVE  ReplayInv'
<1> USE ThreadsDistinct, CurvesTyped, ModesTyped
<1> USE DEF TypeOK, ArgInv, PhaseInv, StartInv, ReplayInv, Config, Threads,
           CurveWritten, Goto, CurveLabels, ModeLabels, CaptureLabels,
           SaveLabels, ReplayLabels
<1>1. CASE Boot
  BY <1>1 DEF Boot
<1>2. CASE StartUp
  <2>1. CASE SkipReplay
    BY <2>1 DEF SkipReplay
  <2>2. CASE ReplayNoCurve
    BY <2>2 DEF ReplayNoCurve
  <2>3. CASE ReplayInvalidCurve
    BY <2>3 DEF ReplayInvalidCurve
  <2>4. CASE ReplayCurve
    BY <2>4 DEF ReplayCurve, ModeUsesCurve
  <2>5. CASE ReplayNoMode
    BY <2>5 DEF ReplayNoMode, Restored
  <2>6. CASE ReplayMode
    BY <2>6 DEF ReplayMode, SelectSavedMode
  <2>7. CASE Serve
    BY <2>7 DEF Serve
  <2> QED BY <1>2, <2>1, <2>2, <2>3, <2>4, <2>5, <2>6, <2>7 DEF StartUp
<1>3. ASSUME NEW t \in Threads, ThreadStep(t)
      PROVE  ReplayInv'
  <2>1. CASE CheckFactory(t)
    BY <2>1 DEF CheckFactory, AfterCapture
  <2>2. CASE ReadCurve(t)
    BY <2>2 DEF ReadCurve, AfterCapture
  <2>3. CASE RecordFactory(t)
    BY <2>3 DEF RecordFactory, NotShipped, KeepFactory, AfterCapture, Persist
  <2>4. CASE WriteCurve(t)
    <3>1. arg[t] \in Curves /\ ec.curve \in Curves
      BY <2>4 DEF WriteCurve
    <3>2. SameWritable(arg[t], ec'.curve) /\ ec'.mode = ec.mode
      BY <2>4, <3>1, WrittenHolds DEF WriteCurve
    <3> QED BY <2>4, <3>2 DEF WriteCurve
  <2>5. CASE SelectCustom(t)
    BY <2>5 DEF SelectCustom, SameWritable
  <2>6. CASE RememberCurve(t)
    BY <2>6 DEF RememberCurve
  <2>7. CASE RememberCustom(t)
    BY <2>7 DEF RememberCustom, Persist, AfterCall
  <2>8. CASE WriteMode(t)
    BY <2>8 DEF WriteMode, SameWritable
  <2>9. CASE RememberMode(t)
    BY <2>9 DEF RememberMode
  <2>10. CASE ShowMode(t)
    BY <2>10 DEF ShowMode, Persist, AfterCall, Restored
  <2>11. CASE WriteFails(t)
    BY <2>11 DEF WriteFails, Fail, Leave, AfterCall
  <2>12. CASE LockAndReadBaseline(t)
    BY <2>12 DEF LockAndReadBaseline
  <2>13. CASE ReadLastMode(t)
    BY <2>13 DEF ReadLastMode, ModeOver
  <2>14. CASE ReadSavedCurve(t)
    BY <2>14 DEF ReadSavedCurve
  <2>15. CASE Save(t)
    BY <2>15 DEF Save, Leave
  <2> QED BY <1>3, <2>1, <2>2, <2>3, <2>4, <2>5, <2>6, <2>7, <2>8,
             <2>9, <2>10, <2>11, <2>12, <2>13, <2>14, <2>15 DEF ThreadStep
<1>4. ASSUME NEW t \in Calls, SetCurve(t) \/ SetFanMode(t) \/ OtherSetter(t)
      PROVE  ReplayInv'
  BY <1>4 DEF SetCurve, SetFanMode, OtherSetter, Call
<1>5. CASE Poll
  BY <1>5 DEF Poll, PollRead, PollStore, Restored
<1>6. CASE ExternalMode
  BY <1>6 DEF ExternalMode
<1>7. CASE Killed \/ PowerLoss
  BY <1>7 DEF Killed, PowerLoss, Forget
<1>8. CASE UNCHANGED vars
  BY <1>8 DEF vars, Restored
<1> QED BY <1>1, <1>2, <1>3, <1>4, <1>5, <1>6, <1>7, <1>8 DEF Next

\* The replay's invariant holds throughout.
LEMMA ReplayHolds ==
    ASSUME "replaying" \notin ExternalWrites
    PROVE  Spec => [](IInv /\ ReplayInv)
<1>1. Init => ReplayInv
  BY DEF Init, Blank, ReplayInv
<1>2. IInv /\ ReplayInv /\ [Next]_vars => ReplayInv'
  BY ReplayStep DEF IInv
<1> QED BY <1>1, <1>2, Invariance, PTL DEF Spec

(* A replay without a failure has restored what the file says, from any file *)
(* and from any state a crash or a power loss left the EC in.                *)
THEOREM ReplayRestoresFan ==
    ASSUME Writable, "replaying" \notin ExternalWrites
    PROVE  Spec => RestoredOnStart
<1>1. IInv /\ ReplayInv /\ [Next]_vars =>
          [phase = "replaying" /\ phase' = "serving" /\ ~failures => Restored]_vars
  <2> SUFFICES ASSUME IInv, ReplayInv, Next, phase = "replaying", phase' = "serving", ~failures
               PROVE  Restored
    BY DEF vars
  <2>1. pc[Main] = "serve"
    <3>1. ASSUME NEW t \in Threads, ThreadStep(t) PROVE phase' = phase
      BY <3>1 DEF ThreadStep, CheckFactory, ReadCurve, RecordFactory,
           WriteCurve, SelectCustom, RememberCurve, RememberCustom, WriteMode,
           RememberMode, ShowMode, WriteFails, LockAndReadBaseline,
           ReadLastMode, ReadSavedCurve, Save
    <3> QED BY <3>1 DEF Next, Boot, StartUp, SkipReplay, ReplayNoCurve,
           ReplayInvalidCurve, ReplayCurve, ReplayNoMode, ReplayMode,
           SelectSavedMode, Serve, SetCurve, SetFanMode, OtherSetter, Call, Poll,
           PollRead, PollStore, ExternalMode, Killed, PowerLoss, Forget
  <2> QED BY <2>1 DEF ReplayInv
<1> QED BY <1>1, ReplayHolds, PTL DEF Spec, RestoredOnStart

(* Custom is never selected over a table that is not the file's curve.       *)
THEOREM ReplayIsNeverBlind ==
    ASSUME "replaying" \notin ExternalWrites
    PROVE  Spec => ReplayNeverBlind
<1> USE DEF PhaseInv, ArgInv, StartInv, ReplayInv, Threads, CurveWritten, Goto, CurveLabels,
            ModeLabels, CaptureLabels,
           SaveLabels, ReplayLabels
<1>1. IInv /\ ReplayInv /\ [Next]_vars =>
          [phase = "replaying" /\ ec'.mode = Custom /\ ec.mode # Custom
               /\ file.fan_curve # NoCurve
           => SameWritable(file.fan_curve, ec.curve)]_vars
  <2> SUFFICES ASSUME IInv, ReplayInv, Next, phase = "replaying", ec'.mode = Custom,
                      ec.mode # Custom, file.fan_curve # NoCurve
               PROVE  SameWritable(file.fan_curve, ec.curve)
    BY DEF vars
  <2>1. PICK t \in Threads : pc[t] \in {"select_custom", "write_mode"} /\ ThreadStep(t)
                             /\ ec'.mode = IF pc[t] = "select_custom" THEN Custom ELSE arg[t]
    <3>1. ASSUME NEW t \in Threads, ThreadStep(t), ~SelectCustom(t), ~WriteMode(t),
                 ~(WriteFails(t) /\ pc[t] \in {"select_custom", "write_mode"})
          PROVE  ec'.mode = ec.mode
      BY <3>1 DEF IInv, TypeOK, ThreadStep, CheckFactory, ReadCurve, RecordFactory,
           WriteCurve, RememberCurve, RememberCustom,
           RememberMode, ShowMode, WriteFails, Effect, LockAndReadBaseline,
           ReadLastMode, ReadSavedCurve, Save
    <3>2. ec' = ec \/ (\E t \in Threads : ThreadStep(t)) \/ PowerLoss
      BY DEF Next, Boot, StartUp, SkipReplay, ReplayNoCurve,
           ReplayInvalidCurve, ReplayCurve, ReplayNoMode, ReplayMode,
           SelectSavedMode, Serve, SetCurve, SetFanMode, OtherSetter, Call, Poll,
           PollRead, PollStore, ExternalMode, Killed
    <3>3. ~PowerLoss
      BY ModesTyped DEF PowerLoss, PowerOn
    <3>4. PICK t \in Threads : /\ ThreadStep(t)
                               /\ \/ SelectCustom(t) \/ WriteMode(t)
                                  \/ WriteFails(t) /\ pc[t] \in {"select_custom", "write_mode"}
      BY <3>1, <3>2, <3>3
    <3>5. ec'.mode = IF pc[t] = "select_custom" THEN Custom ELSE arg[t]
      BY <3>4 DEF IInv, TypeOK, SelectCustom, WriteMode, WriteFails, Effect
    <3> QED BY <3>4, <3>5 DEF SelectCustom, WriteMode
  <2>2. t = Main
    BY <2>1 DEF IInv
  <2>3. CASE pc[t] = "select_custom"
    BY <2>2, <2>3
  <2>4. CASE pc[t] = "write_mode"
    BY <2>1, <2>2, <2>4, ModesTyped DEF IInv, TypeOK
  <2> QED BY <2>1, <2>3, <2>4
<1> QED BY <1>1, ReplayHolds, PTL DEF Spec, ReplayNeverBlind

-----------------------------------------------------------------------------
(* Memory and hardware, one call at a time.                                  *)

OneCallAtATime == \A c, d \in Calls : c = d

(* Between the write to the EC and the note of it a thread is behind.        *)
ModeInv ==
    /\ \A t \in Threads :
           /\ pc[t] \in {"remember_curve", "remember_custom"} => ec.mode = Custom
           /\ pc[t] = "remember_mode" => ec.mode = arg[t]
    /\ (\A t \in Threads : pc[t] \notin ModeWritten) /\ last_fan_mode # NoMode =>
           ec.mode = last_fan_mode

(* The same of the curve; nobody selects custom but set_curve, and the       *)
(* replay of a file without a curve.                                         *)
CurveInv ==
    /\ phase = "replaying" => saved_curve \in {NoCurve, baseline.fan_curve}
    /\ \A t \in Threads :
           /\ pc[t] \in CurveWritten => SameWritable(arg[t], ec.curve)
           /\ pc[t] = "remember_custom" => saved_curve = arg[t]
           /\ pc[t] \in ModeLabels /\ arg[t] = Custom => saved_curve = NoCurve
    /\ (\A t \in Threads : pc[t] \notin CurveWritten)
           /\ last_fan_mode = Custom /\ saved_curve # NoCurve =>
           SameWritable(saved_curve, ec.curve)

\* At most one thread is in a call, or in the start-up.
LEMMA Alone ==
    ASSUME OneCallAtATime, PhaseInv, NEW t \in Threads, NEW u \in Threads,
           pc[t] # "idle", pc[u] # "idle"
    PROVE  t = u
BY DEF OneCallAtATime, PhaseInv, Threads

\* With one call at a time every step keeps mode and memory together.
LEMMA ModeStep ==
    ASSUME TypeOK, ArgInv, PhaseInv, ModeInv,
           OneCallAtATime, ~WritesFail, ExternalWrites \subseteq {"down", "starting"}, [Next]_vars
    PROVE  ModeInv'
<1> USE ThreadsDistinct, ModesTyped, Alone
<1> USE DEF TypeOK, ArgInv, PhaseInv, ModeInv, Config, Threads, ModeWritten, Goto, CurveLabels,
            ModeLabels, CaptureLabels,
           SaveLabels, ReplayLabels
<1>1. CASE Boot
  BY <1>1 DEF Boot
<1>2. CASE StartUp
  <2>1. CASE SkipReplay
    BY <2>1 DEF SkipReplay
  <2>2. CASE ReplayNoCurve
    BY <2>2 DEF ReplayNoCurve
  <2>3. CASE ReplayInvalidCurve
    BY <2>3 DEF ReplayInvalidCurve
  <2>4. CASE ReplayCurve
    BY <2>4 DEF ReplayCurve, ModeUsesCurve
  <2>5. CASE ReplayNoMode
    BY <2>5 DEF ReplayNoMode
  <2>6. CASE ReplayMode
    BY <2>6 DEF ReplayMode, SelectSavedMode
  <2>7. CASE Serve
    BY <2>7 DEF Serve
  <2> QED BY <1>2, <2>1, <2>2, <2>3, <2>4, <2>5, <2>6, <2>7 DEF StartUp
<1>3. ASSUME NEW t \in Threads, ThreadStep(t)
      PROVE  ModeInv'
  <2>1. CASE CheckFactory(t)
    BY <2>1 DEF CheckFactory, AfterCapture
  <2>2. CASE ReadCurve(t)
    BY <2>2 DEF ReadCurve, AfterCapture
  <2>3. CASE RecordFactory(t)
    BY <2>3 DEF RecordFactory, NotShipped, KeepFactory, AfterCapture, Persist
  <2>4. CASE WriteCurve(t)
    BY <2>4 DEF WriteCurve
  <2>5. CASE SelectCustom(t)
    BY <2>5 DEF SelectCustom
  <2>6. CASE RememberCurve(t)
    BY <2>6 DEF RememberCurve
  <2>7. CASE RememberCustom(t)
    BY <2>7 DEF RememberCustom, Persist, AfterCall
  <2>8. CASE WriteMode(t)
    BY <2>8 DEF WriteMode
  <2>9. CASE RememberMode(t)
    BY <2>9 DEF RememberMode
  <2>10. CASE ShowMode(t)
    BY <2>10 DEF ShowMode, Persist, AfterCall
  <2>11. CASE WriteFails(t)
    BY <2>11 DEF WriteFails, Fail, Leave, AfterCall
  <2>12. CASE LockAndReadBaseline(t)
    BY <2>12 DEF LockAndReadBaseline
  <2>13. CASE ReadLastMode(t)
    BY <2>13 DEF ReadLastMode, ModeOver
  <2>14. CASE ReadSavedCurve(t)
    BY <2>14 DEF ReadSavedCurve
  <2>15. CASE Save(t)
    BY <2>15 DEF Save, Leave
  <2> QED BY <1>3, <2>1, <2>2, <2>3, <2>4, <2>5, <2>6, <2>7, <2>8,
             <2>9, <2>10, <2>11, <2>12, <2>13, <2>14, <2>15 DEF ThreadStep
<1>4. ASSUME NEW t \in Calls, SetCurve(t) \/ SetFanMode(t) \/ OtherSetter(t)
      PROVE  ModeInv'
  BY <1>4 DEF SetCurve, SetFanMode, OtherSetter, Call
<1>5. CASE Poll
  BY <1>5 DEF Poll, PollRead, PollStore
<1>6. CASE ExternalMode
  BY <1>6 DEF ExternalMode
<1>7. CASE Killed \/ PowerLoss
  BY <1>7 DEF Killed, PowerLoss, Forget
<1>8. CASE UNCHANGED vars
  BY <1>8 DEF vars
<1> QED BY <1>1, <1>2, <1>3, <1>4, <1>5, <1>6, <1>7, <1>8 DEF Next

(* What last_fan_mode says at rest is what the EC runs, if calls come one at *)
(* a time, writes succeed and no other program sets the mode; reads and      *)
(* saves may fail, and the daemon may be killed anywhere.                    *)
THEOREM ModeHolds ==
    ASSUME OneCallAtATime, ~WritesFail, ExternalWrites \subseteq {"down", "starting"}
    PROVE  Spec => []ModeMatchesHardware
<1>1. Init => ModeInv
  BY DEF Init, Blank, ModeInv, Threads
<1>2. IInv /\ ModeInv /\ [Next]_vars => ModeInv'
  BY ModeStep DEF IInv
<1>3. IInv /\ ModeInv => ModeMatchesHardware
  BY DEF IInv, PhaseInv, ModeInv, ModeMatchesHardware, AtRest, Threads, ModeWritten
<1> QED BY <1>1, <1>2, <1>3, Invariance, PTL DEF Spec

\* With one call at a time every step keeps curve and memory together.
LEMMA CurveStep ==
    ASSUME TypeOK, ArgInv, PhaseInv, StartInv, CurveInv,
           OneCallAtATime, ~WritesFail, Custom \notin ModeRequests, [Next]_vars
    PROVE  CurveInv'
<1> USE ThreadsDistinct, CurvesTyped, ModesTyped, Alone
<1> USE DEF TypeOK, ArgInv, PhaseInv, StartInv, CurveInv, Config, Threads,
           CurveWritten, Goto, CurveLabels, ModeLabels, CaptureLabels,
           SaveLabels, ReplayLabels
<1>1. CASE Boot
  BY <1>1 DEF Boot
<1>2. CASE StartUp
  <2>1. CASE SkipReplay
    BY <2>1 DEF SkipReplay
  <2>2. CASE ReplayNoCurve
    BY <2>2 DEF ReplayNoCurve
  <2>3. CASE ReplayInvalidCurve
    BY <2>3 DEF ReplayInvalidCurve
  <2>4. CASE ReplayCurve
    <3>1. phase = "starting" /\ last_fan_mode = NoMode
      BY <2>4 DEF ReplayCurve
    <3>2. \A t \in Calls : pc[t] = "idle" /\ pc'[t] = "idle"
      BY <2>4, <3>1 DEF ReplayCurve, ModeUsesCurve
    <3>3. pc'[Main] \in {"check_factory", "replay_mode"}
      BY <2>4 DEF ReplayCurve
    <3>4. last_fan_mode' = NoMode /\ saved_curve' = baseline.fan_curve /\ baseline' = baseline
      BY <2>4, <3>1 DEF ReplayCurve
    <3>5. Custom # NoMode
      BY DEF Modes
    <3> QED BY <3>2, <3>3, <3>4, <3>5
  <2>5. CASE ReplayNoMode
    BY <2>5 DEF ReplayNoMode
  <2>6. CASE ReplayMode
    BY <2>6 DEF ReplayMode, SelectSavedMode
  <2>7. CASE Serve
    BY <2>7 DEF Serve
  <2> QED BY <1>2, <2>1, <2>2, <2>3, <2>4, <2>5, <2>6, <2>7 DEF StartUp
<1>3. ASSUME NEW t \in Threads, ThreadStep(t)
      PROVE  CurveInv'
  <2>1. CASE CheckFactory(t)
    BY <2>1 DEF CheckFactory, AfterCapture
  <2>2. CASE ReadCurve(t)
    BY <2>2 DEF ReadCurve, AfterCapture
  <2>3. CASE RecordFactory(t)
    BY <2>3 DEF RecordFactory, NotShipped, KeepFactory, AfterCapture, Persist
  <2>4. CASE WriteCurve(t)
    <3>1. arg[t] \in Curves /\ ec.curve \in Curves
      BY <2>4 DEF WriteCurve
    <3>2. SameWritable(arg[t], ec'.curve)
      BY <2>4, <3>1, WrittenHolds DEF WriteCurve
    <3> QED BY <2>4, <3>2 DEF WriteCurve
  <2>5. CASE SelectCustom(t)
    BY <2>5 DEF SelectCustom
  <2>6. CASE RememberCurve(t)
    BY <2>6 DEF RememberCurve
  <2>7. CASE RememberCustom(t)
    BY <2>7 DEF RememberCustom, Persist, AfterCall
  <2>8. CASE WriteMode(t)
    BY <2>8 DEF WriteMode
  <2>9. CASE RememberMode(t)
    BY <2>9 DEF RememberMode
  <2>10. CASE ShowMode(t)
    BY <2>10 DEF ShowMode, Persist, AfterCall
  <2>11. CASE WriteFails(t)
    BY <2>11 DEF WriteFails, Fail, Leave, AfterCall
  <2>12. CASE LockAndReadBaseline(t)
    BY <2>12 DEF LockAndReadBaseline
  <2>13. CASE ReadLastMode(t)
    BY <2>13 DEF ReadLastMode, ModeOver
  <2>14. CASE ReadSavedCurve(t)
    BY <2>14 DEF ReadSavedCurve
  <2>15. CASE Save(t)
    BY <2>15 DEF Save, Leave
  <2> QED BY <1>3, <2>1, <2>2, <2>3, <2>4, <2>5, <2>6, <2>7, <2>8,
             <2>9, <2>10, <2>11, <2>12, <2>13, <2>14, <2>15 DEF ThreadStep
<1>4. ASSUME NEW t \in Calls, SetCurve(t) \/ SetFanMode(t) \/ OtherSetter(t)
      PROVE  CurveInv'
  BY <1>4 DEF SetCurve, SetFanMode, OtherSetter, Call
<1>5. CASE Poll
  BY <1>5 DEF Poll, PollRead, PollStore
<1>6. CASE ExternalMode
  BY <1>6 DEF ExternalMode
<1>7. CASE Killed \/ PowerLoss
  BY <1>7 DEF Killed, PowerLoss, Forget
<1>8. CASE UNCHANGED vars
  BY <1>8 DEF vars
<1> QED BY <1>1, <1>2, <1>3, <1>4, <1>5, <1>6, <1>7, <1>8 DEF Next

(* In custom mode the EC runs the curve the daemon calls saved, if besides   *)
(* writes succeed and custom is selected by set_curve only; whether the EC   *)
(* was rebooted, the daemon killed in the middle, or another program sets    *)
(* the mode.                                                                 *)
THEOREM CurveHolds ==
    ASSUME OneCallAtATime, ~WritesFail, Custom \notin ModeRequests
    PROVE  Spec => []CurveMatchesHardware
<1>1. Init => CurveInv
  BY ModesTyped DEF Init, Blank, CurveInv, CurveWritten, ModeLabels, Threads
<1>2. IInv /\ CurveInv /\ [Next]_vars => CurveInv'
  BY CurveStep DEF IInv
<1>3. IInv /\ CurveInv => CurveMatchesHardware
  BY DEF IInv, PhaseInv, CurveInv, CurveMatchesHardware, AtRest, Threads, CurveWritten
<1> QED BY <1>1, <1>2, <1>3, Invariance, PTL DEF Spec
=============================================================================
