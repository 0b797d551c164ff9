---------------------------- MODULE PerfStatus ----------------------------
(***************************************************************************)
(* The performance mode and the polled fan status: what clevod keeps in     *)
(* memory and on disk of things that also change without it.  The driver's  *)
(* perf_mode is written by the daemon, and by other programs through sysfs  *)
(* or platform_profile.  `perf_lock` covers a whole set_perf_mode and a     *)
(* whole sync_modes, their saves included; the status read that follows     *)
(* sync_modes in a poll is under no lock, and polls overlap: the timer's    *)
(* are one at a time, those of D-Bus Poll are not.                          *)
(***************************************************************************)
EXTENDS Naturals

CONSTANTS
    Workers,        \* D-Bus calls that may be in flight at once
    Timer,          \* the poll loop
    Booter,         \* the start-up thread
    Nil,            \* no thread; Option::None, UNSET, the driver's "unknown"
    PerfModes,      \* the four performance modes
    Supported,      \* those the firmware advertises
    Readings,       \* what a fan status read may return
    FanCount,       \* the fan count the firmware reports, 1..3
    SavedPerf,      \* perf_mode in the file before the first start
    MaxOutside,     \* a bound on changes from outside
    MaxTroubles     \* a bound on failures, kills and power losses

Tasks == Workers \cup {Timer, Booter}

ASSUME PerfTyped == /\ Supported \subseteq PerfModes /\ Nil \notin PerfModes \cup Tasks
                    /\ SavedPerf \subseteq PerfModes \cup {Nil} /\ Nil \notin Readings
                    /\ FanCount \in 1..3 /\ Timer # Booter /\ {Timer, Booter} \cap Workers = {}
                    /\ MaxOutside \in Nat /\ MaxTroubles \in Nat

VARIABLES
    perf,               \* the driver's perf_mode; the EC runs it
    reading,            \* what a command 12 would read now
    perfFile,           \* perf_mode in clevod.toml
    up,                 \* "down", "replay", "serving"
    loaded,             \* baseline.perf_mode
    last,               \* last_perf_mode
    shown,              \* DaemonState.perf_mode, the PerfMode property
    fan,                \* DaemonState.fan: freshness, value, fan count it was read with
    perfLock, fileLock, \* perf_lock, persistence_lock
    where, doing,       \* per task: where it is, in which operation
    wanted,             \* per task: the mode to set, or just read
    got,                \* per task: the status it has read
    kept,               \* per task: the mode to_config has put into its draft
    drift,              \* the driver's mode has changed since it was read or set
    stale,              \* the last save of a mode failed
    outside, troubles   \* how many of each have happened

perfVars == <<perf, reading, perfFile, up, loaded, last, shown, fan, perfLock, fileLock,
              where, doing, wanted, got, kept, drift, stale, outside, troubles>>
memory  == <<last, shown, fan>>
locks   == <<perfLock, fileLock>>
locals  == <<wanted, got, kept>>
bounds  == <<outside, troubles>>

Unread == [freshness |-> "unknown", value |-> Nil, count |-> 0]

Outside == /\ outside < MaxOutside
           /\ outside' = outside + 1
           /\ UNCHANGED troubles

Trouble == /\ troubles < MaxTroubles
           /\ troubles' = troubles + 1
           /\ UNCHANGED outside

Move(t, here, next) ==
    /\ where[t] = here
    /\ where' = [where EXCEPT ![t] = next]
    /\ UNCHANGED doing

Release(t) == perfLock' = IF perfLock = t THEN Nil ELSE perfLock

Enter(t, operation, first) ==
    /\ where[t] = "idle"
    /\ where' = [where EXCEPT ![t] = first]
    /\ doing' = [doing EXCEPT ![t] = operation]

\* A task's locals end with its operation.
Return(t, here) ==
    /\ where[t] = here
    /\ where' = [where EXCEPT ![t] = "idle"]
    /\ doing' = [doing EXCEPT ![t] = "none"]
    /\ wanted' = [wanted EXCEPT ![t] = Nil]

Down ==
    /\ up = "down" /\ loaded = Nil
    /\ last = Nil /\ shown = Nil /\ fan = Unread
    /\ perfLock = Nil /\ fileLock = Nil
    /\ where = [t \in Tasks |-> "idle"] /\ doing = [t \in Tasks |-> "none"]
    /\ wanted = [t \in Tasks |-> Nil] /\ got = [t \in Tasks |-> Nil]
    /\ kept = [t \in Tasks |-> Nil]
    /\ drift = TRUE /\ stale = FALSE

PerfInit ==
    /\ perf = Nil
    /\ reading \in Readings
    /\ perfFile \in SavedPerf
    /\ Down
    /\ outside = 0 /\ troubles = 0

\* apply_saved: a saved mode is set again, before anything else runs.
PerfStart ==
    /\ up = "down"
    /\ up' = "replay"
    /\ loaded' = perfFile
    /\ wanted' = [wanted EXCEPT ![Booter] = perfFile]
    /\ IF perfFile = Nil THEN UNCHANGED <<where, doing>> ELSE Enter(Booter, "set", "set")
    /\ UNCHANGED <<perf, reading, perfFile, memory, locks, got, kept, drift, stale, bounds>>

PerfServe ==
    /\ up = "replay" /\ where[Booter] = "idle"
    /\ up' = "serving"
    /\ UNCHANGED <<perf, reading, perfFile, loaded, memory, locks, where, doing, locals,
                   drift, stale, bounds>>

-----------------------------------------------------------------------------
(* set_perf_mode, under perf_lock from the first step to the last.           *)

CallSetPerfMode(t) ==
    /\ up = "serving" /\ t \in Workers
    /\ Enter(t, "set", "set")
    /\ \E m \in PerfModes : wanted' = [wanted EXCEPT ![t] = m]
    /\ Outside
    /\ UNCHANGED <<perf, reading, perfFile, up, loaded, memory, locks, got, kept,
                   drift, stale>>

\* Not advertised, or the capabilities cannot be read, or the write fails: no change.
RefusePerf(t) ==
    /\ perfLock = Nil
    /\ Return(t, "set")
    /\ IF wanted[t] \in Supported THEN Trouble ELSE UNCHANGED bounds
    /\ UNCHANGED <<perf, reading, perfFile, up, loaded, memory, locks, got, kept,
                   drift, stale>>

ApplyPerf(t) ==
    /\ Move(t, "set", "remember")
    /\ perfLock = Nil /\ perfLock' = t
    /\ wanted[t] \in Supported
    /\ perf' = wanted[t]
    /\ drift' = FALSE
    /\ UNCHANGED <<reading, perfFile, up, loaded, memory, fileLock, locals, stale, bounds>>

RememberPerf(t) ==
    /\ Move(t, "remember", "show")
    /\ last' = wanted[t]
    /\ UNCHANGED <<perf, reading, perfFile, up, loaded, shown, fan, locks, locals,
                   drift, stale, bounds>>

\* Nothing is saved during the replay: the mode came from the file.
ShowPerf(t) ==
    /\ shown' = wanted[t]
    /\ IF t = Booter
       THEN Return(t, "show") /\ Release(t)
       ELSE Move(t, "show", "save") /\ UNCHANGED <<perfLock, wanted>>
    /\ UNCHANGED <<perf, reading, perfFile, up, loaded, last, fan, fileLock, got, kept,
                   drift, stale, bounds>>

-----------------------------------------------------------------------------
(* poll_fan: sync_modes under perf_lock, then the status.                    *)

BeginPoll(t) ==
    /\ up = "serving" /\ t # Booter
    /\ Enter(t, "poll", "sync")
    /\ UNCHANGED <<perf, reading, perfFile, up, loaded, memory, locks, locals,
                   drift, stale, bounds>>

\* Fault: sync_modes does not take perf_lock.
SyncReadUnlocked(t) ==
    /\ Move(t, "sync", "adopt")
    /\ wanted' = [wanted EXCEPT ![t] = perf]
    /\ drift' = FALSE
    /\ UNCHANGED <<perf, reading, perfFile, up, loaded, memory, locks, got, kept, stale, bounds>>

SyncRead(t) ==
    /\ Move(t, "sync", "adopt")
    /\ perfLock = Nil /\ perfLock' = t
    /\ wanted' = [wanted EXCEPT ![t] = perf]
    /\ drift' = FALSE
    /\ UNCHANGED <<perf, reading, perfFile, up, loaded, memory, fileLock, got, kept,
                   stale, bounds>>

\* perf_mode cannot be read, or names none of the four: memory stays as it is.
SyncSkipped(t) ==
    /\ perfLock = Nil
    /\ Move(t, "sync", "status")
    /\ Trouble
    /\ UNCHANGED <<perf, reading, perfFile, up, loaded, memory, locks, locals, drift, stale>>

\* Fault: a mode is saved only if it replaces an earlier one.
SavedIfReplaced(mode) == last # Nil /\ last # mode

\* A transition is saved; so is a first observation that the file does not have.
NeedsSave(mode) == last # mode /\ (last # Nil \/ loaded # mode)

SyncAdopt(t) ==
    /\ where[t] = "adopt"
    /\ IF wanted[t] = Nil
       THEN UNCHANGED memory
       ELSE shown' = wanted[t] /\ last' = wanted[t] /\ UNCHANGED fan
    /\ IF wanted[t] # Nil /\ NeedsSave(wanted[t])
       THEN Move(t, "adopt", "save") /\ UNCHANGED perfLock
       ELSE Move(t, "adopt", "status") /\ Release(t)
    /\ UNCHANGED <<perf, reading, perfFile, up, loaded, fileLock, locals, drift, stale, bounds>>

\* Command 12, then command 13 for the fan count: 0 when that one fails.
ReadStatus(t) ==
    /\ Move(t, "status", "apply")
    /\ \/ /\ got' = [got EXCEPT ![t] = [freshness |-> "fresh", value |-> reading, count |-> FanCount]]
          /\ UNCHANGED bounds
       \/ /\ got' = [got EXCEPT ![t] = [freshness |-> "fresh", value |-> reading, count |-> 0]]
          /\ Trouble
       \/ got' = [got EXCEPT ![t] = Nil] /\ Trouble
    /\ UNCHANGED <<perf, reading, perfFile, up, loaded, memory, locks, wanted, kept, drift, stale>>

\* Fault: a status that was once stale stays so.
ApplyUnlessStale(status) ==
    IF status # Nil THEN [status EXCEPT !.freshness = IF fan.freshness = "stale" THEN "stale" ELSE @]
    ELSE [fan EXCEPT !.freshness = IF @ = "fresh" THEN "stale" ELSE "unknown"]

\* apply_status, or mark_fan_stale: the second failure in a row makes it "unknown".
Applied(status) ==
    IF status # Nil THEN status
    ELSE [fan EXCEPT !.freshness = IF @ = "fresh" THEN "stale" ELSE "unknown"]

ApplyStatus(t) ==
    /\ Return(t, "apply")
    /\ fan' = Applied(got[t])
    /\ got' = [got EXCEPT ![t] = Nil]
    /\ UNCHANGED <<perf, reading, perfFile, up, loaded, last, shown, locks, kept,
                   drift, stale, bounds>>

-----------------------------------------------------------------------------
(* persist.                                                                  *)

\* Any other setter saves the mode it finds in memory along with its own field.
CallOtherSetter(t) ==
    /\ up = "serving" /\ t \in Workers
    /\ Enter(t, "other", "save")
    /\ Outside
    /\ UNCHANGED <<perf, reading, perfFile, up, loaded, memory, locks, locals, drift,
                   stale>>

DraftConfig(t) ==
    /\ Move(t, "save", "write")
    /\ fileLock = Nil /\ fileLock' = t
    /\ kept' = [kept EXCEPT ![t] = IF last = Nil THEN loaded ELSE last]
    /\ UNCHANGED <<perf, reading, perfFile, up, loaded, memory, perfLock, wanted, got,
                   drift, stale, bounds>>

\* A poll goes on to the status, a setter returns; perf_lock goes with its holder.
WriteConfig(t) ==
    /\ \/ perfFile' = kept[t] /\ stale' = FALSE /\ UNCHANGED bounds
       \/ stale' = TRUE /\ Trouble /\ UNCHANGED perfFile
    /\ fileLock' = Nil
    /\ kept' = [kept EXCEPT ![t] = Nil]
    /\ Release(t)
    /\ IF doing[t] = "poll" THEN Move(t, "write", "status") /\ UNCHANGED wanted
       ELSE Return(t, "write")
    /\ UNCHANGED <<perf, reading, up, loaded, memory, got, drift>>

-----------------------------------------------------------------------------
(* The world outside.                                                        *)

\* perf_mode_store or platform_profile, one kernel-locked step each.
OutsidePerf ==
    /\ Outside
    /\ \E m \in Supported \ {perf} : perf' = m
    /\ drift' = TRUE
    /\ UNCHANGED <<reading, perfFile, up, loaded, memory, locks, where, doing, locals, stale>>

OutsideReading ==
    /\ Outside
    /\ \E r \in Readings \ {reading} : reading' = r
    /\ UNCHANGED <<perf, perfFile, up, loaded, memory, locks, where, doing, locals, drift, stale>>

\* The daemon is killed, or the machine loses power and the driver forgets the mode.
PerfKilled ==
    /\ up # "down" /\ Trouble
    /\ up' = "down" /\ loaded' = Nil
    /\ last' = Nil /\ shown' = Nil /\ fan' = Unread
    /\ perfLock' = Nil /\ fileLock' = Nil
    /\ where' = [t \in Tasks |-> "idle"] /\ doing' = [t \in Tasks |-> "none"]
    /\ wanted' = [t \in Tasks |-> Nil] /\ got' = [t \in Tasks |-> Nil]
    /\ kept' = [t \in Tasks |-> Nil]
    /\ drift' = TRUE /\ stale' = FALSE
    /\ perf' \in {perf, Nil}
    /\ UNCHANGED <<reading, perfFile>>

TaskStep(t) ==
    \/ RefusePerf(t) \/ ApplyPerf(t) \/ RememberPerf(t) \/ ShowPerf(t)
    \/ SyncRead(t) \/ SyncSkipped(t) \/ SyncAdopt(t) \/ ReadStatus(t) \/ ApplyStatus(t)
    \/ DraftConfig(t) \/ WriteConfig(t)

PerfNext ==
    \/ PerfStart \/ PerfServe
    \/ \E t \in Tasks : CallSetPerfMode(t) \/ CallOtherSetter(t) \/ BeginPoll(t) \/ TaskStep(t)
    \/ OutsidePerf \/ OutsideReading \/ PerfKilled

(* systemd starts the daemon again, its threads go on, and the poll loop      *)
(* ticks.  Nobody is obliged to call, to poll over D-Bus or to stop.          *)
PerfFairness ==
    /\ WF_perfVars(PerfStart) /\ WF_perfVars(PerfServe)
    /\ WF_perfVars(BeginPoll(Timer))
    /\ \A t \in Tasks : WF_perfVars(TaskStep(t))

PerfSpec == PerfInit /\ [][PerfNext]_perfVars /\ PerfFairness

-----------------------------------------------------------------------------
PerfTypeOK ==
    /\ {perf, perfFile, loaded, last, shown} \subseteq PerfModes \cup {Nil}
    /\ reading \in Readings
    /\ up \in {"down", "replay", "serving"}
    /\ {perfLock, fileLock} \subseteq Tasks \cup {Nil}
    /\ fan \in [freshness : {"fresh", "stale", "unknown"}, value : Readings \cup {Nil},
                count : {0, FanCount}]
    /\ where \in [Tasks -> {"idle", "set", "remember", "show", "sync", "adopt", "status",
                            "apply", "save", "write"}]
    /\ doing \in [Tasks -> {"none", "set", "poll", "other"}]
    /\ wanted \in [Tasks -> PerfModes \cup {Nil}] /\ kept \in [Tasks -> PerfModes \cup {Nil}]
    /\ {drift, stale} \subseteq BOOLEAN
    /\ outside \in 0..MaxOutside /\ troubles \in 0..MaxTroubles

(* Between two holders of perf_lock, memory, the D-Bus property and the file   *)
(* name the mode the driver runs, unless another program has changed it since  *)
(* it was set or read, or the last save failed (set_perf_mode and sync_modes,  *)
(* service.rs).                                                               *)
PerfAgrees ==
    up = "serving" /\ perfLock = Nil /\ perf # Nil /\ ~drift =>
        last = perf /\ shown = perf /\ (stale \/ perfFile = perf)

Settled ==
    /\ up = "serving"
    /\ fan = [freshness |-> "fresh", value |-> reading, count |-> FanCount]
    /\ perf # Nil => last = perf /\ shown = perf /\ (stale \/ perfFile = perf)

(* Whatever was changed from outside, failed or was restarted on the way, once *)
(* that stops polling makes the daemon's view the machine's and keeps it so    *)
(* (poll_fan, service.rs:414; the poll loop, main.rs:174).                    *)
ViewSettles == <>[]Settled
=============================================================================
