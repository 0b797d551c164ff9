--------------------------- MODULE StandardCharge ---------------------------
(***************************************************************************)
(* Battery charge thresholds through the standard power_supply attributes:   *)
(* clevod changes a window (start, end) by writing one attribute after the   *)
(* other, reads the window back, and writes the old one back when the result *)
(* is not what was asked for.  Verified windows are remembered, saved and    *)
(* replayed at the next start.                                               *)
(*                                                                          *)
(* charge_lock and Power.lock let one such transaction run at a time; the    *)
(* process may be killed and the power lost between any two of its steps.    *)
(***************************************************************************)
EXTENDS Naturals, Sequences

CONSTANTS
    Batteries,
    StartBatteries, \* those with charge_control_start_threshold
    Percents,       \* the threshold values tried, of 0..100
    NoValue,        \* Option::None for a threshold
    Unreadable,     \* read_battery found no thresholds
    NoEntry,        \* the configuration has no window for a battery
    PowerOnWindow,  \* per battery: its window after power-on
    InitialFiles,   \* configurations found on disk
    WriteFaults,    \* how an attribute write may go wrong
    MaxFaults       \* bound on the reads and writes that go wrong per transaction

Window == [start : Percents \cup {NoValue}, end : Percents]

\* validate_thresholds
Valid(w) == /\ w.end \in 1..100
            /\ w.start # NoValue => w.start < w.end

\* A window a battery can hold: with a start if it has that attribute.
WindowOf(b) == {w \in Window : w.start = NoValue <=> b \notin StartBatteries}

ASSUME PercentsAreNaturals == Percents \subseteq Nat /\ NoValue \notin Nat
ASSUME NoWindow == {Unreadable, NoEntry} \cap Window = {}
ASSUME BatteriesTyped ==
    /\ StartBatteries \subseteq Batteries
    /\ PowerOnWindow \in [Batteries -> Window]
    /\ \A b \in Batteries : PowerOnWindow[b] \in WindowOf(b) /\ Valid(PowerOnWindow[b])
    /\ InitialFiles \subseteq [Batteries -> Window \cup {NoEntry}]
ASSUME FaultsTyped == /\ WriteFaults \subseteq {"refused", "late", "altered"}
                      /\ MaxFaults \in Nat

VARIABLES
    dev,            \* per battery: the window its driver holds
    altered,        \* batteries whose driver stored a value it was not given
    file,           \* charge_thresholds of clevod.toml
    saved,          \* charge_thresholds of Service.baseline
    phase,          \* "down", "replaying", "serving"
    pending,        \* batteries whose saved window is still to be replayed
    pc, bat,        \* where the transaction is, and of which battery
    old, target,    \* its locals of these names
    ops,            \* the attribute writes write_window has still to do
    outcome,        \* what the transaction reported
    faults,         \* how many reads and writes of it went wrong
    suspect         \* batteries the daemon has not (or not successfully) set

device == <<dev, altered>>
locals == <<bat, old, target, ops>>
vars == <<device, file, saved, phase, pending, pc, locals, outcome, faults, suspect>>

-----------------------------------------------------------------------------
Op(attr, value) == [attr |-> attr, value |-> value]
Applied(w, op)  == IF op.attr = "start" THEN [w EXCEPT !.start = op.value]
                                        ELSE [w EXCEPT !.end = op.value]

StartOps(from, to) ==
    IF to.start \notin {NoValue, from.start} THEN <<Op("start", to.start)>> ELSE <<>>
EndOps(from, to) == IF to.end # from.end THEN <<Op("end", to.end)>> ELSE <<>>

\* Fault: always the start first.
StartFirst(from, to) == StartOps(from, to) \o EndOps(from, to)

\* The order that keeps start < end in between: the end first when the new
\* start is not below the old end.
WriteWindow(from, to) ==
    IF StartOps(from, to) # <<>> /\ to.start >= from.end
    THEN EndOps(from, to) \o StartOps(from, to)
    ELSE StartOps(from, to) \o EndOps(from, to)

\* read_battery: an attribute that cannot be read or parsed is left out.
Observe(b, seen) ==
    \/ seen = dev[b] /\ UNCHANGED faults
    \/ /\ faults < MaxFaults
       /\ faults' = faults + 1
       /\ \/ seen = Unreadable
          \/ b \in StartBatteries /\ seen = [dev[b] EXCEPT !.start = NoValue]

Observations(b) ==
    {dev[b], Unreadable, [dev[b] EXCEPT !.start = NoValue]}

-----------------------------------------------------------------------------
Init ==
    /\ dev = PowerOnWindow /\ altered = {}
    /\ file \in InitialFiles
    /\ saved = [b \in Batteries |-> NoEntry]
    /\ phase = "down"
    /\ pending = {}
    /\ pc = "idle"
    /\ bat \in Batteries
    /\ old = PowerOnWindow[bat] /\ target = PowerOnWindow[bat]
    /\ ops = <<>>
    /\ outcome = "none"
    /\ faults = 0
    /\ suspect = Batteries

\* The configuration is loaded; its windows are replayed unless it says
\* apply_on_start = false.
Load ==
    /\ phase = "down"
    /\ saved' = file
    /\ phase' = "replaying"
    /\ \/ pending' = {b \in Batteries : file[b] # NoEntry}
       \/ pending' = {}
    /\ suspect' = Batteries
    /\ UNCHANGED <<device, file, pc, locals, outcome, faults>>

Serve ==
    /\ phase = "replaying" /\ pc = "idle" /\ pending = {}
    /\ phase' = "serving"
    /\ UNCHANGED <<device, file, saved, pending, pc, locals, outcome, faults, suspect>>

-----------------------------------------------------------------------------
(* One transaction of set_charge_window.                                     *)

\* What is written: the requested window, with the present start if none is.
Completed(req, seen) ==
    [start |-> IF req.start = NoValue THEN seen.start ELSE req.start,
     end |-> req.end]

\* Fault: a start is accepted for a battery that has none.
AcceptedAnyStart(b, req, seen) ==
    /\ Valid(req)
    /\ seen # Unreadable
    /\ b \in StartBatteries => seen.start # NoValue
    /\ Valid(Completed(req, seen))

\* set_thresholds_using goes on to write.
Accepted(b, req, seen) ==
    /\ Valid(req)
    /\ req.start # NoValue => b \in StartBatteries
    /\ seen # Unreadable
    /\ b \in StartBatteries => seen.start # NoValue
    /\ Valid(Completed(req, seen))

\* A transaction starts with a count of faults of its own; an entry it refuses
\* ends there.
Begin(b, req) ==
    /\ pc = "idle"
    /\ \E seen \in Observations(b) :
        /\ \/ seen = dev[b] /\ faults' = 0
           \/ seen # dev[b] /\ MaxFaults > 0 /\ faults' = 1
        /\ IF ~Accepted(b, req, seen)
           THEN /\ outcome' = "error"
                /\ UNCHANGED <<pc, locals>>
           ELSE /\ bat' = b
                /\ old' = seen
                /\ target' = Completed(req, seen)
                /\ ops' = WriteWindow(seen, target')
                /\ pc' = IF target' = seen THEN "record" ELSE "write"
                /\ outcome' = "none"
    /\ UNCHANGED <<device, file, saved, phase, suspect>>

\* SetChargeThresholds.
Request(b, req) ==
    /\ phase = "serving"
    /\ Begin(b, req)
    /\ UNCHANGED pending

Replay(b) ==
    /\ phase = "replaying" /\ b \in pending
    /\ Begin(b, saved[b])
    /\ pending' = pending \ {b}

\* The transaction reports failure.
End(result) ==
    /\ outcome' = result
    /\ pc' = "idle"

(* The next attribute write of write_window, on the way there or back.  A    *)
(* refused write changes nothing; a late one takes effect and fails all the  *)
(* same; an altered one stores another value and reports success.            *)
WriteAttr ==
    /\ pc \in {"write", "restore"}
    /\ dev' = [dev EXCEPT ![bat] = Applied(@, Head(ops))]
    /\ ops' = Tail(ops)
    /\ pc' = IF Len(ops) > 1 THEN pc
             ELSE IF pc = "write" THEN "verify" ELSE "verify_restore"
    /\ UNCHANGED <<altered, file, saved, phase, pending, bat, old, target, outcome,
                   faults, suspect>>

WriteAltered ==
    /\ pc \in {"write", "restore"}
    /\ "altered" \in WriteFaults
    /\ faults < MaxFaults /\ faults' = faults + 1
    /\ \E v \in Percents :
        dev' = [dev EXCEPT ![bat] = Applied(@, [Head(ops) EXCEPT !.value = v])]
    /\ altered' = altered \cup {bat}
    /\ ops' = Tail(ops)
    /\ pc' = IF Len(ops) > 1 THEN pc
             ELSE IF pc = "write" THEN "verify" ELSE "verify_restore"
    /\ UNCHANGED <<file, saved, phase, pending, bat, old, target, outcome, suspect>>

WriteFails ==
    /\ pc \in {"write", "restore"}
    /\ faults < MaxFaults /\ faults' = faults + 1
    /\ \/ "refused" \in WriteFaults /\ UNCHANGED dev
       \/ /\ "late" \in WriteFaults
          /\ dev' = [dev EXCEPT ![bat] = Applied(@, Head(ops))]
    /\ ops' = <<>>
    /\ IF pc = "write"
       THEN pc' = "read_current" /\ UNCHANGED <<outcome, suspect>>
       ELSE End("restore_failed") /\ suspect' = suspect \cup {bat}
    /\ UNCHANGED <<altered, file, saved, phase, pending, bat, old, target>>

\* Fault: no readback.
VerifyNothing ==
    /\ pc = "verify"
    /\ pc' = "record"
    /\ UNCHANGED <<device, file, saved, phase, pending, locals, outcome, faults, suspect>>

Verify ==
    /\ pc = "verify"
    /\ \E seen \in Observations(bat) :
        /\ Observe(bat, seen)
        /\ pc' = IF seen = target THEN "record" ELSE "read_current"
    /\ UNCHANGED <<device, file, saved, phase, pending, locals, outcome, suspect>>

\* Faults: the window is left as it is; the arguments of write_window are swapped.
ReadNothing ==
    /\ pc = "read_current"
    /\ End("error")
    /\ UNCHANGED <<device, file, saved, phase, pending, locals, faults, suspect>>

ReadSwapped ==
    /\ pc = "read_current"
    /\ ops' = WriteWindow(old, dev[bat])
    /\ pc' = IF ops' = <<>> THEN "verify_restore" ELSE "restore"
    /\ UNCHANGED <<device, file, saved, phase, pending, bat, old, target, outcome,
                   faults, suspect>>

\* The way back starts from the window as it is now.
ReadCurrent ==
    /\ pc = "read_current"
    /\ \E seen \in Observations(bat) :
        /\ Observe(bat, seen)
        /\ IF seen = Unreadable
           THEN /\ End("restore_failed")
                /\ suspect' = suspect \cup {bat}
                /\ UNCHANGED ops
           ELSE /\ ops' = WriteWindow(seen, old)
                /\ pc' = IF ops' = <<>> THEN "verify_restore" ELSE "restore"
                /\ UNCHANGED <<outcome, suspect>>
    /\ UNCHANGED <<device, file, saved, phase, pending, bat, old, target>>

VerifyRestore ==
    /\ pc = "verify_restore"
    /\ \E seen \in Observations(bat) :
        /\ Observe(bat, seen)
        /\ IF seen = old
           THEN End("restored") /\ UNCHANGED suspect
           ELSE End("restore_failed") /\ suspect' = suspect \cup {bat}
    /\ UNCHANGED <<device, file, saved, phase, pending, locals>>

\* Only a window that was read back is remembered.
Record ==
    /\ pc = "record"
    /\ saved' = [saved EXCEPT ![bat] = target]
    /\ suspect' = suspect \ {bat}
    /\ IF phase = "replaying" THEN End("ok") ELSE pc' = "persist" /\ UNCHANGED outcome
    /\ UNCHANGED <<device, file, phase, pending, locals, faults>>

Persist ==
    /\ pc = "persist"
    /\ file' = saved
    /\ End("ok")
    /\ UNCHANGED <<device, saved, phase, pending, locals, faults, suspect>>

-----------------------------------------------------------------------------
Forget ==
    /\ phase' = "down"
    /\ saved' = [b \in Batteries |-> NoEntry]
    /\ pending' = {}
    /\ pc' = "idle"
    /\ ops' = <<>>
    /\ outcome' = "none"
    /\ faults' = 0
    /\ suspect' = Batteries
    /\ UNCHANGED <<file, bat, old, target>>

Killed == phase # "down" /\ Forget /\ UNCHANGED device

PowerLoss == Forget /\ dev' = PowerOnWindow /\ altered' = {}

Transaction ==
    \/ WriteAttr \/ WriteAltered \/ WriteFails \/ Verify
    \/ ReadCurrent \/ VerifyRestore \/ Record \/ Persist

Next ==
    \/ Load \/ Serve
    \/ \E b \in Batteries : Replay(b)
    \/ \E b \in Batteries, req \in Window : Request(b, req)
    \/ Transaction
    \/ Killed \/ PowerLoss

Spec == Init /\ [][Next]_vars

-----------------------------------------------------------------------------
(* Properties.                                                               *)

TypeOK ==
    /\ dev \in [Batteries -> Window]
    /\ \A b \in Batteries : dev[b] \in WindowOf(b)
    /\ altered \subseteq Batteries
    /\ file \in [Batteries -> Window \cup {NoEntry}]
    /\ saved \in [Batteries -> Window \cup {NoEntry}]
    /\ phase \in {"down", "replaying", "serving"}
    /\ pending \subseteq Batteries
    /\ pc \in {"idle", "write", "verify", "read_current", "restore",
               "verify_restore", "record", "persist"}
    /\ bat \in Batteries
    /\ {old, target} \subseteq WindowOf(bat)
    /\ ops \in Seq([attr : {"start", "end"}, value : Percents])
    /\ outcome \in {"none", "ok", "error", "restored", "restore_failed"}
    /\ faults \in 0..MaxFaults
    /\ suspect \subseteq Batteries

(* A driver that stores what it is given never holds a start that is not     *)
(* below the end: the order of write_window keeps every window in between    *)
(* valid, on the way there, on the way back from wherever a failure or a     *)
(* crash left it, and whatever could not be read.                            *)
WindowStaysValid == \A b \in Batteries \ altered : Valid(dev[b])

(* A transaction does not lie: "ok" means the driver holds what was asked    *)
(* for, "previous thresholds restored" that it holds what it held before.    *)
OutcomeHonest ==
    pc = "idle" =>
        /\ outcome = "ok" => dev[bat] = target
        /\ outcome = "restored" => dev[bat] = old

(* One read or write that goes wrong, in whatever way and place, is undone.  *)
OneFaultSurvived == outcome = "restore_failed" => faults > 1

Matches(entry, w) == /\ entry.end = w.end
                     /\ entry.start # NoValue => entry.start = w.start

(* Between transactions a window the daemon has set, or replayed, is the one *)
(* the driver holds, also after later requests that failed.                  *)
SavedIsDevice ==
    pc = "idle" => \A b \in Batteries \ suspect :
        saved[b] # NoEntry /\ Matches(saved[b], dev[b])
=============================================================================
