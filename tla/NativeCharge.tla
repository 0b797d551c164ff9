---------------------------- MODULE NativeCharge ----------------------------
(***************************************************************************)
(* The daemon's side of native charge thresholds: Power::set_native_using    *)
(* reads the window from the flexicharger file, writes the new one, reads it *)
(* back; when that does not confirm it, it checks whether the old one is     *)
(* still there, and if not writes that one back and reads again.             *)
(*                                                                          *)
(* The daemon is one client of FlexiCharger; others may write the file too.  *)
(* Power.lock lets one transaction run at a time.  The process may be killed *)
(* at any point; a system call it is in still runs to its end.               *)
(***************************************************************************)
EXTENDS FlexiCharger, FiniteSets

CONSTANTS Daemon,       \* the client that is the daemon
          NoValue       \* Option::None

ASSUME DaemonIsClient == Daemon \in Clients /\ NoValue \notin Percents
ASSUME ClientsFinite == IsFiniteSet(Clients)

\* requested: the enable state and the start may be left out.
Requested == [enabled : BOOLEAN \cup {NoValue}, start : Percents \cup {NoValue},
              end : Percents]

VARIABLES
    dpc,                \* where the daemon's transaction is
    before, target,     \* its locals native.thresholds and target
    outcome,            \* what it reported
    meddled             \* how many calls of others began since it did, or overlap it

dlocals == <<before, target>>
dvars == <<dpc, dlocals, outcome, meddled>>
nvars == <<kvars, dvars>>

Others == Clients \ {Daemon}

-----------------------------------------------------------------------------
NativeInit ==
    /\ Init
    /\ dpc = "idle"
    /\ before = ec /\ target = ec
    /\ outcome = "none"
    /\ meddled = 0

\* validate_thresholds
Valid(w) == /\ w.end \in 1..100
            /\ w.start # NoValue => w.start < w.end

\* Fault: a request without an enable state does not enable.
CompletedAsAsked(r, w) ==
    [enabled |-> r.enabled,
     start   |-> IF r.start = NoValue THEN w.start ELSE r.start,
     end     |-> r.end]

Completed(r, w) ==
    [enabled |-> IF r.enabled = NoValue THEN TRUE ELSE r.enabled,
     start   |-> IF r.start = NoValue THEN w.start ELSE r.start,
     end     |-> r.end]

Accepted(r) == /\ Valid(r) /\ Readable(ec)
               /\ Valid(Completed(r, ec)) /\ Offered(Completed(r, ec))

\* Reading the file takes charge_lock, and may fail.
ReadFile == owner = Nobody
ReadWell == ReadFile /\ Readable(ec) /\ UNCHANGED kvars
ReadBadly ==
    /\ ReadFile
    /\ \/ ~Readable(ec) /\ UNCHANGED kvars
       \/ Fault(Daemon) /\ UNCHANGED <<ec, owner, pc, req, reply, old>>

End(result) == dpc' = "idle" /\ outcome' = result

-----------------------------------------------------------------------------
(* A transaction, from its first read.  Refusals end it there.               *)
AskRefused ==
    /\ dpc = "idle" /\ ReadFile
    /\ (\E r \in Requested : ~Accepted(r)) \/ MaxFaults[Daemon] > 0
    /\ End("error")
    /\ meddled' = Cardinality({c \in Others : pc[c] # "idle"})
    /\ UNCHANGED <<kvars, dlocals>>

Ask(r) ==
    /\ dpc = "idle" /\ ReadFile
    /\ Accepted(r)
    /\ before' = ec
    /\ target' = Completed(r, ec)
    /\ IF target' = ec THEN End("ok") ELSE dpc' = "write" /\ outcome' = "none"
    /\ meddled' = Cardinality({c \in Others : pc[c] # "idle"})
    /\ UNCHANGED kvars

\* Fault: what is written back is the requested window.
WriteFileTarget ==
    /\ dpc \in {"write", "rollback"}
    /\ Enter(Daemon, target)
    /\ faults' = IF dpc = "write" THEN [faults EXCEPT ![Daemon] = 0] ELSE faults
    /\ dpc' = IF dpc = "write" THEN "writing" ELSE "rolling"
    /\ UNCHANGED <<dlocals, outcome, meddled>>

\* The system calls that write the file, there and back; faults are counted
\* from the first one on.
WriteFile ==
    /\ dpc \in {"write", "rollback"}
    /\ Enter(Daemon, IF dpc = "write" THEN target ELSE before)
    /\ faults' = IF dpc = "write" THEN [faults EXCEPT ![Daemon] = 0] ELSE faults
    /\ dpc' = IF dpc = "write" THEN "writing" ELSE "rolling"
    /\ UNCHANGED <<dlocals, outcome, meddled>>

Written ==
    /\ dpc = "writing" /\ pc[Daemon] = "idle"
    /\ dpc' = IF reply[Daemon] = "ok" THEN "readback" ELSE "recheck"
    /\ UNCHANGED <<kvars, dlocals, outcome, meddled>>

Readback ==
    /\ dpc = "readback"
    /\ \/ ReadWell /\ target = ec /\ End("ok")
       \/ /\ (ReadWell /\ target # ec) \/ ReadBadly
          /\ dpc' = "recheck" /\ UNCHANGED outcome
    /\ UNCHANGED <<dlocals, meddled>>

\* Fault: a failed system call is taken to have changed nothing.
RecheckNothing ==
    /\ dpc = "recheck"
    /\ End("confirmed") /\ UNCHANGED <<kvars, dlocals, meddled>>

Recheck ==
    /\ dpc = "recheck"
    /\ \/ ReadWell /\ before = ec /\ End("confirmed")
       \/ /\ (ReadWell /\ before # ec) \/ ReadBadly
          /\ dpc' = "rollback" /\ UNCHANGED outcome
    /\ UNCHANGED <<dlocals, meddled>>

WrittenBack ==
    /\ dpc = "rolling" /\ pc[Daemon] = "idle"
    /\ IF reply[Daemon] = "ok"
       THEN dpc' = "check_rollback" /\ UNCHANGED outcome
       ELSE End("restore_failed")
    /\ UNCHANGED <<kvars, dlocals, meddled>>

CheckRollback ==
    /\ dpc = "check_rollback"
    /\ \/ ReadWell /\ before = ec /\ End("restored")
       \/ (ReadWell /\ before # ec) /\ End("restore_failed")
       \/ ReadBadly /\ End("restore_failed")
    /\ UNCHANGED <<dlocals, meddled>>

-----------------------------------------------------------------------------
Killed ==
    /\ dpc # "orphan"
    /\ dpc' = IF pc[Daemon] = "idle" THEN "idle" ELSE "orphan"
    /\ outcome' = "none"
    /\ UNCHANGED <<kvars, dlocals, meddled>>

OrphanEnds ==
    /\ dpc = "orphan" /\ pc[Daemon] = "idle"
    /\ dpc' = "idle"
    /\ UNCHANGED <<kvars, dlocals, outcome, meddled>>

DaemonStep ==
    \/ WriteFile \/ Written \/ Readback \/ Recheck
    \/ WrittenBack \/ CheckRollback \/ OrphanEnds

\* Others write the file; two calls are as good as many, and one that is
\* refused does nothing.
MaxMeddled == 2
Meddle(c, w) ==
    /\ Allowed(w) /\ Call(c, w)
    /\ meddled < MaxMeddled /\ meddled' = meddled + 1
    /\ UNCHANGED <<dpc, dlocals, outcome>>

NativeNext ==
    \/ AskRefused \/ \E r \in Requested : Ask(r)
    \/ DaemonStep
    \/ Killed
    \/ \E c \in Clients : KernelStep(c) /\ UNCHANGED dvars
    \/ \E c \in Others, w \in Requests : Meddle(c, w)

NativeSpec == NativeInit /\ [][NativeNext]_nvars

-----------------------------------------------------------------------------
(* Properties.                                                               *)

NativeTypeOK ==
    /\ TypeOK
    /\ dpc \in {"idle", "write", "writing", "readback", "recheck", "rollback",
                "rolling", "check_rollback", "orphan"}
    /\ {before, target} \subseteq Windows
    /\ outcome \in {"none", "ok", "error", "confirmed", "restored", "restore_failed"}
    /\ meddled \in Nat

(* Until somebody else writes the file the report is true and stays true,    *)
(* whatever goes wrong in the kernel and the firmware and however often:     *)
(* "ok" means the new window is in force, "confirmed" and "restored" that    *)
(* the old one is, enable state included.                                    *)
ReportHonest ==
    dpc = "idle" /\ meddled = 0 =>
        /\ outcome = "ok" => ec = target
        /\ outcome \in {"confirmed", "restored"} => ec = before

(* One thing that goes wrong, a failing command or another writer in the     *)
(* middle, is recovered from: the daemon reports that it could not restore   *)
(* the window only when there were two.                                      *)
OneTroubleSurvived ==
    outcome = "restore_failed" => faults[Daemon] + meddled > 1
=============================================================================
