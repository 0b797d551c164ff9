--------------------------- MODULE MCNativeCharge ---------------------------
(***************************************************************************)
(* Small instances of the charge window.  A behaviour is about the kernel    *)
(* alone, with two processes whose commands may go wrong, or about the       *)
(* daemon over the kernel, where only the daemon's commands go wrong.        *)
(* Percentages stand for the firmware's steps; a start and an end may be     *)
(* equal, as 60 and 60 may.                                                  *)
(***************************************************************************)
EXTENDS NativeCharge

CONSTANT Admin
TwoFaults == [c \in Clients |-> 2]

Unreadable == [enabled |-> TRUE, start |-> 1, end |-> 1]

\* All that the firmware offers, and one of each kind that is refused.
MCRequests == {w \in Windows : Allowed(w)} \cup
    {[enabled |-> TRUE, start |-> 2, end |-> 3], Unreadable}

\* What a behaviour about the daemon is about: three windows on offer, and one
\* that an altered command may store and nobody can read.
Off2 == [enabled |-> FALSE, start |-> 1, end |-> 2]
Off3 == [enabled |-> FALSE, start |-> 1, end |-> 3]
DaemonWindows == {w \in Windows : Allowed(w)} \ {Off3}

DaemonBound ==
    /\ ec' \in DaemonWindows \cup {Unreadable} /\ target' # Off3
    /\ \A c \in Others : faults'[c] = 0 /\ req'[c] \in DaemonWindows

VARIABLE about
mcvars == <<about, nvars>>

MCInit ==
    /\ about \in {"kernel", "daemon"} /\ NativeInit
    /\ IF about = "kernel" THEN ec = Off2 ELSE ec \in DaemonWindows

MCNext ==
    /\ UNCHANGED about
    /\ \/ about = "kernel" /\ Next /\ UNCHANGED dvars
       \/ about = "daemon" /\ NativeNext /\ DaemonBound

MCSpec == MCInit /\ [][MCNext]_mcvars /\ KernelFairness
=============================================================================
