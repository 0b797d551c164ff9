---------------------------- MODULE FlexiCharger ----------------------------
(***************************************************************************)
(* The kernel side of native charge thresholds.  A write to the sysfs file   *)
(* flexicharger sets enable state, start and end in one firmware command,    *)
(* under charge_lock: read the window, write the new one, read it back, and  *)
(* write the old one back when that does not confirm the new one.            *)
(***************************************************************************)
EXTENDS Naturals

CONSTANTS
    Clients,        \* processes that write the file
    Nobody,         \* charge_lock is free
    NoRequest,      \* a client asks for nothing
    Percents, StartValues, EndValues,   \* what the firmware offers
    Requests,       \* the windows clients write
    CommandFaults,  \* how a firmware write may go wrong
    MaxFaults       \* per client: bound on the commands of a call that go wrong

Windows == [enabled : BOOLEAN, start : Percents, end : Percents]

ASSUME ClientsTyped == Nobody \notin Clients /\ NoRequest \notin Windows
\* A list with a value above 100 makes the whole control unsupported.
ASSUME ValuesTyped == /\ Percents \subseteq 0..255
                      /\ StartValues \cup EndValues \subseteq Percents \cap 0..100
ASSUME RequestsTyped == Requests \subseteq Windows
ASSUME CommandFaultsTyped ==
    /\ CommandFaults \subseteq {"refused", "late", "ignored", "altered"}
    /\ MaxFaults \in [Clients -> Nat]

VARIABLES
    ec,             \* the window the firmware holds
    owner,          \* who holds charge_lock
    pc, req, reply, \* per client: where its call is, its argument, its result
    old,            \* clevo_cc_charge_set's local, of the owner
    faults          \* per client: how many commands of its call went wrong

kvars == <<ec, owner, pc, req, reply, old, faults>>

-----------------------------------------------------------------------------
Offered(w) == w.start \in StartValues /\ w.end \in EndValues

\* clevo_cc_charge_read takes the reply for a window.
Readable(w) == w.start < w.end /\ Offered(w)

\* What clevo_cc_charge_set and the firmware's lists allow.
Allowed(w) == w.start < w.end /\ w.end <= 100 /\ Offered(w)

NoFault  == UNCHANGED faults
Fault(c) == /\ faults[c] < MaxFaults[c]
            /\ faults' = [faults EXCEPT ![c] = @ + 1]

\* The call ends and the lock, if held, is released.
Return(c, result) ==
    /\ pc' = [pc EXCEPT ![c] = "idle"]
    /\ reply' = [reply EXCEPT ![c] = result]
    /\ owner' = Nobody

Goto(c, label) ==
    /\ pc' = [pc EXCEPT ![c] = label]
    /\ UNCHANGED <<reply, owner>>

-----------------------------------------------------------------------------
Init ==
    /\ ec \in {w \in Windows : Readable(w)}
    /\ owner = Nobody
    /\ pc = [c \in Clients |-> "idle"]
    /\ req \in [Clients -> {ec}]
    /\ reply = [c \in Clients |-> "none"]
    /\ old = ec
    /\ faults = [c \in Clients |-> 0]

\* Fault: the end may be missing.
EnterUncounted(c, w) ==
    /\ pc[c] = "idle"
    /\ pc' = [pc EXCEPT ![c] = "locking"]
    /\ req' = [req EXCEPT ![c] = [w EXCEPT !.end = 0]]
    /\ reply' = [reply EXCEPT ![c] = "none"]
    /\ UNCHANGED <<ec, owner, old>>

\* flexicharger_store has parsed its argument.
Enter(c, w) ==
    /\ pc[c] = "idle"
    /\ pc' = [pc EXCEPT ![c] = "locking"]
    /\ req' = [req EXCEPT ![c] = w]
    /\ reply' = [reply EXCEPT ![c] = "none"]
    /\ UNCHANGED <<ec, owner, old>>

Call(c, w) == Enter(c, w) /\ faults' = [faults EXCEPT ![c] = 0]

\* Refused, or in force already: the lock is taken and released again.
BeginRefused(c) ==
    /\ pc[c] = "locking" /\ owner = Nobody
    /\ IF Allowed(req[c]) /\ Readable(ec)
       THEN Fault(c) /\ Return(c, "error")
       ELSE NoFault /\ Return(c, "error")
    /\ UNCHANGED <<ec, req, old>>

BeginMatching(c) ==
    /\ pc[c] = "locking" /\ owner = Nobody
    /\ Allowed(req[c]) /\ Readable(ec) /\ req[c] = ec
    /\ NoFault /\ Return(c, "ok")
    /\ UNCHANGED <<ec, req, old>>

\* Fault: the lock is not taken.
BeginUnlocked(c) ==
    /\ pc[c] = "locking"
    /\ Allowed(req[c]) /\ Readable(ec) /\ req[c] # ec
    /\ owner' = c
    /\ old' = ec
    /\ pc' = [pc EXCEPT ![c] = "write"]
    /\ UNCHANGED <<ec, req, reply, faults>>

Begin(c) ==
    /\ pc[c] = "locking" /\ owner = Nobody
    /\ Allowed(req[c]) /\ Readable(ec) /\ req[c] # ec
    /\ owner' = c
    /\ old' = ec
    /\ pc' = [pc EXCEPT ![c] = "write"]
    /\ UNCHANGED <<ec, req, reply, faults>>

(* A firmware write.  It may be refused; take effect and be reported as      *)
(* failed all the same (a short reply); be acknowledged and ignored; or be   *)
(* acknowledged and store another window.                                    *)
Acknowledged(c, w) ==
    \/ ec' = w /\ NoFault
    \/ Fault(c) /\ \/ "ignored" \in CommandFaults /\ UNCHANGED ec
                   \/ "altered" \in CommandFaults /\ ec' \in Windows

Failed(c, w) ==
    Fault(c) /\ \/ "refused" \in CommandFaults /\ UNCHANGED ec
                \/ "late" \in CommandFaults /\ ec' = w

Write(c) ==
    /\ pc[c] = "write"
    /\ \/ Acknowledged(c, req[c]) /\ Goto(c, "confirm")
       \/ Failed(c, req[c]) /\ Goto(c, "restore")
    /\ UNCHANGED <<req, old>>

\* Fault: the acknowledgement is believed.
ConfirmNothing(c) ==
    /\ pc[c] = "confirm"
    /\ NoFault /\ Return(c, "ok")
    /\ UNCHANGED <<ec, req, old>>

Confirm(c) ==
    /\ pc[c] = "confirm"
    /\ \/ NoFault /\ ec = req[c] /\ Return(c, "ok")
       \/ NoFault /\ ec # req[c] /\ Goto(c, "restore")
       \/ Fault(c) /\ Goto(c, "restore")
    /\ UNCHANGED <<ec, req, old>>

\* Fault: the new window is written again instead of the old one.
RestoreRequested(c) ==
    /\ pc[c] = "restore"
    /\ \/ Acknowledged(c, req[c]) /\ Goto(c, "confirm_restore")
       \/ Failed(c, req[c]) /\ Return(c, "broken")
    /\ UNCHANGED <<req, old>>

\* "broken": the call fails, and the kernel log says the restore failed too.
Restore(c) ==
    /\ pc[c] = "restore"
    /\ \/ Acknowledged(c, old) /\ Goto(c, "confirm_restore")
       \/ Failed(c, old) /\ Return(c, "broken")
    /\ UNCHANGED <<req, old>>

\* Fault: an early return past mutex_unlock.
ConfirmRestoreLocked(c) ==
    /\ pc[c] = "confirm_restore"
    /\ \/ NoFault /\ ec = old /\ Return(c, "error")
       \/ /\ NoFault /\ ec # old
          /\ pc' = [pc EXCEPT ![c] = "idle"]
          /\ reply' = [reply EXCEPT ![c] = "broken"]
          /\ UNCHANGED owner
       \/ Fault(c) /\ Return(c, "broken")
    /\ UNCHANGED <<ec, req, old>>

ConfirmRestore(c) ==
    /\ pc[c] = "confirm_restore"
    /\ \/ NoFault /\ ec = old /\ Return(c, "error")
       \/ NoFault /\ ec # old /\ Return(c, "broken")
       \/ Fault(c) /\ Return(c, "broken")
    /\ UNCHANGED <<ec, req, old>>

KernelStep(c) ==
    \/ BeginRefused(c) \/ BeginMatching(c) \/ Begin(c)
    \/ Write(c) \/ Confirm(c) \/ Restore(c) \/ ConfirmRestore(c)

Next == \E c \in Clients : KernelStep(c) \/ \E w \in Requests : Call(c, w)

Spec == Init /\ [][Next]_kvars

(* A system call goes on by itself; a mutex hands itself over to a waiter    *)
(* that has waited too long.                                                 *)
KernelFairness == \A c \in Clients : SF_kvars(KernelStep(c))

-----------------------------------------------------------------------------
(* Properties.                                                               *)

TypeOK ==
    /\ ec \in Windows /\ old \in Windows
    /\ owner \in Clients \cup {Nobody}
    /\ pc \in [Clients -> {"idle", "locking", "write", "confirm", "restore",
                           "confirm_restore"}]
    /\ req \in [Clients -> Windows]
    /\ reply \in [Clients -> {"none", "ok", "error", "broken"}]
    /\ faults \in [Clients -> Nat]

(* Overlapping calls are atomic and their results true: success means the    *)
(* window asked for, failure the one before, unless the log says that it     *)
(* could not be restored; whatever goes wrong, however often.  While a call  *)
(* holds the lock its window is not yet in force.                            *)
Kernel == INSTANCE AtomicCharge WITH
    window <- IF owner = Nobody THEN ec ELSE old,
    asked <- [c \in Clients |-> IF pc[c] = "idle" THEN NoRequest ELSE req[c]]
StoreIsAtomic == Kernel!Spec

(* One command that goes wrong, in whatever way and place, is undone.        *)
OneFaultRestored == \A c \in Clients : reply[c] = "broken" => faults[c] > 1

(* No path keeps the lock: every call returns.                               *)
StoreReturns == \A c \in Clients : pc[c] # "idle" ~> pc[c] = "idle"
=============================================================================
