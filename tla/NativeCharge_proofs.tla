------------------------ MODULE NativeCharge_proofs -------------------------
(***************************************************************************)
(* For any number of processes, windows and failing commands: writes to the  *)
(* flexicharger file are atomic and report the truth, and one fault per call *)
(* is recovered from.  And for the daemon's transactions over that file,     *)
(* with any number of other writers: what it reports is true, and one thing  *)
(* that goes wrong, a command or somebody else's write, is recovered from.   *)
(***************************************************************************)
EXTENDS NativeCharge, FiniteSetTheorems, TLAPS

InLock == {"write", "confirm", "restore", "confirm_restore"}

\* charge_lock is held by the process between lock and unlock, and no other.
LockInv ==
    /\ \A c \in Clients : pc[c] \in InLock => owner = c
    /\ owner # Nobody => owner \in Clients /\ pc[owner] \in InLock

(* What the owner can rely on while nothing, or one thing, has gone wrong.   *)
WindowInv ==
    \A c \in Clients :
        /\ pc[c] \in {"locking", "write"} => faults[c] = 0
        /\ pc[c] = "write" => ec = old
        /\ pc[c] = "confirm" /\ faults[c] = 0 => ec = req[c]
        /\ pc[c] = "restore" => faults[c] > 0
        /\ pc[c] = "confirm_restore" => faults[c] > 0
        /\ pc[c] = "confirm_restore" /\ faults[c] = 1 => ec = old
        /\ reply[c] = "broken" => faults[c] > 1

Safe == TypeOK /\ LockInv

-----------------------------------------------------------------------------
(* The lock is a lock: every step of a call keeps it one.                    *)
LEMMA SafeStep ==
    ASSUME Safe, NEW c \in Clients, KernelStep(c)
    PROVE  Safe'
<1> USE ClientsTyped, RequestsTyped, CommandFaultsTyped
<1> USE DEF Safe, TypeOK, LockInv, InLock
<1>1. CASE BeginRefused(c)
  BY <1>1 DEF BeginRefused, Fault, NoFault, Return
<1>2. CASE BeginMatching(c)
  BY <1>2 DEF BeginMatching, NoFault, Return
<1>3. CASE Begin(c)
  BY <1>3 DEF Begin
<1>4. CASE Write(c)
  BY <1>4 DEF Write, Acknowledged, Failed, Fault, NoFault, Goto
<1>5. CASE Confirm(c)
  BY <1>5 DEF Confirm, Fault, NoFault, Goto, Return
<1>6. CASE Restore(c)
  BY <1>6 DEF Restore, Acknowledged, Failed, Fault, NoFault, Goto, Return
<1>7. CASE ConfirmRestore(c)
  BY <1>7 DEF ConfirmRestore, Fault, NoFault, Return
<1> QED BY <1>1, <1>2, <1>3, <1>4, <1>5, <1>6, <1>7 DEF KernelStep

\* A call that begins takes no lock.
LEMMA SafeEnter ==
    ASSUME Safe, NEW c \in Clients, NEW w \in Windows, Enter(c, w),
           faults' \in [Clients -> Nat]
    PROVE  Safe'
BY ClientsTyped DEF Enter, Safe, TypeOK, LockInv, InLock

\* Types and the ownership of charge_lock hold throughout.
LEMMA Locked == Spec => []Safe
<1> USE ClientsTyped, RequestsTyped
<1>1. Init => Safe
  BY DEF Init, Safe, TypeOK, LockInv, InLock, Windows
<1>2. Safe /\ [Next]_kvars => Safe'
  <2> SUFFICES ASSUME Safe, [Next]_kvars PROVE Safe'
    OBVIOUS
  <2>1. ASSUME NEW c \in Clients, NEW w \in Requests, Call(c, w) PROVE Safe'
    <3>1. faults' \in [Clients -> Nat]
      BY <2>1 DEF Call, Safe, TypeOK
    <3> QED BY <2>1, <3>1, SafeEnter DEF Call
  <2>2. CASE UNCHANGED kvars
    BY <2>2 DEF kvars, Safe, TypeOK, LockInv
  <2> QED BY <2>1, <2>2, SafeStep DEF Next
<1> QED BY <1>1, <1>2, PTL DEF Spec

-----------------------------------------------------------------------------
(* The kernel implements AtomicCharge: the window changes at the end of a    *)
(* call that returns success, and only there, unless a restore fails.        *)
THEOREM StoreAtomic == Spec => StoreIsAtomic
<1> USE ClientsTyped, RequestsTyped, CommandFaultsTyped
<1> DEFINE W == IF owner = Nobody THEN ec ELSE old
           A == [c \in Clients |-> IF pc[c] = "idle" THEN NoRequest ELSE req[c]]
<1>1. Init => Kernel!Init
  BY DEF Init, Kernel!Init
<1>2. Safe /\ [Next]_kvars => [Kernel!Next]_(Kernel!vars)
  <2> SUFFICES ASSUME Safe, [Next]_kvars
               PROVE  Kernel!Next \/ UNCHANGED <<W, A, reply>>
    BY DEF Kernel!vars
  <2> USE DEF Safe, TypeOK, LockInv, InLock
  <2>a. ASSUME NEW c \in Clients, pc[c] # "idle", pc'[c] = "idle",
               pc' = [pc EXCEPT ![c] = "idle"], UNCHANGED req
        PROVE  A[c] = req[c] /\ A[c] # NoRequest /\ A' = [A EXCEPT ![c] = NoRequest]
    <3>1. A[c] = req[c] /\ req[c] \in Windows
      BY <2>a
    <3>2. A' = [d \in Clients |-> IF pc'[d] = "idle" THEN NoRequest ELSE req[d]]
      BY <2>a
    <3>3. [A EXCEPT ![c] = NoRequest]
             = [d \in Clients |-> IF d = c THEN NoRequest ELSE A[d]]
      OBVIOUS
    <3>4. \A d \in Clients : (IF pc'[d] = "idle" THEN NoRequest ELSE req[d])
                             = (IF d = c THEN NoRequest ELSE A[d])
      BY <2>a
    <3> QED BY <3>1, <3>2, <3>3, <3>4
  <2>b. ASSUME NEW c \in Clients, NEW label, pc[c] # "idle", label # "idle",
               pc' = [pc EXCEPT ![c] = label], UNCHANGED req
        PROVE  A' = A
    BY <2>b
  <2> HIDE DEF A
  <2>1. ASSUME NEW c \in Clients, NEW w \in Requests, Call(c, w)
        PROVE  Kernel!Ask(c, w)
    BY <2>1 DEF Call, Enter, Kernel!Ask, A
  <2>2. ASSUME NEW c \in Clients, BeginRefused(c) PROVE Kernel!Refuse(c)
    BY <2>2, <2>a DEF BeginRefused, Return, Kernel!Refuse, Kernel!Answer, A
  <2>3. ASSUME NEW c \in Clients, BeginMatching(c) PROVE Kernel!Change(c)
    BY <2>3, <2>a DEF BeginMatching, Return, Kernel!Change, Kernel!Answer, A
  <2>4. ASSUME NEW c \in Clients, Begin(c) PROVE UNCHANGED <<W, A, reply>>
    BY <2>4, <2>b DEF Begin
  <2>5. ASSUME NEW c \in Clients, Write(c) PROVE UNCHANGED <<W, A, reply>>
    BY <2>5, <2>b DEF Write, Goto
  <2>6. ASSUME NEW c \in Clients, Confirm(c)
        PROVE  Kernel!Change(c) \/ UNCHANGED <<W, A, reply>>
    BY <2>6, <2>a, <2>b DEF Confirm, Goto, Return, Kernel!Change, Kernel!Answer, A
  <2>7. ASSUME NEW c \in Clients, Restore(c)
        PROVE  Kernel!Break(c) \/ UNCHANGED <<W, A, reply>>
    BY <2>7, <2>a, <2>b DEF Restore, Goto, Failed, Return, Kernel!Break,
                            Kernel!Answer, A
  <2>8. ASSUME NEW c \in Clients, ConfirmRestore(c)
        PROVE  Kernel!Refuse(c) \/ Kernel!Break(c)
    BY <2>8, <2>a DEF ConfirmRestore, Return, Kernel!Refuse, Kernel!Break,
                      Kernel!Answer, A
  <2>9. CASE UNCHANGED kvars
    BY <2>9 DEF kvars, A
  <2> QED BY <2>1, <2>2, <2>3, <2>4, <2>5, <2>6, <2>7, <2>8, <2>9
          DEF Next, KernelStep, Kernel!Next
<1> QED BY <1>1, <1>2, Locked, PTL DEF Spec, StoreIsAtomic, Kernel!Spec

\* Type correctness, for every set of processes and of windows that may be asked for.
THEOREM KernelTypes == Spec => []TypeOK
<1>1. Safe => TypeOK
  BY DEF Safe
<1> QED BY <1>1, Locked, PTL

-----------------------------------------------------------------------------
(* One failing command per call is undone, whichever it is and whoever else  *)
(* calls.                                                                    *)
THEOREM OneFaultIsRestored == Spec => []OneFaultRestored
<1> USE ClientsTyped, RequestsTyped, CommandFaultsTyped
<1>1. Init => WindowInv
  BY DEF Init, WindowInv
<1>2. Safe /\ Safe' /\ WindowInv /\ [Next]_kvars => WindowInv'
  <2> SUFFICES ASSUME Safe, Safe', WindowInv, [Next]_kvars PROVE WindowInv'
    OBVIOUS
  <2> USE DEF Safe, TypeOK, LockInv, InLock, WindowInv
  <2>1. ASSUME NEW c \in Clients, NEW w \in Requests, Call(c, w) PROVE WindowInv'
    BY <2>1 DEF Call, Enter
  <2>2. ASSUME NEW c \in Clients, BeginRefused(c) PROVE WindowInv'
    BY <2>2 DEF BeginRefused, Fault, NoFault, Return
  <2>3. ASSUME NEW c \in Clients, BeginMatching(c) PROVE WindowInv'
    BY <2>3 DEF BeginMatching, NoFault, Return
  <2>4. ASSUME NEW c \in Clients, Begin(c) PROVE WindowInv'
    BY <2>4 DEF Begin
  <2>5. ASSUME NEW c \in Clients, Write(c) PROVE WindowInv'
    BY <2>5 DEF Write, Acknowledged, Failed, Fault, NoFault, Goto
  <2>6. ASSUME NEW c \in Clients, Confirm(c) PROVE WindowInv'
    BY <2>6 DEF Confirm, Fault, NoFault, Goto, Return
  <2>7. ASSUME NEW c \in Clients, Restore(c) PROVE WindowInv'
    BY <2>7 DEF Restore, Acknowledged, Failed, Fault, NoFault, Goto, Return
  <2>8. ASSUME NEW c \in Clients, ConfirmRestore(c) PROVE WindowInv'
    BY <2>8 DEF ConfirmRestore, Fault, NoFault, Return
  <2>9. CASE UNCHANGED kvars
    BY <2>9 DEF kvars
  <2> QED BY <2>1, <2>2, <2>3, <2>4, <2>5, <2>6, <2>7, <2>8, <2>9
          DEF Next, KernelStep
<1>3. WindowInv => OneFaultRestored
  BY DEF WindowInv, OneFaultRestored
<1> QED BY <1>1, <1>2, <1>3, Locked, PTL DEF Spec

-----------------------------------------------------------------------------
(* The daemon's transactions.                                                *)

Idle(c) == pc[c] = "idle"

(* The daemon is in a system call only where its transaction says so, and    *)
(* reports when the transaction is over.                                     *)
PlaceInv ==
    /\ dpc # "idle" => outcome = "none"
    /\ dpc \notin {"writing", "rolling", "orphan"} => Idle(Daemon)

\* meddled counts at least the calls of others that are still running.
MeddledInv ==
    /\ meddled = 0 => \A c \in Others : Idle(c)
    /\ meddled = 1 => \A c, d \in Others : Idle(c) \/ Idle(d) \/ c = d

HonestInv == NativeTypeOK /\ LockInv /\ PlaceInv /\ MeddledInv /\ ReportHonest

-----------------------------------------------------------------------------
(* Steps of the kernel, seen from the daemon.                                *)

\* Only the client that steps moves, and it does so from inside its call.
LEMMA KernelFrame ==
    ASSUME Safe, NEW c \in Clients, KernelStep(c)
    PROVE  /\ ~Idle(c)
           /\ \A d \in Clients \ {c} :
                  /\ pc'[d] = pc[d] /\ reply'[d] = reply[d] /\ faults'[d] = faults[d]
           /\ req' = req
           /\ faults'[c] \in {faults[c], faults[c] + 1}
BY DEF Idle, Safe, TypeOK, KernelStep, BeginRefused, BeginMatching, Begin, Write, Confirm,
       Restore, ConfirmRestore, Acknowledged, Failed, Fault, NoFault, Goto, Return

\* The number of others that are in a call.
LEMMA Overlapping ==
    ASSUME NEW n, n = Cardinality({c \in Others : pc[c] # "idle"})
    PROVE  /\ n \in Nat
           /\ n = 0 => \A c \in Others : Idle(c)
           /\ n = 1 => \A c, d \in Others : Idle(c) \/ Idle(d) \/ c = d
<1> DEFINE S == {c \in Others : pc[c] # "idle"}
<1>1. IsFiniteSet(S)
  BY ClientsFinite, FS_Subset DEF Others
<1>2. n \in Nat
  BY <1>1, FS_CardinalityType
<1>3. n = 0 => S = {}
  BY <1>1, FS_EmptySet
<1>4. n = 1 => \E x : S = {x}
  BY <1>1, FS_Singleton
<1> QED BY <1>2, <1>3, <1>4 DEF Idle

\* Types and the lock, in every step of the daemon's.
LEMMA NativeSafeStep ==
    ASSUME NativeTypeOK, LockInv, [NativeNext]_nvars
    PROVE  NativeTypeOK' /\ LockInv'
<1> USE DaemonIsClient
<1>s. Safe
  BY DEF NativeTypeOK, Safe
<1>w. target \in Windows /\ before \in Windows
  BY DEF NativeTypeOK
<1> SUFFICES NativeTypeOK' /\ Safe'
  BY DEF Safe
<1>1. ASSUME NEW r \in Requested, Ask(r)
      PROVE  NativeTypeOK' /\ Safe'
  <2>1. target' \in Windows /\ before' \in Windows
    BY <1>1, <1>s DEF Ask, Requested, Completed, Windows, Safe, TypeOK
  <2>2. Safe'
    BY <1>1, <1>s DEF kvars, Ask, Safe, TypeOK, LockInv
  <2>3. meddled' \in Nat
    BY <1>1, Overlapping DEF Ask
  <2> QED BY <1>1, <2>1, <2>2, <2>3 DEF Ask, End, NativeTypeOK, Safe
<1>2. ASSUME AskRefused
      PROVE  NativeTypeOK' /\ Safe'
  <2>2. Safe'
    BY <1>2, <1>s DEF kvars, AskRefused, Safe, TypeOK, LockInv
  <2>3. meddled' \in Nat
    BY <1>2, Overlapping DEF AskRefused
  <2> QED BY <1>2, <2>2, <2>3 DEF AskRefused, End, NativeTypeOK, Safe, dlocals
<1>3. CASE WriteFile
  <2>1. PICK w \in Windows : Enter(Daemon, w)
    BY <1>3, <1>w DEF WriteFile
  <2>2. Safe'
    BY <1>3, <1>s, <2>1, SafeEnter DEF WriteFile, Safe, TypeOK
  <2> QED BY <1>3, <2>2 DEF WriteFile, NativeTypeOK, Safe, dlocals
<1>4. CASE Written \/ Readback \/ Recheck \/ WrittenBack \/ CheckRollback \/ OrphanEnds
  <2>1. Safe'
    BY <1>4, <1>s DEF Written, Readback, Recheck, WrittenBack, CheckRollback, OrphanEnds,
              ReadWell, ReadBadly, Fault, kvars, Safe, TypeOK, LockInv
  <2> QED BY <1>4, <2>1 DEF Written, Readback, Recheck, WrittenBack, CheckRollback,
              OrphanEnds, End, NativeTypeOK, Safe, dlocals
<1>5. CASE Killed
  <2>1. Safe'
    BY <1>5, <1>s DEF Killed, kvars, Safe, TypeOK, LockInv
  <2> QED BY <1>5, <2>1 DEF Killed, NativeTypeOK, Safe, dlocals
<1>6. ASSUME NEW c \in Clients, KernelStep(c), UNCHANGED dvars
      PROVE  NativeTypeOK' /\ Safe'
  BY <1>6, <1>s, SafeStep DEF dvars, dlocals, NativeTypeOK, Safe
<1>7. ASSUME NEW c \in Others, NEW w \in Requests, Meddle(c, w)
      PROVE  NativeTypeOK' /\ Safe'
  <2>1. Safe'
    <3>1. faults' \in [Clients -> Nat]
      BY <1>7, <1>s DEF Meddle, Call, Others, Safe, TypeOK
    <3> QED BY <1>7, <3>1, <1>s, SafeEnter, RequestsTyped DEF Meddle, Call, Others
  <2> QED BY <1>7, <2>1 DEF Meddle, NativeTypeOK, Safe, dlocals
<1>8. CASE UNCHANGED nvars
  BY <1>8, <1>s DEF nvars, kvars, dvars, dlocals, NativeTypeOK, Safe, TypeOK, LockInv
<1> QED BY <1>1, <1>2, <1>3, <1>4, <1>5, <1>6, <1>7, <1>8 DEF NativeNext, DaemonStep

-----------------------------------------------------------------------------
(* Reports.                                                                  *)

\* The kernel may only be at work for the daemon, or for somebody counted.
LEMMA HonestStep ==
    ASSUME HonestInv, [NativeNext]_nvars
    PROVE  HonestInv'
<1> USE DaemonIsClient DEF Idle
<1>s. Safe
  BY DEF HonestInv, NativeTypeOK, Safe
<1>t. NativeTypeOK' /\ LockInv'
  BY NativeSafeStep DEF HonestInv
<1>p. pc \in [Clients -> {"idle", "locking", "write", "confirm", "restore", "confirm_restore"}]
  BY <1>s DEF Safe, TypeOK
<1> SUFFICES PlaceInv' /\ MeddledInv' /\ ReportHonest'
  BY <1>t DEF HonestInv
<1> USE DEF HonestInv, PlaceInv, MeddledInv, ReportHonest
<1>1. ASSUME NEW r \in Requested, Ask(r)
      PROVE  PlaceInv' /\ MeddledInv' /\ ReportHonest'
  <2>1. MeddledInv'
    BY <1>1, Overlapping DEF kvars, Ask
  <2> QED BY <1>1, <2>1 DEF kvars, Ask, End
<1>2. ASSUME AskRefused
      PROVE  PlaceInv' /\ MeddledInv' /\ ReportHonest'
  <2>1. MeddledInv'
    BY <1>2, Overlapping DEF kvars, AskRefused
  <2> QED BY <1>2, <2>1 DEF kvars, AskRefused, End, dlocals
<1>3. CASE WriteFile
  BY <1>3, <1>p DEF WriteFile, Enter, Others
<1>4. CASE Written
  BY <1>4 DEF Written, kvars, dlocals
<1>5. CASE Readback
  BY <1>5 DEF Readback, ReadWell, ReadBadly, Fault, End, kvars, dlocals
<1>6. CASE Recheck
  BY <1>6 DEF Recheck, ReadWell, ReadBadly, Fault, End, kvars, dlocals
<1>7. CASE WrittenBack
  BY <1>7 DEF WrittenBack, End, kvars, dlocals
<1>8. CASE CheckRollback
  BY <1>8 DEF CheckRollback, ReadWell, ReadBadly, Fault, End, kvars, dlocals
<1>9. CASE OrphanEnds \/ Killed
  BY <1>9 DEF OrphanEnds, Killed, kvars, dlocals
<1>10. ASSUME NEW c \in Clients, KernelStep(c), UNCHANGED dvars
       PROVE  PlaceInv' /\ MeddledInv' /\ ReportHonest'
  <2>1. c # Daemon => meddled # 0
    BY <1>10, <1>s, KernelFrame DEF Others
  <2>2. c = Daemon => dpc \in {"writing", "rolling", "orphan"}
    BY <1>10, <1>s, KernelFrame
  <2>3. \A d \in Clients : Idle(d) => Idle(d)'
    BY <1>10, <1>s, KernelFrame
  <2> QED BY <1>10, <2>1, <2>2, <2>3 DEF dvars, dlocals, Others
<1>11. ASSUME NEW c \in Others, NEW w \in Requests, Meddle(c, w)
       PROVE  PlaceInv' /\ MeddledInv' /\ ReportHonest'
  BY <1>11, <1>p DEF Meddle, Call, Enter, Others, dlocals, NativeTypeOK
<1>12. CASE UNCHANGED nvars
  BY <1>12 DEF nvars, kvars, dvars, dlocals
<1> QED BY <1>1, <1>2, <1>3, <1>4, <1>5, <1>6, <1>7, <1>8, <1>9, <1>10, <1>11, <1>12
        DEF NativeNext, DaemonStep

\* What the daemon believes of the window holds throughout.
LEMMA NativeHonest == NativeSpec => []HonestInv
<1>1. NativeInit => HonestInv
  <2> SUFFICES ASSUME NativeInit PROVE HonestInv
    OBVIOUS
  <2>1. TypeOK /\ LockInv
    BY ClientsTyped DEF NativeInit, Init, TypeOK, LockInv, InLock, Windows
  <2> QED BY <2>1, DaemonIsClient DEF NativeInit, Init, TypeOK, HonestInv, NativeTypeOK, PlaceInv,
              MeddledInv, ReportHonest, Idle, Others
<1> QED BY <1>1, HonestStep, PTL DEF NativeSpec

\* The daemon's locals and its count of meddlers stay well formed.
THEOREM NativeTypes == NativeSpec => []NativeTypeOK
<1>1. HonestInv => NativeTypeOK
  BY DEF HonestInv
<1> QED BY <1>1, NativeHonest, PTL

(* What the daemon reports is in force until somebody else writes the file,  *)
(* however many commands fail and wherever the process is killed.            *)
THEOREM ReportsAreHonest == NativeSpec => []ReportHonest
<1>1. HonestInv => ReportHonest
  BY DEF HonestInv
<1> QED BY <1>1, NativeHonest, PTL

-----------------------------------------------------------------------------
(* One trouble is survived.                                                  *)

\* The commands of the transaction that went wrong; none before its first write.
Mine  == IF dpc = "write" THEN 0 ELSE faults[Daemon]
Clear == Mine = 0
Quiet == meddled = 0                \* nobody else wrote
OneTrouble == Mine + meddled <= 1

\* Somebody else was writing, and has written.
Past == ~Quiet /\ \A c \in Others : pc[c] \in {"idle", "confirm"}

(* The calls of others go through, for their commands do not fail.           *)
OthersInv ==
    \A c \in Others :
        /\ faults[c] = 0
        /\ pc[c] \in {"idle", "locking", "write", "confirm"}
        /\ pc[c] = "write" => Readable(req[c])
        /\ pc[c] = "confirm" => ec = req[c]

(* The daemon's first system call: as long as nobody meddled it goes back    *)
(* where it started, and somebody who did has finished if the new window is  *)
(* not in force.                                                             *)
WritingInv ==
    dpc = "writing" =>
        /\ req[Daemon] = target
        /\ pc[Daemon] \in {"locking", "write"} => Clear /\ (Quiet => ec = before)
        /\ pc[Daemon] = "write" => old = ec
        /\ pc[Daemon] \in {"confirm", "restore", "confirm_restore"} /\ Quiet => old = before
        /\ pc[Daemon] = "confirm" /\ Clear => ec = target
        /\ pc[Daemon] \in {"restore", "confirm_restore"} => ~Clear
        /\ pc[Daemon] = "confirm_restore" => ec = before
        /\ Idle(Daemon) =>
               \/ reply[Daemon] = "ok" /\ (ec = target \/ (Clear /\ Past))
               \/ reply[Daemon] = "error" /\ ~Clear /\ ec = before

(* Its second one has nothing left to disturb it.                            *)
RollingInv ==
    dpc = "rolling" =>
        /\ req[Daemon] = before
        /\ pc[Daemon] \in {"idle", "locking", "write", "confirm"}
        /\ pc[Daemon] = "write" => old = ec
        /\ pc[Daemon] = "confirm" => ec = before
        /\ Idle(Daemon) => reply[Daemon] = "ok" /\ ec = before

(* A transaction in which at most one thing has gone wrong so far.           *)
TransactionInv ==
    dpc \notin {"idle", "orphan"} /\ OneTrouble =>
        /\ Allowed(before) /\ Allowed(target)
        /\ Clear \/ pc[Daemon] \notin {"confirm", "restore"} => Readable(ec)
        /\ dpc = "write" => Clear /\ (Quiet => ec = before)
        /\ WritingInv
        /\ dpc = "readback" => ec = target \/ (Clear /\ Past)
        /\ dpc \in {"recheck", "rollback", "rolling", "check_rollback"} /\ Clear => Past
        /\ dpc \in {"recheck", "rollback"} /\ ~Clear => ec \in {before, target}
        /\ RollingInv
        /\ dpc = "check_rollback" => ec = before

TroubleInv == HonestInv /\ OthersInv /\ TransactionInv /\ OneTroubleSurvived

CommandsOfOthersGoWell == \A c \in Others : MaxFaults[c] = 0

\* The window is in force when another's call is past its write: the lock
\* keeps everybody else out, and nothing sends it back.
LEMMA OthersStep ==
    ASSUME CommandsOfOthersGoWell, Safe, OthersInv, [NativeNext]_nvars
    PROVE  OthersInv'
<1> USE DaemonIsClient, CommandFaultsTyped
        DEF CommandsOfOthersGoWell, Safe, TypeOK, LockInv, InLock, OthersInv, Others
<1>1. ASSUME AskRefused \/ \E r \in Requested : Ask(r)
      PROVE  OthersInv'
  BY <1>1 DEF kvars, Ask, AskRefused
<1>2. CASE WriteFile
  BY <1>2 DEF WriteFile, Enter
<1>3. CASE Written \/ Readback \/ Recheck \/ WrittenBack \/ CheckRollback \/ OrphanEnds
           \/ Killed
  BY <1>3 DEF Written, Readback, Recheck, WrittenBack, CheckRollback, OrphanEnds, Killed,
              ReadWell, ReadBadly, Fault, kvars
<1>4. ASSUME NEW c \in Clients, KernelStep(c), UNCHANGED dvars
      PROVE  OthersInv'
  <2>1. CASE BeginRefused(c)
    BY <2>1 DEF BeginRefused, Fault, NoFault, Return
  <2>2. CASE BeginMatching(c)
    BY <2>2 DEF BeginMatching, NoFault, Return
  <2>3. CASE Begin(c)
    BY <2>3 DEF Begin, Allowed, Readable
  <2>4. CASE Write(c)
    BY <2>4 DEF Write, Acknowledged, Failed, Fault, NoFault, Goto
  <2>5. CASE Confirm(c)
    BY <2>5 DEF Confirm, Fault, NoFault, Goto, Return
  <2>6. CASE Restore(c)
    BY <2>6 DEF Restore, Acknowledged, Failed, Fault, NoFault, Goto, Return
  <2>7. CASE ConfirmRestore(c)
    BY <2>7 DEF ConfirmRestore, Fault, NoFault, Return
  <2> QED BY <1>4, <2>1, <2>2, <2>3, <2>4, <2>5, <2>6, <2>7 DEF KernelStep
<1>5. ASSUME NEW c \in Others, NEW w \in Requests, Meddle(c, w)
      PROVE  OthersInv'
  BY <1>5 DEF Meddle, Call, Enter
<1>6. CASE UNCHANGED nvars
  BY <1>6 DEF nvars, kvars
<1> QED BY <1>1, <1>2, <1>3, <1>4, <1>5, <1>6 DEF NativeNext, DaemonStep

\* Steps of the transaction itself.
LEMMA DaemonTransactionStep ==
    ASSUME TroubleInv, DaemonStep \/ Killed \/ AskRefused \/ \E r \in Requested : Ask(r)
    PROVE  TransactionInv' /\ OneTroubleSurvived'
<1> USE DaemonIsClient, ValuesTyped
<1>s. Safe
  BY DEF TroubleInv, HonestInv, NativeTypeOK, Safe
<1>t. meddled \in Nat /\ faults[Daemon] \in Nat /\ ec \in Windows
      /\ pc \in [Clients -> {"idle", "locking", "write", "confirm", "restore", "confirm_restore"}]
      /\ req \in [Clients -> Windows] /\ faults \in [Clients -> Nat]
      /\ reply \in [Clients -> {"none", "ok", "error", "broken"}]
  BY <1>s DEF TroubleInv, HonestInv, NativeTypeOK, Safe, TypeOK
<1> USE DEF TroubleInv, HonestInv, PlaceInv, MeddledInv, Idle, TransactionInv, WritingInv,
            RollingInv, OneTroubleSurvived, Clear, Mine, Quiet, OneTrouble, Past, Others
<1>1. ASSUME NEW r \in Requested, Ask(r)
      PROVE  TransactionInv' /\ OneTroubleSurvived'
  <2>1. Readable(ec) /\ Valid(Completed(r, ec)) /\ Offered(Completed(r, ec))
    BY <1>1 DEF Ask, Accepted
  <2>2. Allowed(ec)
    BY <2>1, <1>t DEF Readable, Allowed, Offered, Windows
  <2>3. Completed(r, ec).start # NoValue
    BY <1>t DEF Completed, Windows, Requested
  <2>4. Allowed(Completed(r, ec))
    BY <2>1, <2>3, <1>t DEF Valid, Allowed
  <2> QED BY <1>1, <1>t, <2>1, <2>2, <2>4 DEF kvars, Ask, End
<1>2. ASSUME AskRefused
      PROVE  TransactionInv' /\ OneTroubleSurvived'
  BY <1>2 DEF AskRefused, End
<1>3. CASE WriteFile
  BY <1>3, <1>t DEF WriteFile, Enter, dlocals
<1>4. CASE Written
  BY <1>4, <1>t DEF Written, kvars, dlocals
<1>5. CASE Readback
  BY <1>5, <1>t DEF Readback, ReadWell, ReadBadly, Fault, End, kvars, dlocals
<1>6. CASE Recheck
  BY <1>6, <1>t DEF Recheck, ReadWell, ReadBadly, Fault, End, kvars, dlocals
<1>7. CASE WrittenBack
  BY <1>7, <1>t DEF WrittenBack, End, kvars, dlocals
<1>8. CASE CheckRollback
  BY <1>8, <1>t DEF CheckRollback, ReadWell, ReadBadly, Fault, End, kvars, dlocals
<1>9. CASE OrphanEnds \/ Killed
  BY <1>9 DEF OrphanEnds, Killed, kvars, dlocals
<1> QED BY <1>1, <1>2, <1>3, <1>4, <1>5, <1>6, <1>7, <1>8, <1>9 DEF DaemonStep

\* Steps of the kernel, for the daemon or for another writer.
LEMMA KernelTransactionStep ==
    ASSUME TroubleInv, CommandsOfOthersGoWell,
           NEW c \in Clients, KernelStep(c), UNCHANGED dvars
    PROVE  TransactionInv' /\ OneTroubleSurvived'
<1> USE DaemonIsClient
<1>s. Safe
  BY DEF TroubleInv, HonestInv, NativeTypeOK, Safe
<1>t. meddled \in Nat /\ faults[Daemon] \in Nat /\ ec \in Windows
      /\ pc \in [Clients -> {"idle", "locking", "write", "confirm", "restore", "confirm_restore"}]
      /\ req \in [Clients -> Windows] /\ faults \in [Clients -> Nat]
      /\ reply \in [Clients -> {"none", "ok", "error", "broken"}]
  BY <1>s DEF TroubleInv, HonestInv, NativeTypeOK, Safe, TypeOK
<1>u. UNCHANGED <<dpc, before, target, outcome, meddled>>
  BY DEF dvars, dlocals
<1>f. /\ ~Idle(c) /\ req' = req
      /\ \A d \in Clients \ {c} :
             pc'[d] = pc[d] /\ reply'[d] = reply[d] /\ faults'[d] = faults[d]
      /\ faults'[c] \in {faults[c], faults[c] + 1}
  BY <1>s, KernelFrame
<1>1. OneTroubleSurvived'
  BY <1>t, <1>u, <1>f DEF TroubleInv, OneTroubleSurvived
<1>l. /\ \A d \in Clients :
              pc[d] \in {"write", "confirm", "restore", "confirm_restore"} => owner = d
      /\ pc[c] = "locking" => owner = Nobody
  BY <1>s, ClientsTyped DEF Safe, LockInv, InLock, Idle, KernelStep, BeginRefused, BeginMatching,
                            Begin,
        Write, Confirm, Restore, ConfirmRestore
<1> USE DEF TroubleInv, HonestInv, PlaceInv, MeddledInv, Idle, TransactionInv, WritingInv,
            RollingInv, Clear, Mine, Quiet, OneTrouble, Past, Others
<1>2. ASSUME c = Daemon PROVE TransactionInv'
  <2> SUFFICES ASSUME dpc \in {"writing", "rolling"}, OneTrouble'
               PROVE  TransactionInv'
    BY <1>2, <1>f, <1>u
  <2>0. OneTrouble
    BY <1>2, <1>t, <1>u, <1>f
  <2>1. CASE BeginRefused(c)
    BY <1>2, <1>t, <1>u, <1>f, <1>l, <2>0, <2>1 DEF BeginRefused, Fault, NoFault, Return
  <2>2. CASE BeginMatching(c)
    BY <1>2, <1>t, <1>u, <1>f, <1>l, <2>0, <2>2 DEF BeginMatching, NoFault, Return
  <2>3. CASE Begin(c)
    BY <1>2, <1>t, <1>u, <1>f, <1>l, <2>0, <2>3 DEF Begin
  <2>4. CASE Write(c)
    BY <1>2, <1>t, <1>u, <1>f, <1>l, <2>0, <2>4 DEF Write, Acknowledged, Failed, Fault, NoFault,
                                                    Goto,
       Allowed, Readable
  <2>5. CASE Confirm(c)
    BY <1>2, <1>t, <1>u, <1>f, <1>l, <2>0, <2>5 DEF Confirm, Fault, NoFault, Goto, Return,
       Allowed, Readable
  <2>6. CASE Restore(c)
    BY <1>2, <1>t, <1>u, <1>f, <1>l, <2>0, <2>6 DEF Restore, Acknowledged, Failed, Fault, NoFault,
                                                    Goto, Return,
       Allowed, Readable
  <2>7. CASE ConfirmRestore(c)
    BY <1>2, <1>t, <1>u, <1>f, <1>l, <2>0, <2>7 DEF ConfirmRestore, Fault, NoFault, Return,
       Allowed, Readable
  <2> QED BY <2>1, <2>2, <2>3, <2>4, <2>5, <2>6, <2>7 DEF KernelStep
<1>3. ASSUME c \in Others PROVE TransactionInv'
  <2>0. /\ faults'[Daemon] = faults[Daemon] /\ pc'[Daemon] = pc[Daemon]
        /\ reply'[Daemon] = reply[Daemon]
        /\ ~Quiet /\ (OneTrouble => meddled = 1 /\ Clear)
    BY <1>3, <1>f, <1>t
  <2>1. ec' # ec =>
            /\ pc[c] = "write" /\ pc'[c] = "confirm" /\ Readable(ec')
            /\ OneTrouble => Past'
    BY <1>3, <1>s, <1>t, <1>u, <1>f, <2>0, CommandFaultsTyped
       DEF KernelStep, BeginRefused, BeginMatching, Begin, Write, Confirm,
           Restore, ConfirmRestore, Acknowledged, Failed, Fault, NoFault, Goto, Return,
           OthersInv, CommandsOfOthersGoWell
  <2>2. Past => Past' /\ ec' = ec
    BY <1>3, <1>s, <1>t, <1>u, <1>f, <2>1
       DEF KernelStep, BeginRefused, BeginMatching, Begin, Write, Confirm,
           Restore, ConfirmRestore, Fault, NoFault, Goto, Return,
           OthersInv, CommandsOfOthersGoWell
  <2>3. ec' # ec => pc[Daemon] \in {"idle", "locking"}
    BY <1>3, <1>l, <1>t, <2>1
  <2>4. old' # old => pc[Daemon] \in {"idle", "locking"}
    BY <1>3, <1>l, <1>t, ClientsTyped
       DEF KernelStep, BeginRefused, BeginMatching, Begin, Write, Confirm, Restore, ConfirmRestore
  <2> SUFFICES ASSUME dpc \notin {"idle", "orphan"}, OneTrouble PROVE TransactionInv'
    BY <1>u, <2>0
  <2>5. WritingInv'
    BY <1>f, <1>u, <2>0, <2>1, <2>2, <2>3, <2>4
  <2>6. RollingInv'
    BY <1>f, <1>u, <2>0, <2>1, <2>2, <2>3, <2>4
  <2> QED BY <1>u, <2>0, <2>1, <2>2, <2>3, <2>5, <2>6
<1> QED BY <1>1, <1>2, <1>3

\* Another call begins: one trouble more.
LEMMA MeddleTransactionStep ==
    ASSUME TroubleInv, NEW c \in Others, NEW w \in Requests, Meddle(c, w)
    PROVE  TransactionInv' /\ OneTroubleSurvived'
<1>t. meddled \in Nat /\ faults[Daemon] \in Nat /\ Daemon # c
      /\ faults'[Daemon] = faults[Daemon] /\ pc'[Daemon] = pc[Daemon]
      /\ reply'[Daemon] = reply[Daemon] /\ req'[Daemon] = req[Daemon]
      /\ UNCHANGED <<ec, old, dpc, before, target, outcome>> /\ meddled' = meddled + 1
  BY DaemonIsClient DEF TroubleInv, HonestInv, NativeTypeOK, TypeOK, Others, Meddle, Call, Enter,
                        dlocals
<1> QED BY <1>t DEF TroubleInv, TransactionInv, WritingInv, RollingInv, OneTroubleSurvived, Clear, Mine,
           Quiet, OneTrouble, Past, Idle

(* The daemon reports that it could not restore the window only when two     *)
(* things went wrong: commands of its own transaction, or other writers who  *)
(* overlap it, in any combination; the commands of the others go well.       *)
THEOREM OneTroubleIsSurvived ==
    ASSUME CommandsOfOthersGoWell
    PROVE  NativeSpec => []OneTroubleSurvived
<1>1. NativeInit => OthersInv /\ TransactionInv /\ OneTroubleSurvived
  BY DaemonIsClient DEF NativeInit, Init, OthersInv, TransactionInv, OneTroubleSurvived, Others
<1>2. HonestInv /\ OthersInv /\ TransactionInv /\ OneTroubleSurvived /\ [NativeNext]_nvars
          => (OthersInv /\ TransactionInv /\ OneTroubleSurvived)'
  <2> SUFFICES ASSUME TroubleInv, [NativeNext]_nvars
               PROVE  OthersInv' /\ TransactionInv' /\ OneTroubleSurvived'
    BY DEF TroubleInv
  <2>1. OthersInv'
    BY OthersStep DEF TroubleInv, HonestInv, NativeTypeOK, Safe
  <2>2. CASE UNCHANGED nvars
    BY <2>1, <2>2 DEF nvars, kvars, dvars, dlocals, TroubleInv, TransactionInv, WritingInv,
                      RollingInv,
          OneTroubleSurvived, Clear, Mine, Quiet, OneTrouble, Past, Idle
  <2> QED BY <2>1, <2>2, DaemonTransactionStep, KernelTransactionStep, MeddleTransactionStep
          DEF NativeNext
<1> QED BY <1>1, <1>2, NativeHonest, PTL DEF NativeSpec
=============================================================================
