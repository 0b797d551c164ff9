-------------------------- MODULE Authorization --------------------------
(***************************************************************************)
(* Who may write: every writing D-Bus handler of clevod calls `require`     *)
(* first, which turns the sender of the message into a PolicyKit subject    *)
(* and asks for a decision.  Both answers are cached, the sender's subject  *)
(* in CcDaemon.subjects and the decision in PolicyKitAuthorizer.cache, and  *)
(* every lookup is an await, so calls of one sender overlap.  PolicyKit may *)
(* never answer (no agent): the daemon then gives up and lets root only.    *)
(*                                                                          *)
(* The subject is what the code keys its decisions on: a pid, the start time *)
(* found under /proc when it is looked up (0 if there is none), the uid the  *)
(* bus knows and the login session.  A process may exit while its call is on *)
(* the way and another one be given its pid.  One PolicyKit action is        *)
(* modelled; the cache is keyed by action, so two actions are two copies of  *)
(* `decisions`.  Messages without a sender (a peer-to-peer connection, which *)
(* only tests open) are left out.                                            *)
(***************************************************************************)
EXTENDS Naturals, FiniteSets

CONSTANTS
    Calls,          \* writing D-Bus calls that may be in flight at once
    Senders,        \* unique bus names; the bus never reuses one
    Processes,      \* processes of one boot
    ProcessOf,      \* the process that owns a bus name
    IdentityOf,     \* the kernel's pid, start and uid of each process
    Sessions,       \* what logind may answer, None included
    NoSubject,      \* Option::None
    MaxSubjects     \* senders remembered before the cache is cleared (64)

Pids == {IdentityOf[p].pid : p \in Processes}
Starts == {IdentityOf[p].start : p \in Processes}
Uids == {IdentityOf[p].uid : p \in Processes}

Subjects == [pid : Pids, start : Starts \cup {0}, uid : Uids, session : Sessions]

ASSUME ProcessesTyped ==
    /\ ProcessOf \in [Senders -> Processes]
    /\ \A p \in Processes : IdentityOf[p].start \in Nat \ {0}
ASSUME StartsDiffer ==
    \A p, q \in Processes :
        IdentityOf[p].pid = IdentityOf[q].pid /\ p # q => IdentityOf[p].start # IdentityOf[q].start
ASSUME SubjectsBounded == MaxSubjects \in Nat \ {0}
ASSUME NoSubjectDistinct == NoSubject \notin Subjects

VARIABLES
    alive, gone,    \* the processes that run, and those that have exited
    subjects,       \* CcDaemon.subjects
    decisions,      \* PolicyKitAuthorizer.cache: "unknown" when absent
    granted,        \* PolicyKit's own record: the processes it has authorized
    stage, sender, subject      \* per call: where it is, for whom

procVars == <<alive, gone>>
authVars == <<procVars, subjects, decisions, granted, stage, sender, subject>>

Remembered == {s \in Senders : subjects[s] # NoSubject}

Stages == {"idle", "lookup", "proc", "remember", "check", "asked", "run"}

AuthTypeOK ==
    /\ alive \subseteq Processes /\ gone \subseteq Processes \ alive
    /\ subjects \in [Senders -> Subjects \cup {NoSubject}]
    /\ decisions \in [Subjects -> {"unknown", "yes", "no"}]
    /\ granted \subseteq Processes
    /\ stage \in [Calls -> Stages]
    /\ sender \in [Calls -> Senders]
    /\ subject \in [Calls -> Subjects \cup {NoSubject}]
    /\ Cardinality(Remembered) <= MaxSubjects

AuthInit ==
    /\ alive = {} /\ gone = {}
    /\ subjects = [s \in Senders |-> NoSubject]
    /\ decisions = [s \in Subjects |-> "unknown"]
    /\ granted = {}
    /\ stage = [c \in Calls |-> "idle"]
    /\ \E s \in Senders : sender = [c \in Calls |-> s]
    /\ subject = [c \in Calls |-> NoSubject]

At(c, here, next) == /\ stage[c] = here
                     /\ stage' = [stage EXCEPT ![c] = next]

-----------------------------------------------------------------------------
(* The kernel: processes come and go, and one that goes leaves its pid to a  *)
(* later one.                                                                *)

ProcessStarts(p) ==
    /\ p \notin alive \cup gone
    /\ \A q \in alive : IdentityOf[q].pid # IdentityOf[p].pid
    /\ alive' = alive \cup {p}
    /\ UNCHANGED <<gone, subjects, decisions, granted, stage, sender, subject>>

\* A bound: some process is left to make the next call.
ProcessExits(p) ==
    /\ p \in alive /\ gone # Processes \ {p}
    /\ alive' = alive \ {p} /\ gone' = gone \cup {p}
    /\ UNCHANGED <<subjects, decisions, granted, stage, sender, subject>>

-----------------------------------------------------------------------------
(* require: from the sender to its subject.                                  *)

Caller(c) == ProcessOf[sender[c]]

\* A name is on the bus as long as its process runs.
Call(c) ==
    /\ At(c, "idle", "lookup")
    /\ \E s \in Senders : /\ ProcessOf[s] \in alive
                          /\ sender' = [sender EXCEPT ![c] = s]
    /\ UNCHANGED <<procVars, subjects, decisions, granted, subject>>

KnownSender(c) ==
    /\ At(c, "lookup", "check")
    /\ subjects[sender[c]] # NoSubject
    /\ subject' = [subject EXCEPT ![c] = subjects[sender[c]]]
    /\ UNCHANGED <<procVars, subjects, decisions, granted, sender>>

\* The bus daemon tells the uid and the pid of a sender that is connected.
AskBus(c) ==
    /\ At(c, "lookup", "proc")
    /\ subjects[sender[c]] = NoSubject
    /\ Caller(c) \in alive
    /\ UNCHANGED <<procVars, subjects, decisions, granted, sender, subject>>

\* The sender has left the bus, or the bus answers with an error.
SenderUnknown(c) ==
    /\ At(c, "lookup", "idle")
    /\ subjects[sender[c]] = NoSubject
    /\ UNCHANGED <<procVars, subjects, decisions, granted, sender, subject>>

\* process_start_time: of whoever has the pid by now; 0 if nobody has, or if
\* /proc cannot be read.
StartsSeen(pid) ==
    {0} \cup {IdentityOf[q].start : q \in {p \in alive : IdentityOf[p].pid = pid}}

ReadProc(c) ==
    /\ At(c, "proc", "remember")
    /\ \E start \in StartsSeen(IdentityOf[Caller(c)].pid), session \in Sessions :
         subject' = [subject EXCEPT ![c] =
                       [pid |-> IdentityOf[Caller(c)].pid, start |-> start,
                        uid |-> IdentityOf[Caller(c)].uid, session |-> session]]
    /\ UNCHANGED <<procVars, subjects, decisions, granted, sender>>

\* Fault: the cache of senders is never cleared.
NeverFull == FALSE

Full == Cardinality(Remembered) >= MaxSubjects

RememberSender(c) ==
    /\ At(c, "remember", "check")
    /\ subjects' = [s \in Senders |->
                      IF s = sender[c] THEN subject[c]
                      ELSE IF Full THEN NoSubject ELSE subjects[s]]
    /\ UNCHANGED <<procVars, decisions, granted, sender, subject>>

-----------------------------------------------------------------------------
(* PolicyKitAuthorizer::authorized.                                          *)

Decided(c, here, allowed) ==
    /\ At(c, here, IF allowed THEN "run" ELSE "idle")
    /\ subject' = IF allowed THEN subject ELSE [subject EXCEPT ![c] = NoSubject]

\* Fault: decisions are looked up by the pid alone.
KnownByPid(c) ==
    \E s \in Subjects :
      /\ stage[c] = "check" /\ decisions[s] # "unknown"
      /\ s.pid = subject[c].pid
      /\ Decided(c, "check", decisions[s] = "yes")
      /\ UNCHANGED <<procVars, subjects, decisions, granted, sender>>

KnownDecision(c) ==
    /\ stage[c] = "check" /\ decisions[subject[c]] # "unknown"
    /\ Decided(c, "check", decisions[subject[c]] = "yes")
    /\ UNCHANGED <<procVars, subjects, decisions, granted, sender>>

AskPolicyKit(c) ==
    /\ At(c, "check", "asked")
    /\ decisions[subject[c]] = "unknown"
    /\ UNCHANGED <<procVars, subjects, decisions, granted, sender, subject>>

\* Cached for the life of the daemon, whatever an overlapping check has stored.
Decide(c, allowed) ==
    /\ Decided(c, "asked", allowed)
    /\ decisions' = [decisions EXCEPT ![subject[c]] = IF allowed THEN "yes" ELSE "no"]
    /\ UNCHANGED <<procVars, subjects, sender>>

\* The process a subject names; none if the start time is not known.
Named(s) == {p \in Processes : IdentityOf[p].pid = s.pid /\ IdentityOf[p].start = s.start}

\* PolicyKit is given pid and start time, and rejects a start time of 0.
PolicyKitAnswers(c) ==
    /\ stage[c] = "asked" /\ subject[c].start # 0
    /\ \E authorized \in BOOLEAN :
         /\ Decide(c, authorized)
         /\ granted' = IF authorized THEN granted \cup Named(subject[c]) ELSE granted

\* Without PolicyKit, only root.
FallbackAllow(uid) == uid = 0

\* Fault: the check waits for PolicyKit however long it takes.
WaitForAnswer(c) == stage[c] = "asked" /\ UNCHANGED authVars

\* No answer within interaction_timeout, the bus or PolicyKit failed, or
\* PolicyKit rejected the subject.
GiveUp(c) == /\ stage[c] = "asked"
             /\ Decide(c, FallbackAllow(subject[c].uid))
             /\ UNCHANGED granted

\* The handler's own work, modelled elsewhere, and the reply.
Handle(c) ==
    /\ At(c, "run", "idle")
    /\ subject' = [subject EXCEPT ![c] = NoSubject]
    /\ UNCHANGED <<procVars, subjects, decisions, granted, sender>>

-----------------------------------------------------------------------------
DaemonStep(c) ==
    \/ KnownSender(c) \/ AskBus(c) \/ SenderUnknown(c) \/ ReadProc(c) \/ RememberSender(c)
    \/ KnownDecision(c) \/ AskPolicyKit(c) \/ GiveUp(c) \/ Handle(c)

AuthNext ==
    \/ \E c \in Calls : Call(c) \/ DaemonStep(c) \/ PolicyKitAnswers(c)
    \/ \E p \in Processes : ProcessStarts(p) \/ ProcessExits(p)

(* The daemon's runtime goes on with every call, and the timeout is its own   *)
(* timer.  Neither callers nor PolicyKit are obliged to do anything.          *)
AuthFairness == \A c \in Calls : WF_authVars(DaemonStep(c))

AuthSpec == AuthInit /\ [][AuthNext]_authVars /\ AuthFairness

-----------------------------------------------------------------------------
(* A handler runs only for root or for a process that PolicyKit has           *)
(* authorized, although it was decided on a cached subject of a cached sender *)
(* and the start time was read after the pid (require, dbus.rs:82;            *)
(* authorized, policy.rs).  A caller that still runs needs a grant of its     *)
(* own, whoever had its pid before; one that exited before it was handled may *)
(* have been taken for the process that has its pid now.                      *)
OnlyAuthorized ==
    \A c \in Calls : stage[c] = "run" =>
        \/ IdentityOf[Caller(c)].uid = 0
        \/ Caller(c) \in granted
        \/ /\ Caller(c) \in gone
           /\ \E p \in granted : IdentityOf[p].pid = IdentityOf[Caller(c)].pid

(* Every call is answered, with or without an authentication agent: the       *)
(* timeout turns a check that never ends into a denial (policy.rs:138).       *)
CallsAnswered == \A c \in Calls : stage[c] # "idle" ~> stage[c] = "idle"
=============================================================================
