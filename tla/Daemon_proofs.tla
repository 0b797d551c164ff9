--------------------------- MODULE Daemon_proofs ----------------------------
(***************************************************************************)
(* Proofs about two parts of the daemon.  Authorization: its type invariant, *)
(* and that a handler runs only for an authorized process, for any number of *)
(* calls, senders and processes, whoever is root and however large the cache *)
(* is.  PerfStatus: between two holders of perf_lock the driver, memory, the *)
(* property and the file agree, for any number of D-Bus calls, failures,     *)
(* restarts and changes from outside.                                        *)
(***************************************************************************)
EXTENDS MCDaemon, FiniteSetTheorems, TLAPS

-----------------------------------------------------------------------------
(* Authorization.                                                            *)

\* What a subject says of the process it stands for.  The start time may be that of
\* another process with the pid, once the first has exited.
SubjectTrue(s, p) ==
    /\ s.pid = IdentityOf[p].pid /\ s.uid = IdentityOf[p].uid
    /\ s.start = 0 \/ \E q \in Named(s) : q = p \/ p \in gone

\* Cached senders, and calls on their way, speak of the process that sent them.
SubjectsTrue ==
    /\ \A s \in Senders : subjects[s] # NoSubject => SubjectTrue(subjects[s], ProcessOf[s])
    /\ \A c \in Calls : stage[c] \in {"remember", "check", "asked", "run"} =>
         subject[c] \in Subjects /\ SubjectTrue(subject[c], Caller(c))

\* A "yes" about a subject is PolicyKit's, or the fallback's for root.
Justified(s, holders) == s.uid = 0 \/ Named(s) \cap holders # {}

DecisionsTrue == \A s \in Subjects : decisions[s] = "yes" => Justified(s, granted)

\* A pid belongs to one process at a time; callers have been started.
PidsTaken ==
    /\ \A p, q \in alive : IdentityOf[p].pid = IdentityOf[q].pid => p = q
    /\ \A c \in Calls : stage[c] # "idle" => Caller(c) \in alive \cup gone

AuthIInv ==
    /\ AuthTypeOK
    /\ IsFiniteSet(Remembered)
    /\ PidsTaken /\ SubjectsTrue /\ DecisionsTrue
    /\ OnlyAuthorized

\* The caches start empty.
LEMMA AuthInitially == AuthInit => AuthIInv
<1>1. SUFFICES ASSUME AuthInit PROVE AuthIInv
  OBVIOUS
<1>2. Remembered = {}
  BY <1>1 DEF AuthInit, Remembered
<1>3. IsFiniteSet(Remembered) /\ Cardinality(Remembered) = 0
  BY <1>2, FS_EmptySet
<1>4. AuthTypeOK
  BY <1>1, <1>3, SubjectsBounded DEF AuthInit, AuthTypeOK, Stages
<1>5. PidsTaken /\ SubjectsTrue /\ DecisionsTrue /\ OnlyAuthorized
  BY <1>1 DEF AuthInit, PidsTaken, SubjectsTrue, DecisionsTrue, OnlyAuthorized
<1> QED
  BY <1>3, <1>4, <1>5 DEF AuthIInv

\* Whatever leaves the cache of senders alone keeps what is said of its size.
LEMMA CacheKept ==
  ASSUME subjects' = subjects
  PROVE  Remembered' = Remembered
BY DEF Remembered

\* A full cache of senders is cleared before one is added.
LEMMA CacheBounded ==
  ASSUME AuthIInv, NEW c \in Calls, RememberSender(c)
  PROVE  IsFiniteSet(Remembered') /\ Cardinality(Remembered') <= MaxSubjects
<1> DEFINE S == sender[c]
<1>1. /\ IsFiniteSet(Remembered) /\ Cardinality(Remembered) \in Nat
      /\ subject[c] \in Subjects /\ S \in Senders
  BY FS_CardinalityType DEF AuthIInv, AuthTypeOK, SubjectsTrue, RememberSender, At
<1>2. CASE Full
  <2>1. Remembered' = {S}
    BY <1>1, <1>2, NoSubjectDistinct DEF Remembered, RememberSender
  <2>2. IsFiniteSet({S}) /\ Cardinality({S}) = 1
    BY FS_Singleton
  <2> QED BY <2>1, <2>2, SubjectsBounded
<1>3. CASE ~Full
  <2>1. Remembered' = Remembered \cup {S}
    BY <1>1, <1>3, NoSubjectDistinct DEF Remembered, RememberSender
  <2>2. /\ IsFiniteSet(Remembered \cup {S})
        /\ Cardinality(Remembered \cup {S}) = IF S \in Remembered THEN Cardinality(Remembered)
                                              ELSE Cardinality(Remembered) + 1
    BY <1>1, FS_AddElement
  <2> QED BY <1>1, <1>3, <2>1, <2>2, SubjectsBounded DEF Full
<1> QED BY <1>2, <1>3

\* A caller with a justified subject may be let in: a subject without a start time
\* names nobody, one with its own start time only the caller.
LEMMA MayRun ==
  ASSUME NEW p \in Processes, NEW s \in Subjects, SubjectTrue(s, p),
         NEW holders, Justified(s, holders)
  PROVE  \/ IdentityOf[p].uid = 0
         \/ p \in holders
         \/ p \in gone /\ \E q \in holders : IdentityOf[q].pid = IdentityOf[p].pid
<1>1. CASE s.uid = 0
  BY <1>1 DEF SubjectTrue
<1>2. CASE s.uid # 0
  <2>1. PICK q \in Processes : /\ IdentityOf[q].pid = s.pid /\ IdentityOf[q].start = s.start
                               /\ q \in holders
    BY <1>2 DEF Justified, Named
  <2>2. s.start # 0
    BY <2>1, ProcessesTyped
  <2>3. PICK r \in Processes : /\ IdentityOf[r].pid = s.pid /\ IdentityOf[r].start = s.start
                               /\ r = p \/ p \in gone
    BY <2>2 DEF SubjectTrue, Named
  <2>4. r = q
    BY <2>1, <2>3, StartsDiffer
  <2> QED BY <2>1, <2>3, <2>4 DEF SubjectTrue
<1> QED BY <1>1, <1>2

\* What leaves processes, caches and grants alone keeps what is said of them.
LEMMA CachesKept ==
  ASSUME AuthIInv, UNCHANGED <<procVars, subjects, decisions, granted>>
  PROVE  /\ Remembered' = Remembered /\ IsFiniteSet(Remembered')
         /\ Cardinality(Remembered') <= MaxSubjects
         /\ DecisionsTrue'
         /\ \A p, q \in alive' : IdentityOf[p].pid = IdentityOf[q].pid => p = q
         /\ \A s \in Senders : subjects'[s] # NoSubject =>
                                 SubjectTrue(subjects'[s], ProcessOf[s])
         /\ \A s, p : SubjectTrue(s, p)' <=> SubjectTrue(s, p)
<1>1. Remembered' = Remembered
  BY CacheKept
<1>2. \A s, p : SubjectTrue(s, p)' <=> SubjectTrue(s, p)
  BY DEF SubjectTrue, procVars
<1>3. \A s \in Senders : subjects'[s] # NoSubject => SubjectTrue(subjects'[s], ProcessOf[s])
  BY DEF AuthIInv, SubjectsTrue
<1>4. DecisionsTrue'
  BY DEF AuthIInv, DecisionsTrue, Justified
<1>5. \A p, q \in alive' : IdentityOf[p].pid = IdentityOf[q].pid => p = q
  BY DEF AuthIInv, PidsTaken, procVars
<1> QED BY <1>1, <1>2, <1>3, <1>4, <1>5 DEF AuthIInv, AuthTypeOK

\* Every step of a call, of PolicyKit and of the kernel keeps the invariant.
LEMMA AuthStep == AuthIInv /\ [AuthNext]_authVars => AuthIInv'
<1>1. SUFFICES ASSUME AuthIInv, [AuthNext]_authVars PROVE AuthIInv'
  OBVIOUS
<1> USE <1>1, ProcessesTyped, NoSubjectDistinct
<1>2. ASSUME NEW c \in Calls, Call(c) PROVE AuthIInv'
  <2>1. UNCHANGED <<procVars, subjects, decisions, granted>>
    BY <1>2 DEF Call
  <2> QED BY <1>2, <2>1, CachesKept DEF Call, At, AuthIInv, AuthTypeOK, Stages, procVars,
                        PidsTaken, SubjectsTrue, Caller, OnlyAuthorized
<1>3. ASSUME NEW c \in Calls, KnownSender(c) PROVE AuthIInv'
  <2>1. UNCHANGED <<procVars, subjects, decisions, granted>>
    BY <1>3 DEF KnownSender
  <2> QED BY <1>3, <2>1, CachesKept DEF KnownSender, At, AuthIInv, AuthTypeOK, Stages, procVars,
                        PidsTaken, SubjectsTrue, Caller, OnlyAuthorized
<1>4. ASSUME NEW c \in Calls, AskBus(c) \/ SenderUnknown(c) \/ AskPolicyKit(c) PROVE AuthIInv'
  <2>1. UNCHANGED <<procVars, subjects, decisions, granted>>
    BY <1>4 DEF AskBus, SenderUnknown, AskPolicyKit
  <2> QED BY <1>4, <2>1, CachesKept DEF AskBus, SenderUnknown, AskPolicyKit, At, AuthIInv,
                        AuthTypeOK, Stages, procVars, PidsTaken, SubjectsTrue, Caller,
                        OnlyAuthorized
<1>5. ASSUME NEW c \in Calls, ReadProc(c) PROVE AuthIInv'
  <2> DEFINE P == Caller(c)
  <2>1. UNCHANGED <<procVars, subjects, decisions, granted>>
    BY <1>5 DEF ReadProc
  <2>2. PICK start \in StartsSeen(IdentityOf[P].pid), session \in Sessions :
          subject' = [subject EXCEPT ![c] =
                        [pid |-> IdentityOf[P].pid, start |-> start,
                         uid |-> IdentityOf[P].uid, session |-> session]]
    BY <1>5 DEF ReadProc
  <2> DEFINE S == [pid |-> IdentityOf[P].pid, start |-> start,
                   uid |-> IdentityOf[P].uid, session |-> session]
  <2>3. P \in Processes /\ P \in alive \cup gone /\ alive \subseteq Processes
    BY <1>5 DEF Caller, AuthIInv, AuthTypeOK, PidsTaken, ReadProc, At
  <2>4. S \in Subjects
    BY <2>3 DEF StartsSeen, Subjects, Pids, Starts, Uids
  <2>5. SubjectTrue(S, P)
    <3>1. CASE start = 0
      BY <3>1 DEF SubjectTrue
    <3>2. CASE start # 0
      <4>1. PICK q \in alive : IdentityOf[q].pid = IdentityOf[P].pid /\ IdentityOf[q].start = start
        BY <3>2 DEF StartsSeen
      <4>2. q \in Named(S)
        BY <2>3, <4>1 DEF Named
      <4>3. q = P \/ P \in gone
        BY <2>3, <4>1 DEF AuthIInv, PidsTaken
      <4> QED BY <4>2, <4>3 DEF SubjectTrue
    <3> QED BY <3>1, <3>2
  <2>6. subject' = [subject EXCEPT ![c] = S] /\ stage' = [stage EXCEPT ![c] = "remember"]
        /\ sender' = sender /\ stage[c] = "proc"
    BY <1>5, <2>2 DEF ReadProc, At
  <2> HIDE DEF S
  <2>7. AuthTypeOK'
    BY <2>1, <2>4, <2>6, CachesKept DEF AuthIInv, AuthTypeOK, Stages, procVars
  <2>8. SubjectsTrue'
    BY <2>1, <2>4, <2>5, <2>6, CachesKept DEF AuthIInv, AuthTypeOK, SubjectsTrue, Caller
  <2>9. PidsTaken' /\ OnlyAuthorized'
    BY <2>1, <2>3, <2>6, CachesKept DEF AuthIInv, AuthTypeOK, PidsTaken, OnlyAuthorized, Caller, procVars
  <2> QED BY <2>1, <2>7, <2>8, <2>9, CachesKept DEF AuthIInv
<1>6. ASSUME NEW c \in Calls, RememberSender(c) PROVE AuthIInv'
  <2>1. IsFiniteSet(Remembered') /\ Cardinality(Remembered') <= MaxSubjects
    BY <1>6, CacheBounded
  <2>2. AuthTypeOK'
    BY <1>6, <2>1 DEF RememberSender, At, AuthIInv, AuthTypeOK, Stages, procVars
  <2>3. SubjectsTrue'
    <3>1. \A s, p : SubjectTrue(s, p)' <=> SubjectTrue(s, p)
      BY <1>6 DEF RememberSender, SubjectTrue, procVars
    <3>2. SubjectTrue(subject[c], ProcessOf[sender[c]]) /\ sender[c] \in Senders
      BY <1>6 DEF RememberSender, At, AuthIInv, AuthTypeOK, SubjectsTrue, Caller
    <3>3. \A s \in Senders : subjects'[s] # NoSubject => SubjectTrue(subjects'[s], ProcessOf[s])
      BY <1>6, <3>2 DEF RememberSender, AuthIInv, AuthTypeOK, SubjectsTrue
    <3>4. \A d \in Calls : stage'[d] \in {"remember", "check", "asked", "run"} =>
            subject[d] \in Subjects /\ SubjectTrue(subject[d], Caller(d))
      BY <1>6 DEF RememberSender, At, AuthIInv, AuthTypeOK, SubjectsTrue
    <3> QED BY <1>6, <3>1, <3>3, <3>4 DEF RememberSender, SubjectsTrue, Caller
  <2>4. DecisionsTrue' /\ OnlyAuthorized' /\ PidsTaken'
    BY <1>6 DEF RememberSender, At, AuthIInv, AuthTypeOK, DecisionsTrue, Justified,
                OnlyAuthorized, PidsTaken, Caller, procVars
  <2> QED BY <2>1, <2>2, <2>3, <2>4 DEF AuthIInv
<1>7. ASSUME NEW c \in Calls, NEW allowed \in BOOLEAN, NEW here \in {"check", "asked"},
             Decided(c, here, allowed), UNCHANGED <<procVars, subjects, sender>>,
             granted \subseteq granted', granted' \subseteq Processes,
             DecisionsTrue', decisions' \in [Subjects -> {"unknown", "yes", "no"}],
             allowed => Justified(subject[c], granted')
      PROVE  AuthIInv'
  <2>1. Remembered' = Remembered
    BY <1>7, CacheKept
  <2>2. subject[c] \in Subjects /\ SubjectTrue(subject[c], Caller(c)) /\ Caller(c) \in Processes
    BY <1>7 DEF Decided, At, AuthIInv, AuthTypeOK, SubjectsTrue, Caller
  <2>3. \A s, p : SubjectTrue(s, p)' <=> SubjectTrue(s, p)
    BY <1>7 DEF SubjectTrue, procVars
  <2>4. CASE allowed
    <3>1. stage' = [stage EXCEPT ![c] = "run"] /\ subject' = subject /\ stage[c] = here
      BY <1>7, <2>4 DEF Decided, At
    <3>2. \/ IdentityOf[Caller(c)].uid = 0
          \/ Caller(c) \in granted'
          \/ /\ Caller(c) \in gone
             /\ \E q \in granted' : IdentityOf[q].pid = IdentityOf[Caller(c)].pid
      BY <1>7, <2>2, <2>4, MayRun
    <3>3. OnlyAuthorized'
      BY <1>7, <3>1, <3>2 DEF AuthIInv, AuthTypeOK, OnlyAuthorized, Caller, procVars
    <3>4. AuthTypeOK' /\ SubjectsTrue' /\ PidsTaken'
      BY <1>7, <2>1, <2>2, <2>3, <3>1 DEF AuthIInv, AuthTypeOK, Stages, SubjectsTrue,
                        PidsTaken, Caller, procVars
    <3> QED BY <1>7, <2>1, <3>3, <3>4 DEF AuthIInv
  <2>5. CASE ~allowed
    <3>1. stage' = [stage EXCEPT ![c] = "idle"] /\ subject' = [subject EXCEPT ![c] = NoSubject]
      BY <1>7, <2>5 DEF Decided, At
    <3>2. OnlyAuthorized'
      BY <1>7, <3>1 DEF AuthIInv, AuthTypeOK, OnlyAuthorized, Caller, procVars
    <3>3. AuthTypeOK' /\ SubjectsTrue' /\ PidsTaken'
      BY <1>7, <2>1, <2>3, <3>1 DEF AuthIInv, AuthTypeOK, Stages, SubjectsTrue,
                        PidsTaken, Caller, procVars
    <3> QED BY <1>7, <2>1, <3>2, <3>3 DEF AuthIInv
  <2> QED BY <2>4, <2>5
<1>8. ASSUME NEW c \in Calls, KnownDecision(c) PROVE AuthIInv'
  <2>1. UNCHANGED <<procVars, subjects, decisions, granted, sender>> /\ stage[c] = "check"
    BY <1>8 DEF KnownDecision
  <2>2. Decided(c, "check", decisions[subject[c]] = "yes") /\ subject[c] \in Subjects
    BY <1>8 DEF KnownDecision, AuthIInv, SubjectsTrue
  <2>3. DecisionsTrue' /\ decisions' \in [Subjects -> {"unknown", "yes", "no"}]
    BY <2>1, CachesKept DEF AuthIInv, AuthTypeOK
  <2>4. (decisions[subject[c]] = "yes") => Justified(subject[c], granted')
    BY <2>1, <2>2 DEF AuthIInv, DecisionsTrue
  <2>5. (decisions[subject[c]] = "yes") \in BOOLEAN /\ granted' \subseteq Processes
    BY <2>1 DEF AuthIInv, AuthTypeOK
  <2> QED BY <1>7, <2>1, <2>2, <2>3, <2>4, <2>5
<1>9. ASSUME NEW c \in Calls, NEW allowed \in BOOLEAN, Decide(c, allowed),
             granted \subseteq granted', granted' \subseteq Processes,
             allowed => Justified(subject[c], granted')
      PROVE  AuthIInv'
  <2>1. Decided(c, "asked", allowed) /\ UNCHANGED <<procVars, subjects, sender>>
        /\ decisions' = [decisions EXCEPT ![subject[c]] = IF allowed THEN "yes" ELSE "no"]
    BY <1>9 DEF Decide
  <2>2. DecisionsTrue' /\ decisions' \in [Subjects -> {"unknown", "yes", "no"}]
    <3>1. decisions' \in [Subjects -> {"unknown", "yes", "no"}]
      BY <2>1 DEF AuthIInv, AuthTypeOK
    <3>2. ASSUME NEW s \in Subjects, decisions'[s] = "yes" PROVE Justified(s, granted')
      BY <1>9, <2>1, <3>2 DEF AuthIInv, AuthTypeOK, DecisionsTrue, Justified
    <3> QED BY <3>1, <3>2 DEF DecisionsTrue, Justified, Named
  <2> QED BY <1>7, <1>9, <2>1, <2>2
<1>10. ASSUME NEW c \in Calls, PolicyKitAnswers(c) PROVE AuthIInv'
  <2>1. PICK authorized \in BOOLEAN :
          /\ Decide(c, authorized)
          /\ granted' = IF authorized THEN granted \cup Named(subject[c]) ELSE granted
    BY <1>10 DEF PolicyKitAnswers
  <2>2. SubjectTrue(subject[c], Caller(c)) /\ subject[c].start # 0
    BY <1>10 DEF PolicyKitAnswers, AuthIInv, SubjectsTrue
  <2>3. Named(subject[c]) # {} /\ Named(subject[c]) \subseteq Processes
    BY <2>2 DEF SubjectTrue, Named
  <2>4. authorized => Justified(subject[c], granted')
    BY <2>1, <2>3 DEF Justified
  <2>5. granted \subseteq granted' /\ granted' \subseteq Processes
    BY <2>1, <2>3 DEF AuthIInv, AuthTypeOK
  <2> QED BY <1>9, <2>1, <2>4, <2>5
<1>11. ASSUME NEW c \in Calls, GiveUp(c) PROVE AuthIInv'
  <2>1. /\ Decide(c, FallbackAllow(subject[c].uid))
        /\ granted' = granted /\ FallbackAllow(subject[c].uid) \in BOOLEAN
    BY <1>11 DEF GiveUp, FallbackAllow
  <2>2. FallbackAllow(subject[c].uid) => Justified(subject[c], granted')
    BY DEF FallbackAllow, Justified
  <2> QED BY <1>9, <2>1, <2>2 DEF AuthIInv, AuthTypeOK
<1>12. ASSUME NEW c \in Calls, Handle(c) PROVE AuthIInv'
  <2>1. UNCHANGED <<procVars, subjects, decisions, granted>>
    BY <1>12 DEF Handle
  <2> QED BY <1>12, <2>1, CachesKept DEF Handle, At, AuthIInv, AuthTypeOK, Stages, procVars,
                        PidsTaken, SubjectsTrue, Caller, OnlyAuthorized
<1>13. ASSUME NEW p \in Processes, ProcessStarts(p) \/ ProcessExits(p) PROVE AuthIInv'
  <2>1. UNCHANGED <<subjects, decisions, granted, stage, sender, subject>>
        /\ gone \subseteq gone' /\ alive \cup gone \subseteq alive' \cup gone'
    BY <1>13 DEF ProcessStarts, ProcessExits
  <2>2. Remembered' = Remembered
    BY <2>1, CacheKept
  <2>3. AuthTypeOK' /\ PidsTaken'
    BY <1>13, <2>1, <2>2 DEF ProcessStarts, ProcessExits, AuthIInv, AuthTypeOK, PidsTaken, Caller
  <2>4. SubjectsTrue'
    <3>1. \A s, q : SubjectTrue(s, q) => SubjectTrue(s, q)'
      BY <2>1 DEF SubjectTrue
    <3> QED BY <2>1, <3>1 DEF AuthIInv, SubjectsTrue, Caller
  <2>5. DecisionsTrue' /\ OnlyAuthorized'
    BY <2>1 DEF AuthIInv, DecisionsTrue, Justified, OnlyAuthorized, Caller
  <2> QED BY <2>2, <2>3, <2>4, <2>5 DEF AuthIInv
<1>14. CASE UNCHANGED authVars
  <2>1. Remembered' = Remembered
    BY <1>14, CacheKept DEF authVars
  <2>2. \A s, q : SubjectTrue(s, q)' <=> SubjectTrue(s, q)
    BY <1>14 DEF SubjectTrue, authVars, procVars
  <2> QED BY <1>14, <2>1, <2>2 DEF authVars, procVars, AuthIInv, AuthTypeOK, PidsTaken,
                        SubjectsTrue, DecisionsTrue, Justified, OnlyAuthorized, Caller
<1> QED
  BY <1>2, <1>3, <1>4, <1>5, <1>6, <1>8, <1>10, <1>11, <1>12, <1>13, <1>14
     DEF AuthNext, DaemonStep

(* The type invariant, the bound on the cache of senders among it, for any    *)
(* number of calls, senders and remembered senders (require, dbus.rs:82).     *)
THEOREM AuthTypes == AuthSpec => []AuthTypeOK
<1>1. AuthIInv => AuthTypeOK
  BY DEF AuthIInv
<1> QED
  BY <1>1, AuthInitially, AuthStep, PTL DEF AuthSpec

(* A handler runs only for root, for a process PolicyKit has authorized, or   *)
(* for one that has exited and whose pid such a process has: however calls,   *)
(* exits, reused pids, lost start times, cache clearings, timeouts and late   *)
(* answers interleave (require, dbus.rs:82; authorized, policy.rs:165).       *)
THEOREM HandlersAuthorized == AuthSpec => []OnlyAuthorized
<1>1. AuthIInv => OnlyAuthorized
  BY DEF AuthIInv
<1> QED
  BY <1>1, AuthInitially, AuthStep, PTL DEF AuthSpec

-----------------------------------------------------------------------------
(* Performance modes and status polls.                                       *)

InMemory == IF last = Nil THEN loaded ELSE last

\* The steps that perf_lock covers.
Holding(t) ==
    \/ where[t] \in {"remember", "show", "adopt"}
    \/ where[t] \in {"save", "write"} /\ doing[t] # "other"

TasksPlaced ==
    /\ where \in [Tasks -> {"idle", "set", "remember", "show", "sync", "adopt", "status",
                            "apply", "save", "write"}]
    /\ doing \in [Tasks -> {"none", "set", "poll", "other"}]
    /\ DOMAIN wanted = Tasks /\ DOMAIN kept = Tasks
    /\ wanted = [t \in Tasks |-> wanted[t]] /\ kept = [t \in Tasks |-> kept[t]]
    /\ \A t \in Tasks :
         /\ where[t] \in {"set", "remember", "show"} => doing[t] = "set"
         /\ where[t] \in {"sync", "adopt", "status", "apply"} => doing[t] = "poll"
         /\ where[t] # "idle" => up = IF t = Booter THEN "replay" ELSE "serving"
    /\ where[Booter] \in {"idle", "set", "remember", "show"}

LocksHeld ==
    /\ \A t \in Tasks : Holding(t) => perfLock = t
    /\ perfLock # Nil => perfLock \in Tasks /\ Holding(perfLock)
    /\ \A t \in Tasks : where[t] = "write" => fileLock = t
    /\ fileLock # Nil => fileLock \in Tasks /\ where[fileLock] = "write"

MemoryFollows ==
    /\ up = "down" => drift
    /\ perfLock = Nil /\ perf # Nil /\ ~drift => last = perf /\ shown = perf
    /\ \A t \in Tasks : Holding(t) =>
         /\ where[t] \in {"remember", "show", "adopt"} => drift \/ wanted[t] = perf
         /\ where[t] = "show" => last = wanted[t]
         /\ where[t] \in {"save", "write"} => last = shown /\ (drift \/ last = perf)

\* The holder of perf_lock has yet to draft, or to write, what is in memory.
WillDraft == \E t \in Tasks \ {Booter} : Holding(t) /\ where[t] \in {"show", "save"}
WillWrite == \E t \in Tasks \ {Booter} : Holding(t) /\ where[t] \in {"show", "save", "write"}

FileFollows ==
    /\ up = "down" => last = Nil
    /\ up # "down" =>
         /\ fileLock # Nil => kept[fileLock] = InMemory \/ WillDraft
         /\ stale \/ perfFile = InMemory \/ WillWrite
    /\ up = "replay" =>
         /\ last \in {Nil, loaded}
         /\ where[Booter] # "idle" => wanted[Booter] = loaded

PerfIInv == TasksPlaced /\ LocksHeld /\ MemoryFollows /\ FileFollows

\* The daemon starts with nothing observed.
LEMMA PerfInitially == PerfInit => PerfIInv
BY PerfTyped
   DEF PerfInit, Down, PerfIInv, TasksPlaced, LocksHeld, MemoryFollows, FileFollows, Holding, Tasks

\* The daemon starts again, from the file.
LEMMA StartStep ==
  ASSUME PerfIInv, PerfStart
  PROVE  PerfIInv'
<1>1. /\ up = "down" /\ up' = "replay" /\ loaded' = perfFile /\ drift
      /\ \A t \in Tasks : where[t] = "idle"
      /\ UNCHANGED <<perf, perfFile, last, shown, perfLock, fileLock, kept, drift, stale>>
  BY PerfTyped DEF PerfStart, memory, locks, PerfIInv, TasksPlaced, MemoryFollows
<1>2. /\ \A t \in Tasks \ {Booter} : where'[t] = "idle" /\ doing'[t] = doing[t]
      /\ where'[Booter] \in {"idle", "set"}
      /\ where'[Booter] = "set" => doing'[Booter] = "set"
      /\ wanted'[Booter] = loaded'
  BY <1>1 DEF PerfStart, Enter, PerfIInv, TasksPlaced, Tasks
<1>3. /\ where' \in [Tasks -> {"idle", "set", "remember", "show", "sync", "adopt", "status",
                             "apply", "save", "write"}]
      /\ doing' \in [Tasks -> {"none", "set", "poll", "other"}]
      /\ DOMAIN wanted' = Tasks /\ wanted' = [t \in Tasks |-> wanted'[t]]
  BY DEF PerfStart, Enter, PerfIInv, TasksPlaced
<1>4. TasksPlaced'
  BY <1>1, <1>2, <1>3, PerfTyped DEF PerfIInv, TasksPlaced, Tasks
<1>5. perfLock = Nil /\ fileLock = Nil
  BY <1>1 DEF PerfIInv, LocksHeld, Holding
<1>6. LocksHeld'
  BY <1>1, <1>2, <1>5 DEF LocksHeld, Holding
<1>7. MemoryFollows'
  BY <1>1, <1>2 DEF MemoryFollows, Holding
<1>8. last = Nil
  BY <1>1 DEF PerfIInv, FileFollows
<1> QED
  BY <1>1, <1>2, <1>4, <1>5, <1>6, <1>7, <1>8 DEF PerfIInv, FileFollows, InMemory

\* The replay is over and calls are served.
LEMMA ServeStep ==
  ASSUME PerfIInv, PerfServe
  PROVE  PerfIInv'
<1>1. /\ up = "replay" /\ up' = "serving" /\ where[Booter] = "idle"
      /\ UNCHANGED <<perf, perfFile, loaded, last, shown, perfLock, fileLock, where, doing,
                     wanted, kept, drift, stale>>
  BY DEF PerfServe, memory, locks, locals
<1>2. \A t \in Tasks : where[t] = "idle"
  BY <1>1 DEF PerfIInv, TasksPlaced
<1> QED
  BY <1>1, <1>2, PerfTyped
     DEF PerfIInv, TasksPlaced, LocksHeld, MemoryFollows, FileFollows, Holding, InMemory,
         WillDraft, WillWrite

\* A call, or a poll, begins: nobody holds anything he did not hold before.
LEMMA BeginStep ==
  ASSUME PerfIInv, NEW t \in Tasks, CallSetPerfMode(t) \/ CallOtherSetter(t) \/ BeginPoll(t)
  PROVE  PerfIInv'
<1>1. /\ up = "serving" /\ up' = up /\ t # Booter /\ where[t] = "idle"
      /\ UNCHANGED <<perf, perfFile, loaded, last, shown, perfLock, fileLock, kept, drift, stale>>
  BY PerfTyped DEF CallSetPerfMode, CallOtherSetter, BeginPoll, Enter, memory, locks, locals
<1>2. /\ \A u \in Tasks \ {t} :
              where'[u] = where[u] /\ doing'[u] = doing[u] /\ wanted'[u] = wanted[u]
      /\ \/ where'[t] = "set" /\ doing'[t] = "set"
         \/ where'[t] = "sync" /\ doing'[t] = "poll"
         \/ where'[t] = "save" /\ doing'[t] = "other"
  BY DEF CallSetPerfMode, CallOtherSetter, BeginPoll, Enter, locals, PerfIInv, TasksPlaced
<1>3. /\ where' \in [Tasks -> {"idle", "set", "remember", "show", "sync", "adopt", "status",
                             "apply", "save", "write"}]
      /\ doing' \in [Tasks -> {"none", "set", "poll", "other"}]
      /\ DOMAIN wanted' = Tasks /\ wanted' = [u \in Tasks |-> wanted'[u]]
  BY DEF CallSetPerfMode, CallOtherSetter, BeginPoll, Enter, locals, PerfIInv, TasksPlaced
<1>4. TasksPlaced'
  BY <1>1, <1>2, <1>3 DEF PerfIInv, TasksPlaced, Tasks
<1>5. \A u \in Tasks : Holding(u)' <=> Holding(u)
  BY <1>1, <1>2 DEF Holding
<1>6. LocksHeld'
  BY <1>1, <1>2, <1>5 DEF PerfIInv, LocksHeld
<1>7. MemoryFollows'
  BY <1>1, <1>2, <1>5 DEF PerfIInv, MemoryFollows, Holding
<1>8. (WillDraft => WillDraft') /\ (WillWrite => WillWrite')
  BY <1>1, <1>2, <1>5 DEF WillDraft, WillWrite
<1> QED
  BY <1>1, <1>4, <1>6, <1>7, <1>8 DEF PerfIInv, FileFollows, InMemory

\* A step that leaves perf_lock, memory, the driver's mode and the file alone, by one
\* who does not hold perf_lock before or after, and not the file's lock either.
LEMMA BystanderStep ==
  ASSUME PerfIInv, NEW t \in Tasks, ~Holding(t), ~Holding(t)', TasksPlaced',
         where[t] # "write", where'[t] # "write",
         up' = up, where[t] # "idle",
         \A u \in Tasks \ {t} :
              where'[u] = where[u] /\ doing'[u] = doing[u] /\ wanted'[u] = wanted[u],
         where'[t] # "idle" => wanted'[t] = wanted[t],
         UNCHANGED <<perf, perfFile, loaded, last, shown, perfLock, fileLock, kept, drift, stale>>
  PROVE  PerfIInv'
<1>1. \A u \in Tasks : Holding(u)' <=> Holding(u)
  BY DEF Holding
<1>2. LocksHeld'
  BY <1>1 DEF PerfIInv, LocksHeld
<1>3. MemoryFollows'
  BY <1>1 DEF PerfIInv, MemoryFollows, Holding
<1>4. (WillDraft => WillDraft') /\ (WillWrite => WillWrite')
  BY <1>1 DEF WillDraft, WillWrite, Holding
<1>5. FileFollows'
  BY <1>4, PerfTyped DEF PerfIInv, FileFollows, InMemory, Tasks
<1> QED
  BY <1>2, <1>3, <1>5 DEF PerfIInv

\* An unsupported mode is refused under the lock.
LEMMA RefuseStep ==
  ASSUME PerfIInv, NEW t \in Tasks, RefusePerf(t)
  PROVE  PerfIInv'
<1>1. /\ where[t] = "set" /\ where' = [where EXCEPT ![t] = "idle"]
      /\ doing' = [doing EXCEPT ![t] = "none"] /\ wanted' = [wanted EXCEPT ![t] = Nil]
      /\ up' = up
      /\ UNCHANGED <<perf, perfFile, loaded, last, shown, perfLock, fileLock, kept, drift, stale>>
  BY DEF RefusePerf, Return, memory, locks
<1>2. TasksPlaced'
  BY <1>1 DEF PerfIInv, TasksPlaced
<1>3. ~Holding(t) /\ ~Holding(t)'
  BY <1>1 DEF Holding, PerfIInv, TasksPlaced
<1>4. /\ \A u \in Tasks \ {t} :
              where'[u] = where[u] /\ doing'[u] = doing[u] /\ wanted'[u] = wanted[u]
      /\ where'[t] = "idle"
  BY <1>1 DEF PerfIInv, TasksPlaced
<1> QED
  BY <1>1, <1>2, <1>3, <1>4, BystanderStep

\* The status part of a poll does not touch the mode.
LEMMA StatusStep ==
  ASSUME PerfIInv, NEW t \in Tasks, SyncSkipped(t) \/ ReadStatus(t) \/ ApplyStatus(t)
  PROVE  PerfIInv'
<1>1. /\ where[t] \in {"sync", "status", "apply"} /\ doing[t] = "poll" /\ up' = up
      /\ UNCHANGED <<perf, perfFile, loaded, last, shown, perfLock, fileLock, kept, drift, stale>>
  BY DEF SyncSkipped, ReadStatus, ApplyStatus, Move, Return, memory, locks, locals,
         PerfIInv, TasksPlaced
<1>2. /\ \A u \in Tasks \ {t} :
              where'[u] = where[u] /\ doing'[u] = doing[u] /\ wanted'[u] = wanted[u]
      /\ \/ where'[t] \in {"status", "apply"} /\ doing'[t] = "poll" /\ wanted'[t] = wanted[t]
         \/ where'[t] = "idle"
  BY <1>1 DEF SyncSkipped, ReadStatus, ApplyStatus, Move, Return, locals, PerfIInv, TasksPlaced
<1>3. TasksPlaced'
  <2>1. /\ where' \in [Tasks -> {"idle", "set", "remember", "show", "sync", "adopt", "status",
                             "apply", "save", "write"}]
        /\ doing' \in [Tasks -> {"none", "set", "poll", "other"}]
        /\ DOMAIN wanted' = Tasks /\ wanted' = [u \in Tasks |-> wanted'[u]]
    BY DEF SyncSkipped, ReadStatus, ApplyStatus, Move, Return, locals, PerfIInv, TasksPlaced
  <2>2. t # Booter
    BY <1>1 DEF PerfIInv, TasksPlaced
  <2> QED BY <1>1, <1>2, <2>1, <2>2 DEF PerfIInv, TasksPlaced, Tasks
<1>4. ~Holding(t) /\ ~Holding(t)'
  BY <1>1, <1>2 DEF Holding
<1> QED
  BY <1>1, <1>2, <1>3, <1>4, BystanderStep

\* A step of the holder of perf_lock, or of one who takes it: nobody else holds it.
LEMMA HolderAlone ==
  ASSUME PerfIInv, NEW t \in Tasks, perfLock = Nil \/ Holding(t)
  PROVE  \A u \in Tasks \ {t} : ~Holding(u)
BY PerfTyped DEF PerfIInv, LocksHeld, Tasks

\* The holder of perf_lock writes the driver's mode, or reads it.
LEMMA TakeStep ==
  ASSUME PerfIInv, NEW t \in Tasks, ApplyPerf(t) \/ SyncRead(t)
  PROVE  PerfIInv'
<1>1. /\ perfLock = Nil /\ perfLock' = t /\ up' = up /\ where[t] \in {"set", "sync"} /\ ~drift'
      /\ UNCHANGED <<perfFile, loaded, last, shown, fileLock, doing, kept, stale>>
  BY DEF ApplyPerf, SyncRead, Move, memory, locals
<1>2. /\ \A u \in Tasks \ {t} : where'[u] = where[u] /\ wanted'[u] = wanted[u]
      /\ wanted'[t] = perf'
      /\ \/ where[t] = "set" /\ where'[t] = "remember" /\ wanted'[t] = wanted[t]
         \/ where[t] = "sync" /\ where'[t] = "adopt"
  BY DEF ApplyPerf, SyncRead, Move, locals, PerfIInv, TasksPlaced
<1>3. TasksPlaced'
  <2>1. /\ where' \in [Tasks -> {"idle", "set", "remember", "show", "sync", "adopt", "status",
                             "apply", "save", "write"}]
        /\ DOMAIN wanted' = Tasks /\ wanted' = [u \in Tasks |-> wanted'[u]]
    BY DEF ApplyPerf, SyncRead, Move, locals, PerfIInv, TasksPlaced
  <2> QED BY <1>1, <1>2, <2>1 DEF PerfIInv, TasksPlaced, Tasks
<1>4. \A u \in Tasks \ {t} : ~Holding(u) /\ ~Holding(u)'
  BY <1>1, <1>2, HolderAlone DEF Holding
<1>5. Holding(t)' /\ ~Holding(t)
  BY <1>1, <1>2 DEF Holding
<1>6. LocksHeld'
  BY <1>1, <1>2, <1>4, <1>5 DEF PerfIInv, LocksHeld
<1>7. MemoryFollows'
  BY <1>1, <1>2, <1>3, <1>4, PerfTyped DEF PerfIInv, MemoryFollows, TasksPlaced, Tasks
<1>8. ~WillDraft /\ ~WillWrite
  BY <1>4, <1>5 DEF WillDraft, WillWrite
<1> QED
  BY <1>1, <1>2, <1>3, <1>6, <1>7, <1>8, PerfTyped
     DEF PerfIInv, TasksPlaced, FileFollows, InMemory, Tasks

\* Memory follows the driver.
LEMMA RememberStep ==
  ASSUME PerfIInv, NEW t \in Tasks, RememberPerf(t)
  PROVE  PerfIInv'
<1>1. /\ where[t] = "remember" /\ where' = [where EXCEPT ![t] = "show"] /\ last' = wanted[t]
      /\ up' = up
      /\ UNCHANGED <<perf, perfFile, loaded, shown, perfLock, fileLock, doing, wanted, kept,
                     drift, stale>>
  BY DEF RememberPerf, Move, locks, locals
<1>2. /\ \A u \in Tasks \ {t} : where'[u] = where[u]
      /\ where'[t] = "show" /\ doing[t] = "set"
      /\ Holding(t) /\ Holding(t)' /\ perfLock = t
  BY <1>1 DEF PerfIInv, TasksPlaced, LocksHeld, Holding
<1>3. TasksPlaced'
  BY <1>1, <1>2 DEF PerfIInv, TasksPlaced
<1>4. \A u \in Tasks \ {t} : ~Holding(u) /\ ~Holding(u)'
  BY <1>1, <1>2, HolderAlone DEF Holding
<1>5. LocksHeld'
  BY <1>1, <1>2, <1>4 DEF PerfIInv, LocksHeld
<1>6. MemoryFollows'
  BY <1>1, <1>2, <1>4, PerfTyped DEF PerfIInv, MemoryFollows, Tasks
<1>7. CASE t = Booter
  <2>1. up = "replay" /\ last' = loaded /\ InMemory' = InMemory
    BY <1>1, <1>2, <1>7 DEF PerfIInv, TasksPlaced, FileFollows, InMemory
  <2>2. ~WillDraft /\ ~WillWrite
    BY <1>4, <1>7 DEF WillDraft, WillWrite
  <2> QED BY <1>1, <1>2, <1>3, <1>5, <1>6, <1>7, <2>1, <2>2 DEF PerfIInv, FileFollows
<1>8. CASE t # Booter
  <2>1. WillDraft' /\ WillWrite' /\ up = "serving"
    BY <1>1, <1>2, <1>8 DEF WillDraft, WillWrite, PerfIInv, TasksPlaced
  <2> QED BY <1>1, <1>3, <1>5, <1>6, <2>1 DEF PerfIInv, FileFollows
<1> QED BY <1>7, <1>8

\* The property follows memory.
LEMMA ShowStep ==
  ASSUME PerfIInv, NEW t \in Tasks, ShowPerf(t)
  PROVE  PerfIInv'
<1>1. /\ where[t] = "show" /\ shown' = wanted[t] /\ up' = up
      /\ UNCHANGED <<perf, perfFile, loaded, last, fileLock, kept, drift, stale>>
  BY DEF ShowPerf, Move, Return
<1>2. Holding(t) /\ perfLock = t /\ doing[t] = "set" /\ last = wanted[t]
  BY <1>1 DEF PerfIInv, TasksPlaced, LocksHeld, MemoryFollows, Holding
<1>3. \A u \in Tasks \ {t} : ~Holding(u)
  BY <1>2, HolderAlone
<1>4. CASE t = Booter
  <2>1. /\ where' = [where EXCEPT ![t] = "idle"] /\ doing' = [doing EXCEPT ![t] = "none"]
        /\ wanted' = [wanted EXCEPT ![t] = Nil] /\ perfLock' = Nil
    BY <1>2, <1>4 DEF ShowPerf, Return, Release
  <2>2. TasksPlaced'
    BY <1>1, <2>1 DEF PerfIInv, TasksPlaced
  <2>3. \A u \in Tasks : ~Holding(u)'
    BY <1>3, <2>1 DEF Holding, PerfIInv, TasksPlaced
  <2>4. LocksHeld'
    BY <1>1, <2>1, <2>3 DEF PerfIInv, LocksHeld, TasksPlaced
  <2>5. MemoryFollows'
    BY <1>1, <1>2, <2>3 DEF PerfIInv, MemoryFollows, Holding
  <2>6. ~WillDraft /\ ~WillWrite /\ up = "replay" /\ where'[Booter] = "idle"
    BY <1>1, <1>3, <1>4, <2>1 DEF WillDraft, WillWrite, PerfIInv, TasksPlaced, Tasks
  <2> QED BY <1>1, <2>2, <2>4, <2>5, <2>6 DEF PerfIInv, FileFollows, InMemory
<1>5. CASE t # Booter
  <2>1. where' = [where EXCEPT ![t] = "save"] /\ UNCHANGED <<doing, wanted, perfLock>>
    BY <1>5 DEF ShowPerf, Move
  <2>2. TasksPlaced'
    BY <1>1, <1>5, <2>1 DEF PerfIInv, TasksPlaced
  <2>3. /\ where'[t] = "save" /\ Holding(t)'
        /\ \A u \in Tasks \ {t} : where'[u] = where[u] /\ ~Holding(u)'
    BY <1>2, <1>3, <2>1 DEF Holding, PerfIInv, TasksPlaced
  <2>4. LocksHeld'
    BY <1>1, <1>2, <2>1, <2>3 DEF PerfIInv, LocksHeld
  <2>5. MemoryFollows'
    BY <1>1, <1>2, <2>1, <2>3, PerfTyped DEF PerfIInv, MemoryFollows, Holding, Tasks
  <2>6. WillDraft' /\ WillWrite' /\ up = "serving"
    BY <1>1, <1>5, <2>3 DEF WillDraft, WillWrite, PerfIInv, TasksPlaced
  <2> QED BY <1>1, <2>2, <2>4, <2>5, <2>6 DEF PerfIInv, FileFollows
<1> QED BY <1>4, <1>5

\* A poll adopts a mode somebody else has set.
LEMMA AdoptStep ==
  ASSUME PerfIInv, NEW t \in Tasks, SyncAdopt(t)
  PROVE  PerfIInv'
<1>1. /\ where[t] = "adopt" /\ up' = up
      /\ UNCHANGED <<perf, perfFile, loaded, fileLock, doing, wanted, kept, drift, stale>>
      /\ IF wanted[t] = Nil THEN last' = last /\ shown' = shown
         ELSE last' = wanted[t] /\ shown' = wanted[t]
  BY DEF SyncAdopt, Move, memory, locals
<1>2. Holding(t) /\ perfLock = t /\ doing[t] = "poll" /\ t # Booter /\ up = "serving"
      /\ (drift \/ wanted[t] = perf)
  BY <1>1 DEF PerfIInv, TasksPlaced, LocksHeld, MemoryFollows, Holding
<1>3. \A u \in Tasks \ {t} : ~Holding(u)
  BY <1>2, HolderAlone
<1>4. ~WillDraft /\ ~WillWrite
  BY <1>1, <1>3 DEF WillDraft, WillWrite
<1>5. CASE wanted[t] # Nil /\ NeedsSave(wanted[t])
  <2>1. where' = [where EXCEPT ![t] = "save"] /\ perfLock' = perfLock
    BY <1>5 DEF SyncAdopt, Move
  <2>2. TasksPlaced'
    BY <1>1, <1>2, <2>1 DEF PerfIInv, TasksPlaced
  <2>3. /\ where'[t] = "save" /\ Holding(t)'
        /\ \A u \in Tasks \ {t} : where'[u] = where[u] /\ ~Holding(u)'
    BY <1>1, <1>2, <1>3, <2>1 DEF Holding, PerfIInv, TasksPlaced
  <2>4. LocksHeld'
    BY <1>1, <1>2, <2>1, <2>3 DEF PerfIInv, LocksHeld
  <2>5. MemoryFollows'
    BY <1>1, <1>2, <1>5, <2>1, <2>3, PerfTyped DEF PerfIInv, MemoryFollows, Holding, Tasks
  <2>6. WillDraft' /\ WillWrite'
    BY <1>2, <2>3 DEF WillDraft, WillWrite
  <2> QED BY <1>1, <1>2, <2>2, <2>4, <2>5, <2>6 DEF PerfIInv, FileFollows
<1>6. CASE ~(wanted[t] # Nil /\ NeedsSave(wanted[t]))
  <2>1. where' = [where EXCEPT ![t] = "status"] /\ perfLock' = Nil
    BY <1>2, <1>6 DEF SyncAdopt, Move, Release
  <2>2. TasksPlaced'
    BY <1>1, <1>2, <2>1 DEF PerfIInv, TasksPlaced
  <2>3. \A u \in Tasks : ~Holding(u)'
    BY <1>1, <1>3, <2>1 DEF Holding, PerfIInv, TasksPlaced
  <2>4. LocksHeld'
    BY <1>1, <2>1, <2>3 DEF PerfIInv, LocksHeld, TasksPlaced
  <2>5. MemoryFollows'
    BY <1>1, <1>2, <2>3, PerfTyped DEF PerfIInv, MemoryFollows
  <2>6. InMemory' = InMemory
    BY <1>1, <1>6, PerfTyped DEF InMemory, NeedsSave
  <2> QED BY <1>1, <1>2, <1>4, <2>2, <2>4, <2>5, <2>6 DEF PerfIInv, FileFollows
<1> QED BY <1>5, <1>6

\* The configuration is built from memory, under persistence_lock.
LEMMA DraftStep ==
  ASSUME PerfIInv, NEW t \in Tasks, DraftConfig(t)
  PROVE  PerfIInv'
<1>1. /\ where[t] = "save" /\ where' = [where EXCEPT ![t] = "write"] /\ up' = up
      /\ fileLock = Nil /\ fileLock' = t
      /\ kept' = [kept EXCEPT ![t] = InMemory]
      /\ UNCHANGED <<perf, perfFile, loaded, last, shown, perfLock, doing, wanted, drift, stale>>
  BY DEF DraftConfig, Move, memory, InMemory
<1>2. TasksPlaced'
  BY <1>1 DEF PerfIInv, TasksPlaced
<1>3. /\ \A u \in Tasks \ {t} : where'[u] = where[u]
      /\ where'[t] = "write" /\ kept'[t] = InMemory /\ t # Nil
      /\ t # Booter /\ up = "serving"
  BY <1>1, PerfTyped DEF PerfIInv, TasksPlaced, Tasks
<1>4. \A u \in Tasks : Holding(u)' <=> Holding(u)
  BY <1>1, <1>3 DEF Holding
<1>5. LocksHeld'
  BY <1>1, <1>3, <1>4, PerfTyped DEF PerfIInv, LocksHeld, Tasks
<1>6. MemoryFollows'
  BY <1>1, <1>3, <1>4 DEF PerfIInv, MemoryFollows, Holding
<1>7. WillWrite => WillWrite'
  BY <1>1, <1>3, <1>4 DEF WillWrite
<1> QED
  BY <1>1, <1>2, <1>3, <1>5, <1>6, <1>7 DEF PerfIInv, FileFollows, InMemory

\* The draft reaches the file, or the save fails.
LEMMA WriteStep ==
  ASSUME PerfIInv, NEW t \in Tasks, where[t] = "write", WriteConfig(t)
  PROVE  PerfIInv'
<1>1. /\ up' = up /\ fileLock' = Nil /\ kept' = [kept EXCEPT ![t] = Nil]
      /\ perfLock' = IF perfLock = t THEN Nil ELSE perfLock
      /\ UNCHANGED <<perf, loaded, last, shown, drift>>
      /\ stale' \/ perfFile' = kept[t]
  BY DEF WriteConfig, Release, memory
<1>2. fileLock = t /\ t # Booter /\ up = "serving" /\ t # Nil
  BY PerfTyped DEF PerfIInv, LocksHeld, TasksPlaced, Tasks
<1>3. TasksPlaced'
  <2>1. CASE /\ doing[t] = "poll" /\ doing' = doing /\ wanted' = wanted
             /\ where' = [where EXCEPT ![t] = "status"]
    BY <1>1, <1>2, <2>1 DEF PerfIInv, TasksPlaced
  <2>2. CASE /\ where' = [where EXCEPT ![t] = "idle"] /\ doing' = [doing EXCEPT ![t] = "none"]
             /\ wanted' = [wanted EXCEPT ![t] = Nil]
    <3>1. /\ DOMAIN wanted' = Tasks /\ wanted' = [u \in Tasks |-> wanted'[u]]
          /\ DOMAIN kept' = Tasks /\ kept' = [u \in Tasks |-> kept'[u]]
      BY <1>1, <2>2 DEF PerfIInv, TasksPlaced
    <3>2. /\ where' \in [Tasks -> {"idle", "set", "remember", "show", "sync", "adopt", "status",
                                 "apply", "save", "write"}]
          /\ doing' \in [Tasks -> {"none", "set", "poll", "other"}]
          /\ where'[t] = "idle" /\ \A u \in Tasks \ {t} :
                                        where'[u] = where[u] /\ doing'[u] = doing[u]
      BY <2>2 DEF PerfIInv, TasksPlaced
    <3> QED BY <1>1, <1>2, <3>1, <3>2, PerfTyped DEF PerfIInv, TasksPlaced, Tasks
  <2> QED BY <2>1, <2>2 DEF WriteConfig, Move, Return
<1>4. /\ \A u \in Tasks \ {t} :
              where'[u] = where[u] /\ doing'[u] = doing[u] /\ wanted'[u] = wanted[u]
      /\ where'[t] \in {"status", "idle"}
  BY DEF WriteConfig, Move, Return, PerfIInv, TasksPlaced
<1>5. ~Holding(t)' /\ \A u \in Tasks \ {t} : Holding(u)' <=> Holding(u)
  BY <1>4 DEF Holding
<1>6. LocksHeld'
  BY <1>1, <1>2, <1>4, <1>5 DEF PerfIInv, LocksHeld
<1>7. MemoryFollows'
  <2>1. Holding(t) => last = shown /\ (drift \/ last = perf)
    BY DEF PerfIInv, MemoryFollows
  <2>2. perfLock = t => Holding(t)
    BY <1>2 DEF PerfIInv, LocksHeld
  <2>3. \A u \in Tasks :
             Holding(u)' => u # t /\ where'[u] = where[u] /\ wanted'[u] = wanted[u] /\ Holding(u)
    BY <1>4, <1>5
  <2> QED BY <1>1, <1>2, <2>1, <2>2, <2>3 DEF PerfIInv, MemoryFollows
<1>8. (WillDraft => WillDraft') /\ (WillDraft' => WillWrite')
  BY <1>4, <1>5 DEF WillDraft, WillWrite
<1> QED
  BY <1>1, <1>2, <1>3, <1>6, <1>7, <1>8 DEF PerfIInv, FileFollows, InMemory

\* Another program changes the mode or the readings.
LEMMA OutsideStep ==
  ASSUME PerfIInv, OutsidePerf \/ OutsideReading \/ UNCHANGED perfVars
  PROVE  PerfIInv'
<1>1. /\ UNCHANGED <<perfFile, up, loaded, last, shown, perfLock, fileLock, where, doing, wanted,
                     kept, stale>>
      /\ drift' \/ (perf' = perf /\ drift' = drift)
  BY DEF OutsidePerf, OutsideReading, perfVars, memory, locks, locals
<1>2. /\ \A t \in Tasks : Holding(t)' <=> Holding(t)
      /\ (WillDraft' <=> WillDraft) /\ (WillWrite' <=> WillWrite)
  BY <1>1 DEF Holding, WillDraft, WillWrite
<1>3. TasksPlaced' /\ LocksHeld'
  BY <1>1, <1>2 DEF PerfIInv, TasksPlaced, LocksHeld
<1>4. MemoryFollows'
  BY <1>1, <1>2 DEF PerfIInv, MemoryFollows
<1> QED BY <1>1, <1>2, <1>3, <1>4 DEF PerfIInv, FileFollows, InMemory

\* A kill or a power loss forgets everything but the file.
LEMMA KilledStep ==
  ASSUME PerfIInv, PerfKilled
  PROVE  PerfIInv'
BY PerfTyped
   DEF PerfKilled, PerfIInv, TasksPlaced, LocksHeld, MemoryFollows, FileFollows, Holding, Tasks

\* Every step keeps the invariant.
LEMMA PerfStep == PerfIInv /\ [PerfNext]_perfVars => PerfIInv'
<1>1. SUFFICES ASSUME PerfIInv, [PerfNext]_perfVars PROVE PerfIInv'
  OBVIOUS
<1>2. ASSUME NEW t \in Tasks, TaskStep(t) PROVE PerfIInv'
  <2>1. WriteConfig(t) => where[t] = "write"
    BY DEF WriteConfig, Move, Return
  <2> QED
    BY <1>1, <1>2, <2>1, RefuseStep, TakeStep, RememberStep, ShowStep, AdoptStep, StatusStep,
       DraftStep, WriteStep DEF TaskStep
<1> QED
  BY <1>1, <1>2, StartStep, ServeStep, BeginStep, OutsideStep, KilledStep DEF PerfNext

(* Between two holders of perf_lock, memory, the D-Bus property and the file   *)
(* name the mode the driver runs, unless another program has changed it since  *)
(* or the last save failed: for any number of calls, overlapping polls,        *)
(* failures and restarts (set_perf_mode and sync_modes, service.rs).           *)
THEOREM PerfModesAgree == PerfSpec => []PerfAgrees
<1>1. PerfIInv => PerfAgrees
  <2>1. SUFFICES ASSUME PerfIInv, up = "serving", perfLock = Nil, perf # Nil, ~drift
                 PROVE  last = perf /\ shown = perf /\ (stale \/ perfFile = perf)
    BY DEF PerfAgrees
  <2>2. ~WillWrite
    BY <2>1, PerfTyped DEF WillWrite, PerfIInv, LocksHeld, Tasks
  <2> QED
    BY <2>1, <2>2 DEF PerfIInv, MemoryFollows, FileFollows, InMemory
<1> QED
  BY <1>1, PerfInitially, PerfStep, PTL DEF PerfSpec

-----------------------------------------------------------------------------
(* Types.                                                                    *)

\* What fan may be, and what a poll may have read.
Statuses == [freshness : {"fresh", "stale", "unknown"}, value : Readings \cup {Nil},
             count : {0, FanCount}]

PerfTypeInv == PerfTypeOK /\ got \in [Tasks -> Statuses \cup {Nil}]

\* The types hold at first.
LEMMA PerfTypesInitially == PerfInit => PerfTypeInv
<1>1. PerfInit => {drift, stale} \subseteq BOOLEAN
  BY DEF PerfInit, Down
<1> QED
  BY <1>1, PerfTyped DEF PerfInit, Down, Unread, PerfTypeInv, PerfTypeOK, Statuses, Tasks

\* A task's own steps keep the types.
LEMMA PerfTypesOfTask ==
  ASSUME PerfTypeInv, NEW t \in Tasks,
         CallSetPerfMode(t) \/ CallOtherSetter(t) \/ BeginPoll(t) \/ TaskStep(t)
  PROVE  PerfTypeInv'
<1> USE PerfTyped
<1> USE DEF PerfTypeInv, PerfTypeOK, Outside, Trouble, memory, locks, locals, bounds
<1>1. CASE CallSetPerfMode(t)
  BY <1>1 DEF CallSetPerfMode, Enter
<1>2. CASE CallOtherSetter(t)
  BY <1>2 DEF CallOtherSetter, Enter
<1>3. CASE BeginPoll(t)
  BY <1>3 DEF BeginPoll, Enter
<1>4. CASE RefusePerf(t)
  BY <1>4 DEF RefusePerf, Return
<1>5. CASE ApplyPerf(t)
  <2>1. {drift', stale'} \subseteq BOOLEAN
    BY <1>5 DEF ApplyPerf
  <2> QED BY <1>5, <2>1 DEF ApplyPerf, Move
<1>6. CASE RememberPerf(t)
  BY <1>6 DEF RememberPerf, Move
<1>7. CASE ShowPerf(t)
  BY <1>7 DEF ShowPerf, Move, Return, Release
<1>8. CASE SyncRead(t)
  BY <1>8 DEF SyncRead, Move
<1>9. CASE SyncSkipped(t)
  BY <1>9 DEF SyncSkipped, Move
<1>10. CASE SyncAdopt(t)
  BY <1>10 DEF SyncAdopt, Move, Release
<1>11. CASE ReadStatus(t)
  <2>1. \A c \in {0, FanCount} :
             [freshness |-> "fresh", value |-> reading, count |-> c] \in Statuses
    BY DEF Statuses
  <2> QED BY <1>11, <2>1 DEF ReadStatus, Move
<1>12. CASE ApplyStatus(t)
  <2>1. Applied(got[t]) \in Statuses
    BY DEF Applied, Statuses
  <2> QED BY <1>12, <2>1 DEF ApplyStatus, Return, Statuses
<1>13. CASE DraftConfig(t)
  BY <1>13 DEF DraftConfig, Move
<1>14. CASE WriteConfig(t)
  <2>1. {drift', stale'} \subseteq BOOLEAN
    BY <1>14 DEF WriteConfig
  <2>2. CASE doing[t] = "poll"
    BY <1>14, <2>1, <2>2 DEF WriteConfig, Move, Release
  <2>3. CASE doing[t] # "poll"
    BY <1>14, <2>1, <2>3 DEF WriteConfig, Return, Release
  <2> QED BY <2>2, <2>3
<1> QED
  BY <1>1, <1>2, <1>3, <1>4, <1>5, <1>6, <1>7, <1>8, <1>9, <1>10, <1>11, <1>12, <1>13, <1>14
     DEF TaskStep

\* Every step keeps the types.
LEMMA PerfTypesStep == PerfTypeInv /\ [PerfNext]_perfVars => PerfTypeInv'
<1>1. SUFFICES ASSUME PerfTypeInv, [PerfNext]_perfVars PROVE PerfTypeInv'
  OBVIOUS
<1> USE <1>1, PerfTyped
<1>2. CASE PerfStart
  BY <1>2 DEF PerfStart, Enter, memory, locks, bounds, PerfTypeInv, PerfTypeOK, Tasks
<1>3. CASE PerfServe
  BY <1>3 DEF PerfServe, memory, locks, locals, bounds, PerfTypeInv, PerfTypeOK
<1>4. CASE OutsidePerf \/ OutsideReading
  <2>1. {drift', stale'} \subseteq BOOLEAN
    BY <1>4 DEF OutsidePerf, OutsideReading, PerfTypeInv, PerfTypeOK
  <2> QED
    BY <1>4, <2>1 DEF OutsidePerf, OutsideReading, Outside, memory, locks, locals, PerfTypeInv,
                      PerfTypeOK
<1>5. CASE PerfKilled
  <2>1. {drift', stale'} \subseteq BOOLEAN
    BY <1>5 DEF PerfKilled
  <2> QED BY <1>5, <2>1 DEF PerfKilled, Trouble, Unread, PerfTypeInv, PerfTypeOK
<1>6. CASE UNCHANGED perfVars
  BY <1>6 DEF perfVars, PerfTypeInv, PerfTypeOK, Statuses
<1> QED
  BY <1>2, <1>3, <1>4, <1>5, <1>6, PerfTypesOfTask DEF PerfNext

(* Type correctness of both parts, for any number of calls, senders, polls,   *)
(* modes and readings (require, dbus.rs:82; poll_fan, service.rs:414).        *)
THEOREM DaemonTypes == Spec => []TypeOK
<1> DEFINE Inv == AuthIInv /\ PerfTypeInv
<1>1. Init => Inv
  BY AuthInitially, PerfTypesInitially DEF Init
<1>2. Inv /\ [Next]_vars => Inv'
  <2>1. [Next]_vars => [AuthNext]_authVars /\ [PerfNext]_perfVars
    BY DEF Next, vars
  <2> QED BY <2>1, AuthStep, PerfTypesStep
<1>3. Inv => TypeOK
  BY DEF AuthIInv, PerfTypeInv, TypeOK
<1> QED
  BY <1>1, <1>2, <1>3, PTL DEF Spec
=============================================================================
