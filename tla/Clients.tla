------------------------------ MODULE Clients ------------------------------
(***************************************************************************)
(* The clients of clevod: clevo-cc, the desktop UI and clevo-cc doctor.     *)
(*                                                                          *)
(* A status is ten properties, each read by a D-Bus call of its own, while  *)
(* the daemon polls, exits and is started again.  clevo-cc and the UI       *)
(* address the well-known name, so the answers may come from two instances; *)
(* the doctor resolves the name once and stays with that instance.          *)
(* Of the properties two are modelled: the freshness label and a reading,   *)
(* which stands for every value the label speaks of.  Any call may end in an *)
(* error: the instance is gone, its answer is late or not to be decoded.    *)
(*                                                                          *)
(* The doctor looks at the installation first, at what its transport        *)
(* choice needs last, and ends with exit status 0 unless a check failed.    *)
(***************************************************************************)
EXTENDS Naturals, Sequences, SequencesExt

CONSTANTS
    NoAnswer,       \* nothing read yet, or a failed call
    MaxInstances,   \* a bound on the starts of the daemon
    MaxPolls        \* a bound on the polls that succeed

ASSUME ClientsBounded == MaxInstances \in Nat /\ MaxPolls \in Nat

TransportChoices == {"dbus", "driver", "acpi-call", "mock"}

VARIABLES
    who, choice,    \* chosen once: the client, and the doctor's --transport
    owner, starts,  \* the instance that owns org.clevo.CC (0: none), starts so far
    fan,            \* its DaemonState.fan: freshness, and the poll it was read by
    polls,          \* successful polls so far
    fanOf,          \* per instance: the first poll that belongs to it
    job,            \* "idle", "status", "mode", "curve", "doctor"
    pinned,         \* the doctor's instance (0: address the well-known name)
    label, value,   \* what the client has read, and from which instance
    done,           \* what has been written for the client, and by which instance
    ended,          \* how its last job ended
    check,          \* the doctor: the checks carried out or skipped
    failed,         \* the doctor: a check has failed
    good            \* the doctor: needed checks that found what they looked for

clientVars == <<who, choice, owner, starts, fan, polls, fanOf, job, pinned, label, value,
                done, ended, check, failed, good>>
bus    == <<owner, starts, fan, polls, fanOf>>
doctor == <<pinned, check, failed, good>>

-----------------------------------------------------------------------------
(* The daemon, as far as its clients see it.                                 *)

NeverPolled == [freshness |-> "unknown", poll |-> 0]

DaemonStarts ==
    /\ owner = 0 /\ starts < MaxInstances
    /\ starts' = starts + 1 /\ owner' = starts + 1
    /\ fan' = NeverPolled
    /\ fanOf' = [fanOf EXCEPT ![starts + 1] = polls + 1]
    /\ UNCHANGED <<who, choice, polls, job, label, value, done, ended, doctor>>

DaemonExits ==
    /\ owner # 0 /\ owner' = 0
    /\ UNCHANGED <<who, choice, starts, fan, polls, fanOf, job, label, value, done, ended,
                   doctor>>

PollSucceeds ==
    /\ owner # 0 /\ polls < MaxPolls
    /\ polls' = polls + 1
    /\ fan' = [freshness |-> "fresh", poll |-> polls + 1]
    /\ UNCHANGED <<who, choice, owner, starts, fanOf, job, label, value, done, ended, doctor>>

PollFails ==
    /\ owner # 0
    /\ fan' = [fan EXCEPT !.freshness = IF @ = "fresh" THEN "stale" ELSE "unknown"]
    /\ UNCHANGED <<who, choice, owner, starts, polls, fanOf, job, label, value, done, ended,
                   doctor>>

\* What a setter writes to the hardware: set_curve writes the curve, then
\* selects custom.
Writes == [mode |-> 1, curve |-> 2]

NotWritten == [writes |-> 0, by |-> 0]

-----------------------------------------------------------------------------
(* One status, property by property.                                         *)

\* Fault: clevo-cc reads the values first and their freshness last.
ValuesFirst(client) == <<"value", "label">>

\* DbusClient.status and DaemonClient.snapshot.
Order(client) == IF client = "ui" THEN <<"value", "label">> ELSE <<"label", "value">>

NextProperty == IF label = NoAnswer /\ value = NoAnswer THEN Order(who)[1] ELSE Order(who)[2]

Reached == owner # 0 /\ pinned \in {0, owner}

Read(property) ==
    IF property = "label"
    THEN label' = [is |-> fan.freshness, from |-> owner] /\ UNCHANGED value
    ELSE value' = [is |-> fan.poll, from |-> owner] /\ UNCHANGED label

StatusRead == label # NoAnswer /\ value # NoAnswer

AskStatus ==
    /\ who # "doctor" /\ job = "idle"
    /\ job' = "status" /\ ended' = "none"
    /\ label' = NoAnswer /\ value' = NoAnswer
    /\ UNCHANGED <<who, choice, bus, done, doctor>>

ReadProperty ==
    /\ job = "status" /\ ~StatusRead
    /\ Reached /\ Read(NextProperty)
    /\ UNCHANGED <<who, choice, bus, job, done, ended, doctor>>

Finish(result) == job' = "idle" /\ ended' = result

PrintStatus ==
    /\ job = "status" /\ StatusRead
    /\ Finish("ok")
    /\ UNCHANGED <<who, choice, bus, label, value, done, doctor>>

CallFails ==
    /\ (job = "status" /\ ~StatusRead) \/ job \in DOMAIN Writes
    /\ Finish("error")
    /\ UNCHANGED <<who, choice, bus, label, value, done, doctor>>

-----------------------------------------------------------------------------
(* A setter of clevo-cc or the UI: a dry run without --apply, otherwise one   *)
(* call.  The daemon may refuse it, fail between its two writes, be killed    *)
(* after both or be misunderstood: an error tells nothing of what was done.   *)

AskWrite ==
    /\ who # "doctor" /\ job = "idle"
    /\ \/ job' \in DOMAIN Writes /\ ended' = "none"
       \/ who = "cli" /\ Finish("dry")
    /\ done' = NotWritten
    /\ UNCHANGED <<who, choice, bus, label, value, doctor>>

CarriedOut ==
    /\ job \in DOMAIN Writes /\ done.writes < Writes[job]
    /\ owner # 0 /\ done.by \in {0, owner}
    /\ done' = [writes |-> done.writes + 1, by |-> owner]
    /\ UNCHANGED <<who, choice, bus, job, label, value, ended, doctor>>

WriteAnswered ==
    /\ job \in DOMAIN Writes /\ done.writes = Writes[job] /\ done.by = owner
    /\ Finish("ok")
    /\ UNCHANGED <<who, choice, bus, label, value, done, doctor>>

-----------------------------------------------------------------------------
(* The doctor's checks, in order.                                             *)

SystemChecks ==
    <<"kernel.release", "kernel.acpi", "kernel.headers", "dmi", "acpi.device", "modules",
      "driver.binding", "driver.files", "permissions", "driver.fans", "acpi_call",
      "keyboard", "power", "installation", "config.schema">>
BusChecks      == <<"dbus.connection", "dbus.service">>
DaemonChecks   == <<"daemon.status", "daemon.capabilities", "daemon.keyboard">>
HardwareChecks == <<"transport", "hardware.fan_status", "hardware.fan_curve",
                    "hardware.capabilities">>
KernelChecks   == {"kernel.release", "kernel.acpi", "kernel.headers"}
DriverChecks   == {"acpi.device", "driver.binding", "driver.files", "driver.fans"}

\* A mock has no more than a fixture to be parsed.
Checks == CASE choice = "mock" -> <<"transport">>
            [] choice = "dbus" -> SystemChecks \o BusChecks \o DaemonChecks
            [] OTHER           -> SystemChecks \o BusChecks \o HardwareChecks

\* What a check can find: "good", "empty", "missing", "denied" or "wrong".
FileFindings == {"good", "empty", "missing", "denied"}

KernelFindings(c) ==
    CASE c = "kernel.release" -> FileFindings \cup {"wrong"}
      [] c = "kernel.acpi"    -> {"good", "missing", "wrong"}
      [] OTHER                -> {"good", "missing"}

DriverFindings(c) ==
    CASE c = "acpi.device"    -> FileFindings \cup {"wrong"}
      [] c = "driver.binding" -> {"good", "wrong"}
      [] OTHER                -> FileFindings

\* Lighting, battery and profile attributes are optional, and never fail.
KeyboardFindings == {"good", "missing", "denied"}
PowerFindings    == FileFindings

InstallationFindings(c) ==
    IF c = "config.schema" THEN {"good", "missing", "denied", "wrong"} ELSE {"good", "missing"}

Findings(c) ==
    CASE c \in KernelChecks                            -> KernelFindings(c)
      [] c \in DriverChecks \cup {"dmi"}               -> DriverFindings(c)
      [] c = "keyboard"                                -> KeyboardFindings
      [] c = "power"                                   -> PowerFindings
      [] c \in {"installation", "config.schema"}       -> InstallationFindings(c)
      [] c = "transport" /\ choice # "mock"            -> {"good"}
      [] c \in Range(HardwareChecks)                   -> {"good", "wrong"}
      [] OTHER                                         -> {"good", "missing"}

\* Fault: a missing file of the driver fails the report whatever the transport.
FailsForAll(c, found) == found \in {"missing", "wrong"} /\ c \in DriverChecks

\* The rest are warnings, or skipped.
Fails(c, found) ==
    \/ c \in {"kernel.acpi", "config.schema"} /\ found = "wrong"
    \/ c \in DriverChecks /\ choice = "driver" /\ found \in {"missing", "denied", "wrong"}
    \/ c = "acpi_call" /\ choice = "acpi-call" /\ found = "missing"
    \/ c \in Range(BusChecks) /\ choice = "dbus" /\ found # "good"
    \/ c \in Range(HardwareChecks) \cup {"daemon.status", "daemon.capabilities"} /\ found # "good"

\* What cannot be looked at once a check has found nothing.
Hidden(c) == CASE c = "kernel.release"  -> {"kernel.acpi", "kernel.headers"}
               [] c = "dbus.connection" -> Range(BusChecks) \cup Range(DaemonChecks)
               [] c = "dbus.service"    -> Range(DaemonChecks)
               [] OTHER                 -> {}

\* What the selected transport needs; the kernel and the configuration must fit
\* whichever it is, but for a mock.
Fitting == {"kernel.acpi", "config.schema"}

Needed == CASE choice = "mock"   -> {"transport"}
            [] choice = "dbus"   -> Fitting \cup Range(BusChecks)
                                            \cup {"daemon.status", "daemon.capabilities"}
            [] choice = "driver" -> Fitting \cup DriverChecks \cup Range(HardwareChecks)
            [] OTHER             -> Fitting \cup {"acpi_call"} \cup Range(HardwareChecks)

\* The places in the list of the checks still to be carried out.
Todo == {i \in DOMAIN Checks : Checks[i] \notin check}

NextCheck == Checks[Min(Todo)]

RunDoctor ==
    /\ who = "doctor" /\ job = "idle"
    /\ job' = "doctor" /\ ended' = "none"
    /\ check' = {} /\ failed' = FALSE /\ good' = {} /\ pinned' = 0
    /\ label' = NoAnswer /\ value' = NoAnswer
    /\ UNCHANGED <<who, choice, bus, done>>

Report(c, found) ==
    /\ check' = check \cup {c} \cup (IF found = "good" THEN {} ELSE Hidden(c))
    /\ failed' = (failed \/ Fails(c, found))
    /\ good' = IF found = "good" THEN good \cup ({c} \cap Needed) ELSE good

FileCheck ==
    /\ job = "doctor" /\ Todo # {}
    /\ LET c == NextCheck
       IN  /\ c \notin {"dbus.service"} \cup Range(DaemonChecks)
           /\ \E found \in Findings(c) : Report(c, found)
    /\ UNCHANGED <<who, choice, bus, job, pinned, label, value, done, ended>>

\* diagnostic_service: name_has_owner, then get_name_owner, which may be too late.
ResolveService ==
    /\ job = "doctor" /\ Todo # {} /\ NextCheck = "dbus.service"
    /\ \/ /\ owner # 0 /\ pinned' = owner
          /\ Report("dbus.service", "good")
       \/ Report("dbus.service", "missing") /\ UNCHANGED pinned
    /\ UNCHANGED <<who, choice, bus, job, label, value, done, ended>>

\* The status is two of the ten properties here too.  A call may take longer than
\* the three seconds, or its answer be one of another version.
ProbeDaemon ==
    /\ job = "doctor" /\ Todo # {} /\ NextCheck \in Range(DaemonChecks)
    /\ LET c == NextCheck
       IN  \/ /\ Reached
              /\ IF c = "daemon.status" /\ ~StatusRead
                 THEN Read(NextProperty) /\ UNCHANGED <<check, failed, good>>
                 ELSE Report(c, "good") /\ UNCHANGED <<label, value>>
           \/ Report(c, "missing") /\ UNCHANGED <<label, value>>
    /\ UNCHANGED <<who, choice, bus, job, pinned, done, ended>>

DoctorExits ==
    /\ job = "doctor" /\ Todo = {}
    /\ Finish(IF failed THEN "failure" ELSE "ok")
    /\ UNCHANGED <<who, choice, bus, label, value, done, doctor>>

-----------------------------------------------------------------------------
ClientsInit ==
    /\ who \in {"cli", "ui", "doctor"}
    /\ choice \in IF who = "doctor" THEN TransportChoices ELSE {"dbus"}
    /\ owner = 0 /\ starts = 0 /\ fan = NeverPolled /\ polls = 0
    /\ fanOf = [i \in 1..MaxInstances |-> 0]
    /\ job = "idle" /\ pinned = 0
    /\ label = NoAnswer /\ value = NoAnswer /\ done = NotWritten /\ ended = "none"
    /\ check = {} /\ failed = FALSE /\ good = {}

ClientsNext ==
    \/ DaemonStarts \/ DaemonExits \/ PollSucceeds \/ PollFails
    \/ AskStatus \/ ReadProperty \/ PrintStatus \/ CallFails
    \/ AskWrite \/ CarriedOut \/ WriteAnswered
    \/ RunDoctor \/ FileCheck \/ ResolveService \/ ProbeDaemon \/ DoctorExits

ClientsSpec == ClientsInit /\ [][ClientsNext]_clientVars

-----------------------------------------------------------------------------
ClientsTypeOK ==
    /\ owner \in 0..MaxInstances /\ pinned \in 0..MaxInstances
    /\ fan \in [freshness : {"fresh", "stale", "unknown"}, poll : 0..MaxPolls]
    /\ job \in {"idle", "status", "doctor"} \cup DOMAIN Writes
    /\ ended \in {"none", "ok", "error", "dry", "failure"}
    /\ done \in [writes : 0..2, by : 0..MaxInstances]
    /\ label # NoAnswer => label \in [is : {"fresh", "stale", "unknown"}, from : 1..MaxInstances]
    /\ value # NoAnswer => value \in [is : 0..MaxPolls, from : 1..MaxInstances]
    /\ {check, good} \subseteq SUBSET Range(Checks \o DaemonChecks)
    /\ failed \in BOOLEAN

\* What the doctor shows as fresh is a reading the instance has taken.  What
\* clevo-cc shows as fresh is one too, or the daemon was started again between
\* the label and the reading.
FreshIsRead ==
    StatusRead /\ label.is = "fresh" /\ value.is < fanOf[value.from] =>
        who # "doctor" /\ (who = "cli" => label.from < value.from)

\* All a doctor knows of the daemon comes from one instance.
OneInstance ==
    who = "doctor" /\ pinned # 0 /\ label # NoAnswer =>
        label.from = pinned /\ (value # NoAnswer => value.from = pinned)

\* Exit status 0 means the selected transport can be used; a failure is never
\* due to what it can do without.
Verdict ==
    /\ ended = "failure" => Needed \ good # {}
    /\ who = "doctor" /\ ended = "ok" =>
         CASE choice = "dbus" -> {"dbus.service", "daemon.status", "daemon.capabilities"} \subseteq good
           [] choice = "mock" -> "transport" \in good
           [] OTHER           -> Range(HardwareChecks) \subseteq good

(* Whatever the daemon does while the doctor runs: all it shows of the daemon *)
(* is from one instance, a reading it shows as fresh has been taken and is    *)
(* not the zero of a daemon that has not polled, and its exit status speaks   *)
(* for the selected transport.  clevo-cc addresses the well-known name: it    *)
(* shows such a zero as fresh only if the daemon is started again between     *)
(* label and reading (status, dbus.rs:305; diagnostic_service, dbus.rs:104;   *)
(* probe_dbus and write, doctor.rs:270, 92).                                  *)
AnswersHold == FreshIsRead /\ OneInstance /\ Verdict
=============================================================================
