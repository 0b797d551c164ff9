---------------------------- MODULE Parts_proofs ----------------------------
(***************************************************************************)
(* Proofs about the parts that MCParts checks together: what the clients of *)
(* clevod are told, what the desktop UI keeps in files, what a read through *)
(* a transport says, and the types of all five parts.                       *)
(***************************************************************************)
EXTENDS MCParts, Keyboard_proofs, CurvePath_proofs

-----------------------------------------------------------------------------
(* Clients: the daemon as they see it.                                       *)

Freshnesses == {"fresh", "stale", "unknown"}

\* The instance on the bus is the one started last; what it shows as fresh it
\* has polled itself.
BusInv ==
    /\ starts \in 0..MaxInstances /\ polls \in 0..MaxPolls /\ owner \in {0, starts}
    /\ fan \in [freshness : Freshnesses, poll : 0..MaxPolls] /\ fan.poll <= polls
    /\ fanOf \in [1..MaxInstances -> 0..MaxPolls + 1]
    /\ owner # 0 => fanOf[owner] <= polls + 1
    /\ owner # 0 /\ fan.freshness # "unknown" => fan.poll >= fanOf[owner]

AnswersTyped ==
    /\ label # NoAnswer => label \in [is : Freshnesses, from : 1..MaxInstances]
    /\ value # NoAnswer => value \in [is : 0..MaxPolls, from : 1..MaxInstances]
    /\ label # NoAnswer => label.from <= starts
    /\ value # NoAnswer => value.from <= starts

\* clevo-cc and the doctor read the label first: while the instance that said
\* "fresh" is on the bus, its reading is one it has taken; a reading that is not
\* comes from an instance started since.
FreshInv ==
    who # "ui" =>
      /\ value # NoAnswer => label # NoAnswer
      /\ label # NoAnswer /\ label.is = "fresh" =>
           /\ label.from = owner => fan.poll >= fanOf[owner]
           /\ value # NoAnswer => value.is >= fanOf[value.from] \/ label.from < value.from

\* The doctor asks the daemon only once it has resolved the name.
PinnedInv ==
    who = "doctor" =>
      /\ pinned = 0 => label = NoAnswer /\ value = NoAnswer
      /\ "dbus.service" \notin check => pinned = 0
      /\ "dbus.service" \in check /\ pinned = 0 => Range(DaemonChecks) \subseteq check

\* What the verdict "ok" speaks for.
Vouched ==
    CASE choice = "dbus" -> {"dbus.service", "daemon.status", "daemon.capabilities"}
      [] choice = "mock" -> {"transport"}
      [] OTHER           -> Range(HardwareChecks)

\* A failure is that of a needed check; without one, no needed check that has
\* been carried out has failed.
ReportInv ==
    /\ good \subseteq check
    /\ failed => \E c \in Needed : c \in check \ good
    /\ ~failed => Vouched \cap check \subseteq good
    /\ ended = "failure" => failed
    /\ who = "doctor" /\ ended = "ok" => Vouched \subseteq good

JobsInv ==
    /\ who \in {"cli", "ui", "doctor"} /\ choice \in TransportChoices
    /\ job \in IF who = "doctor" THEN {"idle", "doctor"} ELSE {"idle", "status", "mode", "curve"}
    /\ who # "doctor" => ended # "failure"

ClientsInv == BusInv /\ AnswersTyped /\ FreshInv /\ OneInstance /\ PinnedInv /\ ReportInv /\ JobsInv

-----------------------------------------------------------------------------
(* The doctor's list.                                                        *)

SystemNames == {"kernel.release", "kernel.acpi", "kernel.headers", "dmi", "acpi.device",
                "modules", "driver.binding", "driver.files", "permissions", "driver.fans",
                "acpi_call", "keyboard", "power", "installation", "config.schema"}
DaemonNames   == {"daemon.status", "daemon.capabilities", "daemon.keyboard"}
HardwareNames == {"transport", "hardware.fan_status", "hardware.fan_curve", "hardware.capabilities"}

\* The doctor's lists, as sets of names.
LEMMA Names ==
  /\ Range(SystemChecks) = SystemNames
  /\ Range(BusChecks) = {"dbus.connection", "dbus.service"}
  /\ Range(DaemonChecks) = DaemonNames
  /\ Range(HardwareChecks) = HardwareNames
BY DEF Range, SystemChecks, BusChecks, DaemonChecks, HardwareChecks, SystemNames, DaemonNames,
       HardwareNames

AllNames == SystemNames \cup {"dbus.connection", "dbus.service"} \cup DaemonNames
            \cup HardwareNames

\* The doctor's lists, as sequences.
LEMMA ListLengths ==
  /\ SystemChecks \in Seq(AllNames) /\ Len(SystemChecks) = 15
  /\ BusChecks \in Seq(AllNames) /\ Len(BusChecks) = 2
  /\ BusChecks[1] = "dbus.connection" /\ BusChecks[2] = "dbus.service"
  /\ DaemonChecks \in Seq(AllNames) /\ Len(DaemonChecks) = 3
  /\ HardwareChecks \in Seq(AllNames) /\ Len(HardwareChecks) = 4
<1>1. Len(SystemChecks) = 15 /\ Len(BusChecks) = 2 /\ Len(DaemonChecks) = 3
      /\ Len(HardwareChecks) = 4
  BY DEF SystemChecks, BusChecks, DaemonChecks, HardwareChecks
<1>2. BusChecks[1] = "dbus.connection" /\ BusChecks[2] = "dbus.service"
  BY DEF BusChecks
<1>3. SystemChecks \in Seq(AllNames)
  BY DEF SystemChecks, AllNames, SystemNames
<1>4. /\ BusChecks \in Seq(AllNames) /\ DaemonChecks \in Seq(AllNames)
      /\ HardwareChecks \in Seq(AllNames)
  BY DEF BusChecks, DaemonChecks, HardwareChecks, AllNames, DaemonNames, HardwareNames
<1> QED BY <1>1, <1>2, <1>3, <1>4

\* What the doctor's list holds, and in which order.
LEMMA DoctorList ==
  ASSUME choice \in TransportChoices
  PROVE  /\ DOMAIN Checks \subseteq Nat
         /\ \A i \in DOMAIN Checks : Checks[i] \in Range(Checks)
         /\ Range(Checks) = IF choice = "mock" THEN {"transport"}
                            ELSE SystemNames \cup {"dbus.connection", "dbus.service"}
                                 \cup (IF choice = "dbus" THEN DaemonNames ELSE HardwareNames)
         /\ \A i \in DOMAIN Checks : Checks[i] \in DaemonNames =>
              \E j \in DOMAIN Checks : j < i /\ Checks[j] = "dbus.service"
<1>1. CASE choice = "mock"
  <2>1. Checks = <<"transport">>
    BY <1>1 DEF Checks
  <2>2. DOMAIN Checks = {1} /\ Range(Checks) = {"transport"} /\ Checks[1] \notin DaemonNames
    BY <2>1 DEF Range, DaemonNames
  <2>3. Checks[1] = "transport"
    BY <2>1
  <2> QED BY <1>1, <2>2, <2>3
<1>2. ASSUME NEW last \in {DaemonChecks, HardwareChecks},
             Checks = SystemChecks \o BusChecks \o last
      PROVE  /\ DOMAIN Checks = 1..17 + Len(last) /\ Len(last) \in Nat
             /\ Range(Checks) = SystemNames \cup {"dbus.connection", "dbus.service"} \cup Range(last)
             /\ Checks[17] = "dbus.service"
             /\ \A i \in 1..17 : Checks[i] \notin DaemonNames
  <2> DEFINE first == SystemChecks \o BusChecks
  <2>1. /\ first \in Seq(AllNames) /\ Len(first) = 17 /\ first[17] = BusChecks[2]
        /\ Range(first) = Range(SystemChecks) \cup Range(BusChecks)
    <3>1. Len(SystemChecks) = 15 /\ Len(BusChecks) = 2
      BY ListLengths
    <3>2. /\ first \in Seq(AllNames) /\ Len(first) = Len(SystemChecks) + Len(BusChecks)
          /\ \A i \in 1..Len(SystemChecks) + Len(BusChecks) :
               first[i] = IF i <= Len(SystemChecks) THEN SystemChecks[i]
                          ELSE BusChecks[i - Len(SystemChecks)]
      BY ListLengths, ConcatProperties
    <3>3. Range(first) = Range(SystemChecks) \cup Range(BusChecks)
      BY ListLengths, RangeConcatenation
    <3>4. first[17] = BusChecks[2]
      <4>1. 17 \in 1..15 + 2 /\ ~(17 <= 15) /\ 17 - 15 = 2
        OBVIOUS
      <4> HIDE DEF first
      <4> QED BY <3>1, <3>2, <4>1
    <3> HIDE DEF first
    <3> QED BY <3>1, <3>2, <3>3, <3>4
  <2>2. last \in Seq(AllNames) /\ Len(last) \in Nat
    BY ListLengths
  <2> HIDE DEF first
  <2>3. /\ first \o last \in Seq(AllNames) /\ Len(first \o last) = 17 + Len(last)
        /\ \A i \in 1..17 + Len(last) : (first \o last)[i] = IF i <= 17 THEN first[i] ELSE last[i - 17]
        /\ Range(first \o last) = Range(first) \cup Range(last)
    <3>1. /\ first \o last \in Seq(AllNames) /\ Len(first \o last) = Len(first) + Len(last)
          /\ \A i \in 1..Len(first) + Len(last) :
               (first \o last)[i] = IF i <= Len(first) THEN first[i] ELSE last[i - Len(first)]
      BY <2>1, <2>2, ConcatProperties
    <3>2. Range(first \o last) = Range(first) \cup Range(last)
      BY <2>1, <2>2, RangeConcatenation
    <3>3. Len(first) = 17
      BY <2>1
    <3>4. /\ Len(first \o last) = 17 + Len(last)
          /\ \A i \in 1..17 + Len(last) : (first \o last)[i] = IF i <= 17 THEN first[i] ELSE last[i - 17]
      BY ONLY <3>1, <3>3
    <3> QED BY <3>1, <3>2, <3>4
  <2>4. Checks = first \o last
    BY <1>2 DEF first
  <2>5. DOMAIN Checks = 1..17 + Len(last)
    BY <2>3, <2>4, LenProperties
  <2>6. Checks[17] = "dbus.service"
    <3>1. BusChecks[2] = "dbus.service" /\ 17 \in 1..17 + Len(last) /\ 17 <= 17
      BY <2>2, ListLengths
    <3> QED BY <2>1, <2>3, <2>4, <3>1
  <2>7. \A i \in 1..17 : Checks[i] \in Range(first)
    <3>1. \A i \in 1..17 : first[i] \in Range(first)
      BY <2>1, RangeEquality
    <3>2. \A i \in 1..17 : i \in 1..17 + Len(last) /\ i <= 17
      BY <2>2
    <3> QED BY <2>3, <2>4, <3>1, <3>2
  <2>8. \A n \in Range(first) : n \notin DaemonNames
    BY <2>1, Names DEF SystemNames, DaemonNames
  <2> QED BY <2>1, <2>2, <2>3, <2>4, <2>5, <2>6, <2>7, <2>8, Names
<1>3. CASE choice # "mock"
  <2> DEFINE last == IF choice = "dbus" THEN DaemonChecks ELSE HardwareChecks
  <2>1. Checks = SystemChecks \o BusChecks \o last
    BY <1>3 DEF Checks
  <2>2. last \in {DaemonChecks, HardwareChecks}
    OBVIOUS
  <2>3. Range(last) = IF choice = "dbus" THEN DaemonNames ELSE HardwareNames
    BY Names
  <2> HIDE DEF last
  <2>4. /\ DOMAIN Checks = 1..17 + Len(last) /\ Len(last) \in Nat
        /\ Range(Checks) = SystemNames \cup {"dbus.connection", "dbus.service"} \cup Range(last)
        /\ Checks[17] = "dbus.service"
        /\ \A i \in 1..17 : Checks[i] \notin DaemonNames
    BY <1>2, <2>1, <2>2
  <2>5. \A i \in DOMAIN Checks : Checks[i] \in Range(Checks)
    BY DEF Range
  <2>6. 17 \in DOMAIN Checks /\ \A i \in DOMAIN Checks : i <= 17 \/ 17 < i
    BY <2>4
  <2>7. \A i \in DOMAIN Checks : Checks[i] \in DaemonNames =>
          \E j \in DOMAIN Checks : j < i /\ Checks[j] = "dbus.service"
    BY <2>4, <2>6
  <2> QED BY <1>3, <2>3, <2>4, <2>5, <2>7
<1> QED BY <1>1, <1>3

\* The check that is next is one of the list, not yet carried out; what comes
\* before it has been.
LEMMA NextOfList ==
  ASSUME choice \in TransportChoices, Todo # {}
  PROVE  /\ NextCheck \in Range(Checks) /\ NextCheck \notin check
         /\ NextCheck \in DaemonNames => "dbus.service" \in check
<1>1. Todo \in SUBSET Nat /\ Todo \subseteq DOMAIN Checks
  BY DoctorList DEF Todo
<1>2. Min(Todo) \in Todo /\ \A i \in Todo : Min(Todo) <= i
  BY <1>1, MinOfNaturals
<1>3. NextCheck \in Range(Checks) /\ NextCheck \notin check
  BY <1>1, <1>2, DoctorList DEF NextCheck, Todo
<1>4. ASSUME NextCheck \in DaemonNames PROVE "dbus.service" \in check
  <2>1. PICK j \in DOMAIN Checks : j < Min(Todo) /\ Checks[j] = "dbus.service"
    BY <1>1, <1>2, <1>4, DoctorList DEF NextCheck
  <2>2. j \notin Todo
    <3>1. j \in Nat /\ Min(Todo) \in Nat
      BY <1>1, <1>2, <2>1, DoctorList
    <3>2. j \in Todo => Min(Todo) <= j
      BY <1>2
    <3> QED BY <2>1, <3>1, <3>2
  <2> QED BY <2>1, <2>2 DEF Todo
<1> QED BY <1>3, <1>4

\* Only a needed check that has not found what it looked for fails the report.
LEMMA FailsNeeded ==
  ASSUME choice \in TransportChoices, NEW c \in Range(Checks), NEW found, Fails(c, found)
  PROVE  found # "good" /\ c \in Needed
<1>1. c \in {"dbus.connection", "dbus.service"} /\ choice = "dbus" => c \in Needed
  BY Names DEF Needed
<1>2. c \in HardwareNames \cup {"daemon.status", "daemon.capabilities"} => c \in Needed
  <2>1. c \in HardwareNames =>
          choice \in {"driver", "acpi-call"} \/ (c = "transport" /\ choice = "mock")
    <3>1. CASE choice = "mock"
      <4>1. c = "transport"
        BY <3>1, DoctorList
      <4> QED BY <3>1, <4>1
    <3>2. CASE choice = "dbus"
      <4>1. c \in SystemNames \cup {"dbus.connection", "dbus.service"} \cup DaemonNames
        BY <3>2, DoctorList
      <4> QED BY <4>1 DEF SystemNames, DaemonNames, HardwareNames
    <3> QED BY <3>1, <3>2 DEF TransportChoices
  <2>2. c \in {"daemon.status", "daemon.capabilities"} => choice = "dbus"
    BY DoctorList DEF TransportChoices, SystemNames, DaemonNames, HardwareNames
  <2> QED BY <2>1, <2>2, Names DEF Needed, HardwareNames
<1>3. c \in {"kernel.acpi", "config.schema"} => c \in Needed
  <2>1. choice = "mock" => "kernel.acpi" \notin Range(Checks) /\ "config.schema" \notin Range(Checks)
    BY DoctorList
  <2> QED BY <2>1 DEF Needed, Fitting
<1>4. c \in DriverChecks /\ choice = "driver" => c \in Needed
  BY DEF Needed
<1>5. c = "acpi_call" /\ choice = "acpi-call" => c \in Needed
  BY DEF Needed
<1> QED BY <1>1, <1>2, <1>3, <1>4, <1>5, Names DEF Fails

\* What the verdict speaks for fails it, found wrong or not looked at.
LEMMA VouchedFails ==
  ASSUME choice \in TransportChoices, NEW c, NEW found, found # "good",
         Vouched \cap ({c} \cup Hidden(c)) # {}
  PROVE  Fails(c, found)
<1>1. CASE choice = "dbus"
  <2>1. Vouched = {"dbus.service", "daemon.status", "daemon.capabilities"}
    BY <1>1 DEF Vouched
  <2>2. CASE c \in {"dbus.connection", "dbus.service"}
    BY <1>1, <2>2, Names DEF Fails
  <2>3. CASE c \notin {"dbus.connection", "dbus.service"}
    <3>1. Hidden(c) \cap Vouched = {}
      BY <2>1, <2>3 DEF Hidden
    <3>2. c \in {"daemon.status", "daemon.capabilities"}
      BY <2>1, <2>3, <3>1
    <3> QED BY <3>2 DEF Fails
  <2> QED BY <2>2, <2>3
<1>2. CASE choice \in {"driver", "acpi-call"}
  <2>1. Vouched = HardwareNames
    BY <1>2, Names DEF Vouched
  <2>2. Hidden(c) \cap HardwareNames = {}
    BY Names DEF Hidden, DaemonNames, HardwareNames
  <2>3. c \in Range(HardwareChecks)
    BY <2>1, <2>2, Names
  <2> QED BY <2>3 DEF Fails
<1>3. CASE choice = "mock"
  <2>1. "transport" \notin Hidden(c)
    BY Names DEF Hidden, DaemonNames
  <2>2. c = "transport" /\ c \in Range(HardwareChecks)
    BY <1>3, <2>1, Names DEF Vouched, HardwareNames
  <2> QED BY <2>2 DEF Fails
<1> QED BY <1>1, <1>2, <1>3 DEF TransportChoices

\* The verdict speaks for checks that are needed and listed.
LEMMA VouchedNeeded ==
  ASSUME choice \in TransportChoices
  PROVE  Vouched \subseteq Needed /\ Vouched \subseteq Range(Checks)
<1>1. Vouched \subseteq Needed
  BY Names DEF Vouched, Needed, Fitting, TransportChoices
<1>2. Vouched \subseteq Range(Checks)
  BY DoctorList, Names DEF Vouched, TransportChoices, DaemonNames
<1> QED BY <1>1, <1>2

\* A check's result is counted for or against the transport.
LEMMA ReportKeeps ==
  ASSUME choice \in TransportChoices, ReportInv, NEW c \in Range(Checks), c \notin check,
         NEW found, Report(c, found)
  PROVE  /\ good' \subseteq check' /\ check \subseteq check' /\ good \subseteq good'
         /\ failed' => \E n \in Needed : n \in check' \ good'
         /\ ~failed' => Vouched \cap check' \subseteq good'
         /\ failed => failed'
<1>1. good \subseteq check /\ c \notin good
  BY DEF ReportInv
<1>2. CASE found = "good"
  <2>1. check' = check \cup {c} /\ good' = good \cup ({c} \cap Needed)
    BY <1>2 DEF Report
  <2>2. ~Fails(c, found)
    BY <1>2, FailsNeeded
  <2>3. failed' <=> failed
    BY <2>2 DEF Report
  <2> QED BY <1>1, <2>1, <2>3, VouchedNeeded DEF ReportInv
<1>3. CASE found # "good"
  <2>1. check' = check \cup {c} \cup Hidden(c) /\ good' = good
    BY <1>3 DEF Report
  <2>2. failed' <=> failed \/ Fails(c, found)
    BY DEF Report
  <2>3. CASE Fails(c, found)
    <3>1. c \in Needed /\ c \in check' \ good'
      BY <1>1, <2>1, <2>3, FailsNeeded
    <3> QED BY <1>1, <2>1, <2>2, <2>3, <3>1
  <2>4. CASE ~Fails(c, found)
    <3>1. Vouched \cap ({c} \cup Hidden(c)) = {}
      BY <1>3, <2>4, VouchedFails
    <3>2. Vouched \cap check' \subseteq check
      BY <2>1, <3>1
    <3> QED BY <1>1, <2>1, <2>2, <2>4, <3>2 DEF ReportInv
  <2> QED BY <2>3, <2>4
<1> QED BY <1>2, <1>3

-----------------------------------------------------------------------------
(* Every step of the daemon and of its clients keeps the invariant.          *)

\* No instance has started and nothing was asked.
LEMMA ClientsInitially == ClientsInit => ClientsInv
BY ClientsBounded
   DEF ClientsInit, NeverPolled, ClientsInv, BusInv, AnswersTyped, FreshInv, OneInstance,
       PinnedInv, ReportInv, JobsInv, Vouched, Freshnesses, TransportChoices

\* Steps that check nothing keep the report.
LEMMA ReportKept ==
  ASSUME ReportInv, UNCHANGED <<who, choice, check, failed, good>>,
         ended' = "failure" => ended = "failure" \/ failed,
         who = "doctor" /\ ended' = "ok" => ended = "ok" \/ Vouched \subseteq good
  PROVE  ReportInv'
<1>1. Vouched' = Vouched /\ Needed' = Needed
  BY DEF Vouched, Needed, Fitting
<1> QED BY <1>1 DEF ReportInv

\* The daemon starts, exits and polls.
LEMMA DaemonSteps ==
  ASSUME ClientsInv, DaemonStarts \/ DaemonExits \/ PollSucceeds \/ PollFails
  PROVE  ClientsInv'
<1>1. UNCHANGED <<who, choice, job, label, value, done, ended, pinned, check, failed, good>>
  BY DEF DaemonStarts, DaemonExits, PollSucceeds, PollFails, doctor
<1>2. OneInstance' /\ PinnedInv' /\ JobsInv' /\ ReportInv'
  BY <1>1, ReportKept DEF ClientsInv, OneInstance, PinnedInv, JobsInv
<1>3. CASE DaemonStarts
  <2>1. /\ owner = 0 /\ starts < MaxInstances /\ starts' = starts + 1 /\ owner' = starts + 1
        /\ fan' = NeverPolled /\ polls' = polls
        /\ fanOf' = [fanOf EXCEPT ![starts + 1] = polls + 1]
    BY <1>3 DEF DaemonStarts
  <2>2. starts + 1 \in 1..MaxInstances /\ polls + 1 \in 0..MaxPolls + 1
    BY <2>1, ClientsBounded DEF ClientsInv, BusInv
  <2>3. fanOf'[starts + 1] = polls + 1 /\ \A i \in 1..starts : fanOf'[i] = fanOf[i]
    BY <2>1, <2>2, ClientsBounded DEF ClientsInv, BusInv
  <2>4. BusInv'
    BY <2>1, <2>2, <2>3, ClientsBounded DEF ClientsInv, BusInv, NeverPolled, Freshnesses
  <2>5. AnswersTyped'
    BY <1>1, <2>1, <2>2, ClientsBounded DEF ClientsInv, BusInv, AnswersTyped
  <2>6. FreshInv'
    BY <1>1, <2>1, <2>3, ClientsBounded DEF ClientsInv, BusInv, AnswersTyped, FreshInv
  <2> QED BY <1>2, <2>4, <2>5, <2>6 DEF ClientsInv
<1>4. CASE DaemonExits
  <2>1. owner' = 0 /\ UNCHANGED <<starts, fan, polls, fanOf>>
    BY <1>4 DEF DaemonExits
  <2>2. BusInv' /\ AnswersTyped'
    BY <1>1, <2>1 DEF ClientsInv, BusInv, AnswersTyped
  <2>3. FreshInv'
    BY <1>1, <2>1 DEF ClientsInv, AnswersTyped, FreshInv
  <2> QED BY <1>2, <2>2, <2>3 DEF ClientsInv
<1>5. CASE PollSucceeds
  <2>1. /\ owner # 0 /\ polls < MaxPolls /\ polls' = polls + 1
        /\ fan' = [freshness |-> "fresh", poll |-> polls + 1]
        /\ UNCHANGED <<owner, starts, fanOf>>
    BY <1>5 DEF PollSucceeds
  <2>2. BusInv' /\ AnswersTyped'
    BY <1>1, <2>1, ClientsBounded DEF ClientsInv, BusInv, AnswersTyped, Freshnesses
  <2>3. FreshInv'
    BY <1>1, <2>1, ClientsBounded DEF ClientsInv, BusInv, AnswersTyped, FreshInv
  <2> QED BY <1>2, <2>2, <2>3 DEF ClientsInv
<1>6. CASE PollFails
  <2>1. /\ fan' = [fan EXCEPT !.freshness = IF @ = "fresh" THEN "stale" ELSE "unknown"]
        /\ UNCHANGED <<owner, starts, polls, fanOf>>
    BY <1>6 DEF PollFails
  <2>2. fan'.poll = fan.poll /\ fan' \in [freshness : Freshnesses, poll : 0..MaxPolls]
        /\ (fan'.freshness # "unknown" => fan.freshness = "fresh")
    BY <2>1 DEF ClientsInv, BusInv, Freshnesses
  <2>3. BusInv' /\ AnswersTyped'
    BY <1>1, <2>1, <2>2 DEF ClientsInv, BusInv, AnswersTyped
  <2>4. FreshInv'
    BY <1>1, <2>1, <2>2 DEF ClientsInv, FreshInv
  <2> QED BY <1>2, <2>3, <2>4 DEF ClientsInv
<1> QED BY <1>3, <1>4, <1>5, <1>6

\* One more property of a status, from the instance that is on the bus.
LEMMA ReadSteps ==
  ASSUME ClientsInv, ~StatusRead, Reached, Read(NextProperty), who = "doctor" => pinned # 0,
         UNCHANGED <<who, owner, starts, fan, polls, fanOf, pinned, check>>
  PROVE  AnswersTyped' /\ FreshInv' /\ OneInstance' /\ PinnedInv'
<1>1. owner # 0 /\ owner = starts /\ owner \in 1..MaxInstances /\ pinned \in {0, owner}
  BY ClientsBounded DEF Reached, ClientsInv, BusInv
<1>2. \/ label' = [is |-> fan.freshness, from |-> owner] /\ value' = value
         /\ (who # "ui" => value = NoAnswer)
      \/ value' = [is |-> fan.poll, from |-> owner] /\ label' = label
         /\ (who # "ui" => label # NoAnswer)
  BY DEF Read, NextProperty, Order, StatusRead, ClientsInv, FreshInv
<1>3. AnswersTyped'
  BY <1>1, <1>2 DEF ClientsInv, BusInv, AnswersTyped
<1>4. FreshInv'
  <2>1. CASE label' = [is |-> fan.freshness, from |-> owner] /\ value' = value
    BY <1>1, <1>2, <2>1 DEF ClientsInv, BusInv, FreshInv
  <2>2. CASE /\ value' = [is |-> fan.poll, from |-> owner] /\ label' = label
             /\ who # "ui" /\ label # NoAnswer
    <3>1. label # NoAnswer /\ label.from \in 1..starts
      BY <2>2 DEF ClientsInv, AnswersTyped, BusInv
    <3>2. label.is = "fresh" /\ label.from = owner => fan.poll >= fanOf[owner]
      BY <2>2, <3>1 DEF ClientsInv, FreshInv
    <3>3. label.from = owner \/ label.from < owner
      BY <1>1, <3>1 DEF ClientsInv, BusInv
    <3>4. value'.is = fan.poll /\ value'.from = owner
      BY <2>2
    <3> QED BY <2>2, <3>1, <3>2, <3>3, <3>4 DEF FreshInv
  <2> QED BY <1>2, <2>1, <2>2 DEF FreshInv
<1>5. OneInstance'
  BY <1>1, <1>2 DEF ClientsInv, OneInstance
<1>6. PinnedInv'
  BY <1>1, <1>2 DEF ClientsInv, PinnedInv
<1> QED BY <1>3, <1>4, <1>5, <1>6

\* clevo-cc or the UI reads a status, property by property.
LEMMA StatusSteps ==
  ASSUME ClientsInv, AskStatus \/ ReadProperty \/ PrintStatus \/ CallFails
  PROVE  ClientsInv'
<1>1. /\ UNCHANGED <<who, choice, owner, starts, fan, polls, fanOf, done, pinned, check, failed,
                     good>>
      /\ who # "doctor"
  BY DEF AskStatus, ReadProperty, PrintStatus, CallFails, Writes, bus, doctor, ClientsInv, JobsInv
<1>2. BusInv'
  BY <1>1 DEF ClientsInv, BusInv
<1>3. JobsInv' /\ ended' # "failure"
  BY <1>1 DEF AskStatus, ReadProperty, PrintStatus, CallFails, Finish, ClientsInv, JobsInv
<1>4. ReportInv'
  BY <1>1, <1>3, ReportKept DEF ClientsInv
<1>5. AnswersTyped' /\ FreshInv' /\ OneInstance' /\ PinnedInv'
  <2>1. CASE AskStatus
    BY <1>1, <2>1 DEF AskStatus, AnswersTyped, FreshInv, OneInstance, PinnedInv
  <2>2. CASE ReadProperty
    BY <1>1, <2>2, ReadSteps DEF ReadProperty
  <2>3. CASE PrintStatus \/ CallFails
    <3>1. label' = label /\ value' = value
      BY <2>3 DEF PrintStatus, CallFails
    <3> QED BY <1>1, <3>1 DEF ClientsInv, AnswersTyped, FreshInv, OneInstance, PinnedInv
  <2> QED BY <2>1, <2>2, <2>3
<1> QED BY <1>2, <1>3, <1>4, <1>5 DEF ClientsInv

\* clevo-cc or the UI has something set.
LEMMA WriteSteps ==
  ASSUME ClientsInv, AskWrite \/ CarriedOut \/ WriteAnswered
  PROVE  ClientsInv'
<1>1. /\ UNCHANGED <<who, choice, owner, starts, fan, polls, fanOf, label, value, pinned, check,
                     failed, good>>
      /\ who # "doctor"
  BY DEF AskWrite, CarriedOut, WriteAnswered, Writes, bus, doctor, ClientsInv, JobsInv
<1>2. BusInv' /\ AnswersTyped' /\ FreshInv' /\ OneInstance' /\ PinnedInv'
  BY <1>1 DEF ClientsInv, BusInv, AnswersTyped, FreshInv, OneInstance, PinnedInv
<1>3. JobsInv' /\ ended' # "failure"
  BY <1>1 DEF AskWrite, CarriedOut, WriteAnswered, Finish, Writes, ClientsInv, JobsInv
<1>4. ReportInv'
  BY <1>1, <1>3, ReportKept DEF ClientsInv
<1> QED BY <1>2, <1>3, <1>4 DEF ClientsInv

\* A check of the doctor is carried out; the name is resolved by the one check
\* that is there for it.
LEMMA ReportSteps ==
  ASSUME ClientsInv, job = "doctor", Todo # {}, NEW found, Report(NextCheck, found),
         UNCHANGED <<who, choice, bus, job, label, value, done, ended>>,
         pinned' = pinned \/ (NextCheck = "dbus.service" /\ owner # 0 /\ pinned' = owner),
         NextCheck = "dbus.service" /\ pinned' = 0 => found # "good"
  PROVE  ClientsInv'
<1>1. /\ choice \in TransportChoices /\ NextCheck \in Range(Checks) /\ NextCheck \notin check
      /\ who' = who /\ choice' = choice /\ ended' = ended
      /\ owner' = owner /\ starts' = starts /\ fan' = fan /\ polls' = polls /\ fanOf' = fanOf
      /\ label' = label /\ value' = value /\ job' = job /\ done' = done
  BY NextOfList DEF bus, ClientsInv, JobsInv
<1>2. BusInv' /\ AnswersTyped' /\ FreshInv' /\ JobsInv'
  BY <1>1 DEF ClientsInv, BusInv, AnswersTyped, FreshInv, JobsInv
<1>3. ReportInv'
  <2>1. Vouched' = Vouched /\ Needed' = Needed
    BY <1>1 DEF Vouched, Needed, Fitting
  <2>2. ReportInv
    BY DEF ClientsInv
  <2>3. /\ good' \subseteq check' /\ check \subseteq check' /\ good \subseteq good'
        /\ failed' => \E n \in Needed : n \in check' \ good'
        /\ ~failed' => Vouched \cap check' \subseteq good'
        /\ failed => failed'
    BY <1>1, <2>2, ReportKeeps
  <2> QED BY <1>1, <2>1, <2>2, <2>3 DEF ReportInv
<1>4. PinnedInv' /\ OneInstance'
  <2>1. NextCheck = "dbus.service" => pinned = 0 /\ label = NoAnswer /\ value = NoAnswer
    <3>1. who = "doctor"
      BY DEF ClientsInv, JobsInv
    <3> QED BY <1>1, <3>1 DEF ClientsInv, PinnedInv
  <2>2. OneInstance'
    BY <1>1, <2>1 DEF ClientsInv, OneInstance
  <2>3. check' = check \cup {NextCheck} \cup (IF found = "good" THEN {} ELSE Hidden(NextCheck))
    BY DEF Report
  <2>4. /\ pinned' = 0 => pinned = 0
        /\ "dbus.service" \notin check' => pinned' = 0
    BY <1>1, <2>1, <2>3 DEF ClientsInv, PinnedInv, JobsInv
  <2>5. ASSUME "dbus.service" \in check', pinned' = 0
        PROVE  Range(DaemonChecks) \subseteq check'
    <3>1. CASE "dbus.service" \in check
      BY <2>3, <2>4, <2>5, <3>1 DEF ClientsInv, PinnedInv, JobsInv
    <3>2. CASE NextCheck = "dbus.service"
      <4>1. Hidden(NextCheck) = Range(DaemonChecks)
        BY <3>2 DEF Hidden
      <4> QED BY <2>3, <2>5, <3>2, <4>1
    <3>3. CASE "dbus.service" \in Hidden(NextCheck) /\ found # "good"
      <4>1. NextCheck # "kernel.release"
        BY <3>3 DEF Hidden
      <4>2. Range(DaemonChecks) \subseteq Hidden(NextCheck)
        BY <3>3, <4>1 DEF Hidden
      <4> QED BY <2>3, <3>3, <4>2
    <3> QED BY <2>3, <2>5, <3>1, <3>2, <3>3
  <2>6. PinnedInv'
    BY <1>1, <2>4, <2>5 DEF ClientsInv, PinnedInv, JobsInv
  <2> QED BY <2>2, <2>6
<1> QED BY <1>2, <1>3, <1>4 DEF ClientsInv

\* The doctor goes through its list.
LEMMA DoctorSteps ==
  ASSUME ClientsInv, RunDoctor \/ FileCheck \/ ResolveService \/ ProbeDaemon \/ DoctorExits
  PROVE  ClientsInv'
<1>1. CASE RunDoctor
  <2>1. /\ who = "doctor" /\ job' = "doctor" /\ ended' = "none"
        /\ check' = {} /\ ~failed' /\ good' = {} /\ pinned' = 0
        /\ label' = NoAnswer /\ value' = NoAnswer
        /\ UNCHANGED <<who, choice, owner, starts, fan, polls, fanOf, done>>
    BY <1>1 DEF RunDoctor, bus
  <2>2. BusInv' /\ AnswersTyped' /\ FreshInv' /\ JobsInv'
    BY <2>1 DEF ClientsInv, BusInv, AnswersTyped, FreshInv, JobsInv
  <2>3. OneInstance' /\ PinnedInv' /\ ReportInv'
    BY <2>1 DEF OneInstance, PinnedInv, ReportInv
  <2> QED BY <2>2, <2>3 DEF ClientsInv
<1>2. CASE FileCheck
  <2>1. PICK found \in Findings(NextCheck) : Report(NextCheck, found)
    BY <1>2 DEF FileCheck
  <2> QED BY <1>2, <2>1, ReportSteps DEF FileCheck
<1>3. CASE ResolveService
  <2>1. CASE owner # 0 /\ pinned' = owner /\ Report("dbus.service", "good")
    BY <1>3, <2>1, ReportSteps DEF ResolveService
  <2>2. CASE Report("dbus.service", "missing") /\ UNCHANGED pinned
    BY <1>3, <2>2, ReportSteps DEF ResolveService
  <2> QED BY <1>3, <2>1, <2>2 DEF ResolveService
<1>4. CASE ProbeDaemon
  <2>1. /\ job = "doctor" /\ Todo # {} /\ NextCheck \in Range(DaemonChecks)
        /\ UNCHANGED <<who, choice, bus, job, pinned, done, ended>>
    BY <1>4 DEF ProbeDaemon
  <2>2. NextCheck # "dbus.service"
    BY <2>1, Names DEF DaemonNames
  <2>3. ASSUME NEW found, Report(NextCheck, found), UNCHANGED <<label, value>>
        PROVE  ClientsInv'
    BY <2>1, <2>2, <2>3, ReportSteps
  <2>4. CASE Reached /\ ~StatusRead /\ Read(NextProperty) /\ UNCHANGED <<check, failed, good>>
    <3>1. /\ who = "doctor" /\ choice \in TransportChoices
          /\ UNCHANGED <<who, choice, owner, starts, fan, polls, fanOf, pinned, job, done, ended>>
      BY <2>1 DEF ClientsInv, JobsInv, bus
    <3>2. "dbus.service" \in check /\ NextCheck \notin check
      BY <2>1, <3>1, NextOfList, Names
    <3>3. pinned # 0
      BY <2>1, <3>1, <3>2 DEF ClientsInv, PinnedInv
    <3>4. AnswersTyped' /\ FreshInv' /\ OneInstance' /\ PinnedInv'
      BY <2>4, <3>1, <3>3, ReadSteps
    <3>5. BusInv' /\ JobsInv'
      BY <3>1 DEF ClientsInv, BusInv, JobsInv
    <3>6. ReportInv'
      BY <2>4, <3>1, ReportKept DEF ClientsInv
    <3> QED BY <3>4, <3>5, <3>6 DEF ClientsInv
  <2> QED BY <1>4, <2>3, <2>4 DEF ProbeDaemon
<1>5. CASE DoctorExits
  <2>1. /\ job = "doctor" /\ Todo = {} /\ job' = "idle"
        /\ ended' = IF failed THEN "failure" ELSE "ok"
        /\ UNCHANGED <<who, choice, owner, starts, fan, polls, fanOf, label, value, done, pinned,
                       check, failed, good>>
    BY <1>5 DEF DoctorExits, Finish, bus, doctor
  <2>2. who = "doctor"
    BY <2>1 DEF ClientsInv, JobsInv
  <2>3. BusInv' /\ AnswersTyped' /\ FreshInv' /\ OneInstance' /\ PinnedInv' /\ JobsInv'
    BY <2>1, <2>2 DEF ClientsInv, BusInv, AnswersTyped, FreshInv, OneInstance, PinnedInv, JobsInv
  <2>4. ~failed => Vouched \subseteq good
    <3>1. Range(Checks) \subseteq check
      BY <2>1 DEF Todo, Range
    <3> QED BY <3>1, VouchedNeeded DEF ClientsInv, ReportInv, JobsInv
  <2>5. ReportInv'
    BY <2>1, <2>4, ReportKept DEF ClientsInv
  <2> QED BY <2>3, <2>5 DEF ClientsInv
<1> QED BY <1>1, <1>2, <1>3, <1>4, <1>5

\* What the clients are told follows from the invariant.
LEMMA ClientsAnswered == ClientsInv => AnswersHold
<1> SUFFICES ASSUME ClientsInv PROVE AnswersHold
  OBVIOUS
<1>1. FreshIsRead
  <2> SUFFICES ASSUME StatusRead, label.is = "fresh", value.is < fanOf[value.from]
               PROVE  who # "doctor" /\ (who = "cli" => label.from < value.from)
    BY DEF FreshIsRead
  <2>1. /\ label # NoAnswer /\ value # NoAnswer /\ value.is \in 0..MaxPolls
        /\ value.from \in 1..MaxInstances /\ label.from \in 1..MaxInstances
        /\ fanOf \in [1..MaxInstances -> 0..MaxPolls + 1]
    BY DEF StatusRead, ClientsInv, AnswersTyped, BusInv
  <2>2. ~(value.is >= fanOf[value.from])
    <3>1. fanOf[value.from] \in 0..MaxPolls + 1
      BY <2>1
    <3> QED BY <2>1, <3>1, ClientsBounded
  <2>3. who # "ui" => label.from < value.from
    BY <2>1, <2>2 DEF ClientsInv, FreshInv
  <2>4. who = "doctor" => label.from = value.from
    BY <2>1 DEF ClientsInv, PinnedInv, OneInstance
  <2> QED BY <2>1, <2>3, <2>4
<1>2. Verdict
  <2>1. ended = "failure" => Needed \ good # {}
    BY DEF ClientsInv, ReportInv
  <2>2. who = "doctor" /\ ended = "ok" => Vouched \subseteq good
    BY DEF ClientsInv, ReportInv
  <2> QED BY <2>1, <2>2 DEF Verdict, Vouched, ClientsInv, JobsInv, TransportChoices
<1>3. OneInstance
  BY DEF ClientsInv
<1> QED BY <1>1, <1>2, <1>3 DEF AnswersHold

\* Every step keeps the invariant.
LEMMA ClientsSteps == ClientsInv /\ [ClientsNext]_clientVars => ClientsInv'
<1> SUFFICES ASSUME ClientsInv, [ClientsNext]_clientVars PROVE ClientsInv'
  OBVIOUS
<1>1. CASE UNCHANGED clientVars
  <2>1. UNCHANGED <<who, choice, owner, starts, fan, polls, fanOf, job, pinned, label, value,
                    done, ended, check, failed, good>>
    BY <1>1 DEF clientVars
  <2>2. ReportInv'
    BY <2>1, ReportKept DEF ClientsInv
  <2> QED BY <2>1, <2>2
          DEF ClientsInv, BusInv, AnswersTyped, FreshInv, OneInstance, PinnedInv, JobsInv
<1>2. CASE ClientsNext
  BY <1>2, DaemonSteps, StatusSteps, WriteSteps, DoctorSteps DEF ClientsNext
<1> QED BY <1>1, <1>2

(* Whatever the daemon does -- exit, start, poll, fail to poll or to answer --  *)
(* between any two calls: what the doctor shows comes from one instance, a    *)
(* reading it shows as fresh has been taken by that instance, and its exit    *)
(* status speaks for the transport that was asked for.  clevo-cc shows as     *)
(* fresh a reading that was never taken only if the daemon was started again  *)
(* between its reading the label and the value (diagnostic_service,           *)
(* dbus.rs:104; status, dbus.rs:305; write, doctor.rs:92).                    *)
THEOREM AnswersAreTrue == ClientsSpec => []AnswersHold
<1> QED BY ClientsInitially, ClientsSteps, ClientsAnswered, PTL DEF ClientsSpec

-----------------------------------------------------------------------------
(* The desktop UI's files.                                                   *)

Stages == {"idle", "remove", "fill", "clear", "scan", "prefs", "prefs fill", "entry",
           "entry fill", "rename", "compare"}
Jiffies == [idle : Nat, total : Nat]

\* What a request holds is what its stage needs.
Holds(r) ==
    /\ stage[r] \in {"remove", "fill"} =>
         payload[r] \in [image : Images, ext : Exts]
    /\ stage[r] \in {"prefs", "prefs fill"} => payload[r] \in Backends
    /\ stage[r] \in {"entry", "entry fill", "rename"} => payload[r] \in {"enabled", "hidden"}
    /\ stage[r] = "rename" => temp[r] = payload[r]
    /\ stage[r] = "compare" => sample[r] # None

FilesTyped ==
    /\ images \in [Exts -> Images \cup {None, Torn}]
    /\ prefs \in Backends \cup {None, Torn}
    /\ launchedAs \in Backends \cup {"auto", None}
    /\ entry \in {"enabled", "hidden", None}
    /\ invoked \in 0..MaxInvoked /\ served \in BOOLEAN /\ calm \in BOOLEAN
    /\ stage \in [Requests -> Stages]
    /\ left \in [Requests -> Seq(KnownExts)]
    /\ \A r \in Requests : Len(left[r]) <= Len(ExtOrder)
    /\ DOMAIN payload = Requests /\ DOMAIN temp = Requests
    /\ \A r \in Requests : Holds(r)

\* While nothing has disturbed the last request for the wallpaper: what it has
\* still to remove, and afterwards one file among those tried, the one it saved.
Wallpaper ==
    calm =>
      /\ \A r, o \in Requests : stage[r] \in Changing /\ stage[o] \in Changing => r = o
      /\ \A r \in Requests :
           /\ stage[r] \in {"remove", "clear"} =>
                \A e \in KnownExts : images[e] # None => e \in Range(left[r])
           /\ stage[r] = "fill" =>
                /\ \A e \in KnownExts \ {payload[r].ext} : images[e] = None
                /\ images[payload[r].ext] # None
      /\ (\A r \in Requests : stage[r] \notin Changing) =>
           /\ \A e \in KnownExts : images[e] \in {None, Found}
           /\ Found # None => \E e \in KnownExts : images[e] = Found

\* The CPU samples somebody may still compare.
Live == {jiffies} \cup (({previous} \cup {sample[r] : r \in Requests}) \ {None})

SharesKnown ==
    /\ jiffies \in Jiffies /\ sample \in [Requests -> Jiffies \cup {None}]
    /\ previous \in Jiffies \cup {None}
    /\ \A s \in Live : s.total <= jiffies.total
    /\ 0 \in shares /\ shares \subseteq 0..100 /\ percent \in shares
    /\ \A s, t \in Live : Share(s, t) \in shares

UiInv == FilesTyped /\ Wallpaper /\ SharesKnown

\* A share is a percentage, and 0 unless time has passed.
LEMMA ShareBounds ==
  ASSUME NEW s \in Jiffies, NEW t \in Jiffies
  PROVE  Share(s, t) \in 0..100 /\ (t.total <= s.total => Share(s, t) = 0)
<1> DEFINE total == AtLeast0(t.total - s.total)
           idle  == AtLeast0(t.idle - s.idle)
           part  == AtLeast0(total - idle)
<1>1. total \in Nat /\ idle \in Nat /\ part \in Nat /\ part <= total
      /\ (t.total <= s.total => total = 0)
  BY DEF Jiffies, AtLeast0
<1>2. Share(s, t) = IF total = 0 THEN 0 ELSE (part * 100) \div total
  BY DEF Share
<1> HIDE DEF total, idle, part
<1>3. ASSUME NEW n \in Nat, NEW d \in Nat, d > 0, n <= d
      PROVE  (n * 100) \div d \in 0..100
  <2>1. ASSUME NEW q \in Int, q * d <= n * 100, n * 100 < (q + 1) * d
        PROVE  q \in 0..100
    <3>1. q >= 0
      <4>1. ASSUME q + 1 <= 0 PROVE (q + 1) * d <= 0
        BY <1>3, <4>1
      <4> QED BY <1>3, <2>1, <4>1
    <3>2. q <= 100
      <4>1. ASSUME q >= 101 PROVE q * d >= 101 * d
        BY <1>3, <4>1
      <4> QED BY <1>3, <2>1, <4>1
    <3> QED BY <3>1, <3>2
  <2>2. /\ (n * 100) \div d \in Int
        /\ ((n * 100) \div d) * d <= n * 100
        /\ n * 100 < ((n * 100) \div d + 1) * d
    BY <1>3
  <2> QED BY <2>1, <2>2
<1> QED BY <1>1, <1>2, <1>3

\* Steps that take no CPU sample keep what is known of the shares.
LEMMA SharesUnmoved ==
  ASSUME SharesKnown, UNCHANGED usage
  PROVE  SharesKnown'
<1>1. UNCHANGED <<sample, previous, jiffies, shares, percent>>
  BY DEF usage
<1>2. Live' = Live
  BY <1>1 DEF Live
<1> QED BY <1>1, <1>2 DEF SharesKnown

\* A request takes its sample; it is compared with the one before; time passes.
LEMMA SharesMove ==
  ASSUME SharesKnown, FilesTyped,
         \/ Tick
         \/ \E r \in Requests : InvokeUsage(r) \/ CompareSample(r)
  PROVE  SharesKnown'
<1>1. /\ jiffies \in Jiffies /\ jiffies \in Live /\ Live \subseteq Jiffies
      /\ jiffies # None /\ None \notin Jiffies
  BY FilesTold DEF SharesKnown, Live, Jiffies
<1>2. CASE Tick
  <2>1. PICK busy \in BOOLEAN : LET now == [idle |-> jiffies.idle + (IF busy THEN 0 ELSE 1),
                                            total |-> jiffies.total + 1]
         IN  /\ jiffies' = now
             /\ shares' = shares \cup {Share(s, now) :
                    s \in {jiffies} \cup {sample[r] : r \in {o \in Requests : sample[o] # None}}
                                \cup {p \in {previous} : p # None}}
    BY <1>2 DEF Tick
  <2>2. sample' = sample /\ previous' = previous /\ percent' = percent
    BY <1>2 DEF Tick
  <2>3. jiffies' \in Jiffies /\ jiffies'.total = jiffies.total + 1
    BY <1>1, <2>1 DEF Jiffies
  <2>4. {jiffies} \cup {sample[r] : r \in {o \in Requests : sample[o] # None}}
                  \cup {p \in {previous} : p # None} = Live
    BY <1>1 DEF Live
  <2>5. shares' = shares \cup {Share(s, jiffies') : s \in Live}
    BY <2>1, <2>4
  <2>6. Live' \subseteq Live \cup {jiffies'}
    BY <2>2 DEF Live
  <2>7. \A s \in Live : s.total <= jiffies.total /\ s.total \in Nat
    BY <1>1 DEF SharesKnown, Jiffies
  <2>8. \A s \in Live' : s.total <= jiffies'.total
    BY <1>1, <2>3, <2>6, <2>7 DEF Jiffies
  <2>9. ASSUME NEW s \in Live', NEW t \in Live' PROVE Share(s, t) \in shares'
    <3>1. CASE s \in Live /\ t \in Live
      BY <2>5, <3>1 DEF SharesKnown
    <3>2. CASE s \in Live /\ t = jiffies'
      BY <2>5, <3>2
    <3>3. CASE s = jiffies'
      <4>1. t.total <= s.total /\ t \in Jiffies /\ s \in Jiffies
        BY <1>1, <2>3, <2>6, <2>8, <3>3
      <4>2. Share(s, t) = 0
        BY <4>1, ShareBounds
      <4> QED BY <2>5, <4>2 DEF SharesKnown
    <3> QED BY <2>6, <3>1, <3>2, <3>3
  <2>10. 0 \in shares' /\ shares' \subseteq 0..100 /\ percent' \in shares'
    BY <1>1, <2>2, <2>3, <2>5, ShareBounds DEF SharesKnown
  <2> QED BY <2>2, <2>3, <2>8, <2>9, <2>10 DEF SharesKnown
<1>3. ASSUME NEW r \in Requests, InvokeUsage(r) PROVE SharesKnown'
  <2>1. /\ sample' = [sample EXCEPT ![r] = jiffies]
        /\ UNCHANGED <<previous, jiffies, shares, percent>>
    BY <1>3 DEF InvokeUsage
  <2>2. sample' \in [Requests -> Jiffies \cup {None}]
    BY <1>1, <2>1 DEF SharesKnown
  <2>3. Live' \subseteq Live
    <3>1. \A o \in Requests : sample'[o] \in {jiffies, sample[o]}
      BY <2>1 DEF SharesKnown
    <3> QED BY <1>1, <2>1, <3>1 DEF Live
  <2> QED BY <2>1, <2>2, <2>3 DEF SharesKnown
<1>4. ASSUME NEW r \in Requests, CompareSample(r) PROVE SharesKnown'
  <2>1. /\ percent' = IF previous = None THEN 0 ELSE Share(previous, sample[r])
        /\ previous' = sample[r] /\ sample' = [sample EXCEPT ![r] = None]
        /\ jiffies' = jiffies /\ shares' = shares /\ stage[r] = "compare"
    BY <1>4 DEF CompareSample, Moves
  <2>2. sample[r] # None
    BY <2>1 DEF FilesTyped, Holds
  <2>3. sample[r] \in Live /\ (previous # None => previous \in Live)
    BY <2>2 DEF Live
  <2>4. percent' \in shares'
    BY <2>1, <2>3 DEF SharesKnown
  <2>5. Live' \subseteq Live
    <3>1. \A o \in Requests : sample'[o] \in {None, sample[o]}
      BY <2>1 DEF SharesKnown
    <3> QED BY <2>1, <2>3, <3>1 DEF Live
  <2>6. sample' \in [Requests -> Jiffies \cup {None}] /\ previous' \in Jiffies \cup {None}
    BY <2>1 DEF SharesKnown
  <2> QED BY <2>1, <2>4, <2>5, <2>6 DEF SharesKnown
<1> QED BY <1>2, <1>3, <1>4

\* One request goes on, and keeps or has what its next stage needs.
LEMMA OneGoesOn ==
  ASSUME FilesTyped, NEW r \in Requests, stage' \in [Requests -> Stages],
         DOMAIN payload' = Requests, DOMAIN temp' = Requests,
         \A o \in Requests \ {r} : /\ stage'[o] = stage[o] /\ payload'[o] = payload[o]
                                   /\ temp'[o] = temp[o] /\ sample'[o] = sample[o],
         Holds(r)'
  PROVE  /\ stage' \in [Requests -> Stages]
         /\ DOMAIN payload' = Requests /\ DOMAIN temp' = Requests
         /\ \A o \in Requests : Holds(o)'
<1>1. ASSUME NEW o \in Requests \ {r} PROVE Holds(o)'
  BY <1>1 DEF FilesTyped, Holds
<1> QED BY <1>1

\* The extensions still to be tried become fewer.
LEMMA OneExtensionLess ==
  ASSUME FilesTyped, NEW r \in Requests, left[r] # <<>>,
         left' = [left EXCEPT ![r] = Tail(@)]
  PROVE  /\ left' \in [Requests -> Seq(KnownExts)]
         /\ \A o \in Requests : Len(left'[o]) <= Len(ExtOrder)
         /\ Head(left[r]) \in KnownExts
         /\ Range(left[r]) \subseteq {Head(left[r])} \cup Range(left'[r])
<1>1. left[r] \in Seq(KnownExts) /\ Len(left[r]) <= Len(ExtOrder) /\ Len(left[r]) \in Nat
      /\ Len(ExtOrder) \in Nat
  BY FilesTold DEF FilesTyped
<1>2. Tail(left[r]) \in Seq(KnownExts) /\ Len(Tail(left[r])) = Len(left[r]) - 1
      /\ Head(left[r]) \in KnownExts
  BY <1>1
<1>3. left'[r] = Tail(left[r]) /\ \A o \in Requests \ {r} : left'[o] = left[o]
  BY DEF FilesTyped
<1>4. left' \in [Requests -> Seq(KnownExts)]
  BY <1>2 DEF FilesTyped
<1>5. \A o \in Requests : Len(left'[o]) <= Len(ExtOrder)
  BY <1>1, <1>2, <1>3 DEF FilesTyped
<1>6. ASSUME NEW e \in Range(left[r]) PROVE e \in {Head(left[r])} \cup Range(Tail(left[r]))
  <2>1. PICK i \in 1..Len(left[r]) : left[r][i] = e
    BY <1>1, <1>6 DEF Range
  <2>2. CASE i = 1
    BY <1>1, <2>1, <2>2
  <2>3. CASE i > 1
    <3>1. i - 1 \in 1..Len(Tail(left[r])) /\ Tail(left[r])[i - 1] = e
      BY <1>1, <1>2, <2>1, <2>3
    <3>2. i - 1 \in DOMAIN Tail(left[r])
      BY <1>2, <3>1
    <3> QED BY <3>1, <3>2 DEF Range
  <2> QED BY <2>1, <2>2, <2>3
<1> QED BY <1>2, <1>3, <1>4, <1>5, <1>6

\* What is not about the wallpaper leaves it as it is.
LEMMA WallpaperUnmoved ==
  ASSUME Wallpaper, images' = images, kept' = kept, calm' => calm,
         \A o \in Requests :
           \/ stage'[o] = stage[o] /\ payload'[o] = payload[o] /\ left'[o] = left[o]
           \/ stage[o] \notin Changing /\ stage'[o] \notin Changing
  PROVE  Wallpaper'
<1> SUFFICES ASSUME calm' PROVE Wallpaper'
  BY DEF Wallpaper
<1>1. \A o \in Requests :
        /\ stage'[o] \in Changing => /\ stage'[o] = stage[o] /\ payload'[o] = payload[o]
                                     /\ left'[o] = left[o]
        /\ stage[o] \in Changing => stage'[o] = stage[o]
  OBVIOUS
<1>2. \A s, o \in Requests : stage'[s] \in Changing /\ stage'[o] \in Changing => s = o
  BY <1>1 DEF Wallpaper
<1>3. ASSUME NEW o \in Requests
      PROVE  /\ stage'[o] \in {"remove", "clear"} =>
                  \A e \in KnownExts : images'[e] # None => e \in Range(left'[o])
             /\ stage'[o] = "fill" =>
                  /\ \A e \in KnownExts \ {payload'[o].ext} : images'[e] = None
                  /\ images'[payload'[o].ext] # None
  BY <1>1 DEF Wallpaper, Changing
<1>4. (\A o \in Requests : stage'[o] \notin Changing) =>
           \A o \in Requests : stage[o] \notin Changing
  BY <1>1
<1>5. Found' = Found
  BY DEF Found
<1> QED BY <1>2, <1>3, <1>4, <1>5 DEF Wallpaper

\* A request begins.
LEMMA FilesBegin ==
  ASSUME UiInv, NEW r \in Requests,
         InvokeRefused(r) \/ InvokeImage(r) \/ InvokeSetting(r) \/ InvokeUsage(r)
  PROVE  FilesTyped' /\ Wallpaper'
<1>1. /\ images' = images /\ prefs' = prefs /\ entry' = entry /\ launchedAs' = launchedAs
      /\ temp' = temp /\ kept' = kept /\ served' = served
  BY DEF InvokeRefused, InvokeImage, InvokeSetting, InvokeUsage, stored
<1>2. PICK first \in {"idle", "remove", "clear", "scan", "prefs", "entry", "compare"} :
        /\ Accepted(r, first)
        /\ first = "idle" => UNCHANGED <<left, payload, sample>>
        /\ first = "remove" =>
             /\ \E i \in Images, e \in Exts :
                     payload' = [payload EXCEPT ![r] = [image |-> i, ext |-> e]]
             /\ left' = [left EXCEPT ![r] = ExtOrder] /\ sample' = sample
        /\ first \in {"clear", "scan"} =>
             left' = [left EXCEPT ![r] = ExtOrder] /\ payload' = payload /\ sample' = sample
        /\ first = "prefs" =>
             /\ \E b \in Backends : payload' = [payload EXCEPT ![r] = b]
             /\ left' = left /\ sample' = sample
        /\ first = "entry" =>
             /\ \E e \in {"enabled", "hidden"} : payload' = [payload EXCEPT ![r] = e]
             /\ left' = left /\ sample' = sample
        /\ first = "compare" =>
             sample' = [sample EXCEPT ![r] = jiffies] /\ left' = left /\ payload' = payload
  <2>1. CASE InvokeRefused(r)
    BY <2>1 DEF InvokeRefused, usage
  <2>2. CASE InvokeImage(r)
    <3>1. sample' = sample
      BY <2>2 DEF InvokeImage, usage
    <3> QED BY <2>2, <3>1 DEF InvokeImage, RemovedBefore
  <2>3. CASE InvokeSetting(r)
    <3>1. sample' = sample /\ left' = left
      BY <2>3 DEF InvokeSetting, usage
    <3> QED BY <2>3, <3>1 DEF InvokeSetting
  <2>4. CASE InvokeUsage(r)
    BY <2>4 DEF InvokeUsage
  <2> QED BY <2>1, <2>2, <2>3, <2>4
<1>3. /\ stage[r] = "idle" /\ stage' = [stage EXCEPT ![r] = first]
      /\ invoked < MaxInvoked /\ invoked' = invoked + 1
      /\ calm' = IF first \in Changing THEN ChangesAlone(r) ELSE calm
  BY <1>2 DEF Accepted, Moves
<1>4. /\ stage' \in [Requests -> Stages] /\ stage'[r] = first
      /\ \A o \in Requests \ {r} : stage'[o] = stage[o]
  BY <1>3 DEF UiInv, FilesTyped, Stages
<1>5. DOMAIN payload' = Requests /\ \A o \in Requests \ {r} :
                                         payload'[o] = payload[o] /\ sample'[o] = sample[o]
  BY <1>2 DEF UiInv, FilesTyped, SharesKnown
<1>6. Holds(r)'
  <2>1. DOMAIN payload = Requests /\ DOMAIN sample = Requests /\ jiffies # None
    BY FilesTold DEF UiInv, FilesTyped, SharesKnown, Jiffies
  <2>2. CASE first = "remove"
    BY <1>2, <1>4, <2>1, <2>2 DEF Holds
  <2>3. CASE first \in {"prefs", "entry"}
    BY <1>2, <1>4, <2>1, <2>3 DEF Holds
  <2>4. CASE first \in {"idle", "clear", "scan"}
    BY <1>4, <2>4 DEF Holds
  <2>5. CASE first = "compare"
    BY <1>2, <1>4, <2>1, <2>5 DEF Holds
  <2> QED BY <1>2, <2>2, <2>3, <2>4, <2>5
<1>7. left' \in [Requests -> Seq(KnownExts)] /\ \A o \in Requests : Len(left'[o]) <= Len(ExtOrder)
  <2>1. ExtOrder \in Seq(KnownExts) /\ Len(ExtOrder) \in Nat
    BY FilesTold
  <2>2. left' = left \/ left' = [left EXCEPT ![r] = ExtOrder]
    BY <1>2
  <2>3. /\ left \in [Requests -> Seq(KnownExts)]
        /\ \A o \in Requests : Len(left[o]) <= Len(ExtOrder)
    BY DEF UiInv, FilesTyped
  <2>4. CASE left' = left
    BY <2>3, <2>4
  <2>5. CASE left' = [left EXCEPT ![r] = ExtOrder]
    <3>1. left'[r] = ExtOrder /\ \A o \in Requests \ {r} : left'[o] = left[o]
      BY <2>3, <2>5
    <3>2. left' \in [Requests -> Seq(KnownExts)]
      BY <2>1, <2>3, <2>5
    <3>3. \A o \in Requests : Len(left'[o]) <= Len(ExtOrder)
      BY <2>1, <2>3, <3>1
    <3> QED BY <3>2, <3>3
  <2> QED BY <2>2, <2>4, <2>5
<1>8. invoked' \in 0..MaxInvoked /\ calm' \in BOOLEAN
  <2>1. CASE first \in Changing
    BY <1>3, <2>1, FilesTold DEF UiInv, FilesTyped, ChangesAlone
  <2>2. CASE first \notin Changing
    BY <1>3, <2>2, FilesTold DEF UiInv, FilesTyped
  <2> QED BY <2>1, <2>2
<1>9. FilesTyped'
  <2>1. /\ stage' \in [Requests -> Stages]
        /\ DOMAIN payload' = Requests /\ DOMAIN temp' = Requests
        /\ \A o \in Requests : Holds(o)'
    <3>1. FilesTyped /\ DOMAIN temp' = Requests
      BY <1>1 DEF UiInv, FilesTyped
    <3> QED BY <1>1, <1>4, <1>5, <1>6, <3>1, OneGoesOn
  <2> QED BY <1>1, <1>7, <1>8, <2>1 DEF UiInv, FilesTyped
<1>10. Wallpaper'
  <2>1. CASE first \in Changing
    <3> SUFFICES ASSUME calm' PROVE Wallpaper'
      BY DEF Wallpaper
    <3>1. \A o \in Requests \ {r} : stage'[o] \notin Changing
      BY <1>3, <1>4, <2>1 DEF ChangesAlone
    <3>2. stage'[r] \in {"remove", "clear"} /\ left'[r] = ExtOrder
      BY <1>2, <1>4, <2>1 DEF Changing, UiInv, FilesTyped
    <3> QED BY <3>1, <3>2 DEF Wallpaper, Changing, KnownExts
  <2>2. CASE first \notin Changing
    <3>1. ASSUME NEW o \in Requests
          PROVE  \/ stage'[o] = stage[o] /\ payload'[o] = payload[o] /\ left'[o] = left[o]
                 \/ stage[o] \notin Changing /\ stage'[o] \notin Changing
      BY <1>2, <1>3, <1>4, <1>5, <2>2 DEF Changing, UiInv, FilesTyped
    <3>2. calm' = calm
      BY <1>3, <2>2
    <3> QED BY <1>1, <3>1, <3>2, WallpaperUnmoved DEF UiInv
  <2> QED BY <2>1, <2>2
<1> QED BY <1>9, <1>10

\* A step for the preferences, the autostart entry or the usage.
LEMMA FilesSettings ==
  ASSUME UiInv, NEW r \in Requests,
         \/ TruncatePrefs(r) \/ FillPrefs(r) \/ CreateTemp(r) \/ FillTemp(r) \/ RenameTemp(r)
         \/ EntryFails(r) \/ CompareSample(r)
  PROVE  FilesTyped' /\ Wallpaper'
<1>1. /\ UNCHANGED <<images, launchedAs, served, kept, left, calm, invoked>>
      /\ FilesTyped
  BY DEF TruncatePrefs, FillPrefs, CreateTemp, FillTemp, RenameTemp, EntryFails, CompareSample,
         stored, UiInv
<1>2. PICK to \in {"idle", "prefs fill", "entry fill", "rename"} :
        /\ stage[r] \in Stages \ Changing /\ stage' = [stage EXCEPT ![r] = to]
        /\ to = "prefs fill" => stage[r] = "prefs" /\ payload' = payload
        /\ to = "entry fill" => stage[r] = "entry" /\ payload' = payload
        /\ to = "rename" => stage[r] = "entry fill" /\ payload' = payload
                            /\ temp' = [temp EXCEPT ![r] = payload[r]]
  BY DEF TruncatePrefs, FillPrefs, CreateTemp, FillTemp, RenameTemp, EntryFails, CompareSample,
         Moves, Stages, Changing
<1>3. /\ payload' = payload \/ payload' = [payload EXCEPT ![r] = None]
      /\ \/ temp' = temp
         \/ \E v : temp' = [temp EXCEPT ![r] = v]
      /\ \/ sample' = sample
         \/ sample' = [sample EXCEPT ![r] = None]
  <2>1. CASE CompareSample(r)
    BY <2>1 DEF CompareSample
  <2>2. CASE ~CompareSample(r)
    <3>1. sample' = sample
      BY <2>2 DEF TruncatePrefs, FillPrefs, CreateTemp, FillTemp, RenameTemp, EntryFails, usage
    <3> QED BY <2>2, <3>1 DEF TruncatePrefs, FillPrefs, CreateTemp, FillTemp, RenameTemp, EntryFails
  <2> QED BY <2>1, <2>2
<1>4. /\ DOMAIN payload' = Requests /\ DOMAIN temp' = Requests
      /\ \A o \in Requests \ {r} : /\ stage'[o] = stage[o] /\ payload'[o] = payload[o]
                                   /\ temp'[o] = temp[o] /\ sample'[o] = sample[o]
      /\ stage' \in [Requests -> Stages] /\ stage'[r] = to
  <2>1. DOMAIN payload = Requests /\ DOMAIN temp = Requests /\ DOMAIN sample = Requests
        /\ stage \in [Requests -> Stages] /\ to \in Stages
    BY <1>2 DEF UiInv, FilesTyped, SharesKnown, Stages
  <2> QED BY <1>2, <1>3, <2>1
<1>5. Holds(r)'
  <2>1. Holds(r) /\ DOMAIN temp = Requests
    BY DEF UiInv, FilesTyped
  <2>2. CASE to = "rename"
    BY <1>2, <1>4, <2>1, <2>2 DEF Holds
  <2>3. CASE to \in {"idle", "prefs fill", "entry fill"}
    BY <1>2, <1>4, <2>1, <2>3 DEF Holds
  <2> QED BY <1>2, <2>2, <2>3
<1>6. prefs' \in Backends \cup {None, Torn} /\ entry' \in {"enabled", "hidden", None}
  <2>1. Holds(r) /\ prefs \in Backends \cup {None, Torn} /\ entry \in {"enabled", "hidden", None}
    BY DEF UiInv, FilesTyped
  <2> QED BY <2>1 DEF TruncatePrefs, FillPrefs, CreateTemp, FillTemp, RenameTemp, EntryFails,
                      CompareSample, Moves, stored, Holds
<1>7. FilesTyped'
  <2>1. \A o \in Requests : Holds(o)'
    BY <1>1, <1>4, <1>5, OneGoesOn
  <2> QED BY <1>1, <1>4, <1>6, <2>1 DEF FilesTyped
<1>8. Wallpaper'
  <2>1. ASSUME NEW o \in Requests
        PROVE  \/ stage'[o] = stage[o] /\ payload'[o] = payload[o] /\ left'[o] = left[o]
               \/ stage[o] \notin Changing /\ stage'[o] \notin Changing
    BY <1>1, <1>2, <1>4 DEF Changing
  <2> QED BY <1>1, <2>1, WallpaperUnmoved DEF UiInv
<1> QED BY <1>7, <1>8

\* The process is launched or killed, or time passes.
LEMMA FilesProcess ==
  ASSUME UiInv, Launch \/ UiKilled \/ Tick
  PROVE  FilesTyped' /\ Wallpaper'
<1>1. images' = images /\ prefs' = prefs /\ entry' = entry /\ kept' = kept /\ invoked' = invoked
  BY DEF Launch, UiKilled, Tick, stored
<1>2. CASE Launch
  <2>1. /\ UNCHANGED <<stage, left, payload, temp, sample, calm>> /\ served' = TRUE
        /\ launchedAs' \in Backends \cup {"auto", None}
    BY <1>2 DEF Launch, usage, UiInv, FilesTyped
  <2>2. FilesTyped'
    BY <1>1, <2>1 DEF UiInv, FilesTyped, Holds
  <2> QED BY <1>1, <2>1, <2>2, WallpaperUnmoved DEF UiInv
<1>3. CASE Tick
  <2>1. UNCHANGED <<stage, left, payload, temp, sample, calm, served, launchedAs>>
    BY <1>3 DEF Tick
  <2>2. FilesTyped'
    BY <1>1, <2>1 DEF UiInv, FilesTyped, Holds
  <2> QED BY <1>1, <2>1, <2>2, WallpaperUnmoved DEF UiInv
<1>4. CASE UiKilled
  <2>1. /\ stage' = [r \in Requests |-> "idle"] /\ left' = [r \in Requests |-> <<>>]
        /\ payload' = [r \in Requests |-> None] /\ temp' = [r \in Requests |-> None]
        /\ served' = FALSE /\ launchedAs' = None
        /\ calm' = (calm /\ \A r \in Requests : stage[r] \notin Changing)
    BY <1>4 DEF UiKilled
  <2>2. \A r \in Requests : Holds(r)'
    BY <2>1 DEF Holds
  <2>3. left' \in [Requests -> Seq(KnownExts)] /\ \A r \in Requests : Len(left'[r]) <= Len(ExtOrder)
    <3>1. <<>> \in Seq(KnownExts) /\ Len(<<>>) = 0 /\ Len(ExtOrder) \in Nat
      BY FilesTold
    <3> QED BY <2>1, <3>1
  <2>4. stage' \in [Requests -> Stages] /\ calm' \in BOOLEAN
    BY <2>1 DEF Stages, UiInv, FilesTyped
  <2>5. FilesTyped'
    BY <1>1, <2>1, <2>2, <2>3, <2>4 DEF UiInv, FilesTyped
  <2>6. Wallpaper'
    <3> SUFFICES ASSUME calm' PROVE Wallpaper'
      BY DEF Wallpaper
    <3>1. /\ calm /\ \A r \in Requests : stage[r] \notin Changing
          /\ \A r \in Requests : stage'[r] \notin Changing
      BY <2>1 DEF Changing
    <3> QED BY <1>1, <3>1, WallpaperUnmoved DEF UiInv
  <2> QED BY <2>5, <2>6
<1> QED BY <1>2, <1>3, <1>4

\* A step for the wallpaper.
LEMMA FilesImages ==
  ASSUME UiInv, NEW r \in Requests,
         \/ RemoveOne(r) \/ CreateImage(r) \/ FillImage(r) \/ Cleared(r) \/ ScanOne(r)
         \/ ImageFails(r)
  PROVE  FilesTyped' /\ Wallpaper'
<1>1. /\ UNCHANGED <<prefs, entry, launchedAs, served, temp, sample, invoked>>
      /\ FilesTyped /\ Wallpaper
  BY DEF RemoveOne, CreateImage, FillImage, Cleared, ScanOne, ImageFails, stored, usage, UiInv
<1>2. /\ Holds(r) /\ DOMAIN payload = Requests /\ DOMAIN temp = Requests
      /\ stage \in [Requests -> Stages]
      /\ left \in [Requests -> Seq(KnownExts)] /\ images \in [Exts -> Images \cup {None, Torn}]
      /\ (\A o \in Requests : Len(left[o]) <= Len(ExtOrder)) /\ Len(ExtOrder) \in Nat
      /\ KnownExts \subseteq Exts
  BY FilesTold DEF UiInv, FilesTyped, Exts
<1>3. /\ Range(<<>>) = {} /\ <<>> \in Seq(KnownExts) /\ Len(<<>>) = 0
  BY DEF Range
<1>4. ASSUME calm
      PROVE  stage[r] \in Changing => \A o \in Requests \ {r} : stage[o] \notin Changing
  BY <1>1, <1>4 DEF Wallpaper
<1>5. CASE RemoveOne(r)
  <2>1. /\ left[r] # <<>> /\ stage[r] \in {"remove", "clear"}
        /\ \/ images' = [images EXCEPT ![Head(left[r])] = None] /\ calm' = calm
           \/ calm' = FALSE /\ images' = images
        /\ left' = [left EXCEPT ![r] = Tail(@)]
        /\ stage' = stage /\ payload' = payload /\ kept' = kept
    BY <1>5 DEF RemoveOne
  <2>2. /\ left' \in [Requests -> Seq(KnownExts)]
        /\ \A o \in Requests : Len(left'[o]) <= Len(ExtOrder)
        /\ Head(left[r]) \in KnownExts
        /\ Range(left[r]) \subseteq {Head(left[r])} \cup Range(left'[r])
    BY <1>1, <2>1, OneExtensionLess
  <2>3. images' \in [Exts -> Images \cup {None, Torn}] /\ calm' \in BOOLEAN
    BY <1>1, <1>2, <2>1, <2>2 DEF FilesTyped
  <2>4. FilesTyped'
    BY <1>1, <2>1, <2>2, <2>3 DEF FilesTyped, Holds
  <2>5. Wallpaper'
    <3> SUFFICES ASSUME calm' PROVE Wallpaper'
      BY DEF Wallpaper
    <3>1. calm /\ images' = [images EXCEPT ![Head(left[r])] = None]
      BY <2>1
    <3>2. \A o \in Requests \ {r} : stage'[o] \notin Changing
      BY <1>4, <2>1, <3>1 DEF Changing
    <3>3. \A e \in KnownExts : images'[e] # None => e # Head(left[r]) /\ images[e] # None
      BY <1>2, <2>2, <3>1
    <3>4. \A e \in KnownExts : images'[e] # None => e \in Range(left'[r])
      BY <1>1, <2>1, <2>2, <3>1, <3>3 DEF Wallpaper
    <3> QED BY <2>1, <3>2, <3>4 DEF Wallpaper, Changing
  <2> QED BY <2>4, <2>5
<1>6. CASE CreateImage(r)
  <2>1. /\ left[r] = <<>> /\ stage[r] = "remove" /\ stage' = [stage EXCEPT ![r] = "fill"]
        /\ images' = [images EXCEPT ![payload[r].ext] = Torn]
        /\ left' = left /\ payload' = payload /\ kept' = kept /\ calm' = calm
    BY <1>6 DEF CreateImage, Moves
  <2>2. /\ stage' \in [Requests -> Stages] /\ stage'[r] = "fill"
        /\ \A o \in Requests \ {r} : stage'[o] = stage[o]
    BY <1>2, <2>1 DEF Stages
  <2>3. Holds(r)' /\ payload[r].ext \in Exts
    BY <1>2, <2>1, <2>2 DEF Holds
  <2>4. \A o \in Requests : Holds(o)'
    BY <1>1, <1>2, <2>1, <2>2, <2>3, OneGoesOn
  <2>5. images' \in [Exts -> Images \cup {None, Torn}]
    BY <1>2, <2>1, <2>3
  <2>6. FilesTyped'
    BY <1>1, <1>2, <2>1, <2>2, <2>4, <2>5 DEF FilesTyped
  <2>7. Wallpaper'
    <3> SUFFICES ASSUME calm' PROVE Wallpaper'
      BY DEF Wallpaper
    <3>1. \A o \in Requests \ {r} : stage'[o] \notin Changing
      BY <1>4, <2>1, <2>2 DEF Changing
    <3>2. \A e \in KnownExts : images[e] = None
      BY <1>1, <1>3, <2>1 DEF Wallpaper
    <3>3. images'[payload'[r].ext] # None
          /\ \A e \in KnownExts \ {payload'[r].ext} : images'[e] = None
      BY <1>2, <2>1, <2>3, <3>2, FilesTold
    <3> QED BY <2>2, <3>1, <3>3 DEF Wallpaper, Changing
  <2> QED BY <2>6, <2>7
<1>7. CASE FillImage(r)
  <2>1. /\ stage[r] = "fill" /\ stage' = [stage EXCEPT ![r] = "idle"]
        /\ images' = [images EXCEPT ![payload[r].ext] = IF @ = None THEN None ELSE payload[r].image]
        /\ kept' = IF images[payload[r].ext] = None THEN kept ELSE payload[r]
        /\ payload' = [payload EXCEPT ![r] = None] /\ left' = left /\ calm' = calm
    BY <1>7 DEF FillImage, Moves
  <2>2. /\ stage' \in [Requests -> Stages] /\ stage'[r] = "idle"
        /\ \A o \in Requests \ {r} : stage'[o] = stage[o] /\ payload'[o] = payload[o]
        /\ DOMAIN payload' = Requests
    BY <1>2, <2>1 DEF Stages
  <2>3. /\ Holds(r)' /\ payload[r] \in [image : Images, ext : Exts]
        /\ payload[r].ext \in Exts /\ payload[r].image \in Images
        /\ payload[r].image # None /\ payload[r] # None
    BY <1>2, <2>1, <2>2, FilesTold DEF Holds
  <2>4. \A o \in Requests : Holds(o)'
    BY <1>1, <1>2, <2>1, <2>2, <2>3, OneGoesOn
  <2>5. images' \in [Exts -> Images \cup {None, Torn}]
    BY <1>2, <2>1, <2>3
  <2>6. FilesTyped'
    BY <1>1, <1>2, <2>1, <2>2, <2>4, <2>5 DEF FilesTyped
  <2>7. Wallpaper'
    <3> SUFFICES ASSUME calm' PROVE Wallpaper'
      BY DEF Wallpaper
    <3>1. \A o \in Requests : stage'[o] \notin Changing
      BY <1>4, <2>1, <2>2 DEF Changing
    <3>2. /\ \A e \in KnownExts \ {payload[r].ext} : images[e] = None
          /\ images[payload[r].ext] # None
      BY <1>1, <2>1 DEF Wallpaper
    <3>3. /\ images'[payload[r].ext] = payload[r].image
          /\ \A e \in KnownExts \ {payload[r].ext} : images'[e] = None
      BY <1>2, <2>1, <2>3, <3>2
    <3>4. kept' = payload[r]
      BY <2>1, <3>2
    <3>5. Found' \in {None, payload[r].image} /\ (payload[r].ext \in KnownExts => Found' # None)
      BY <2>3, <3>4 DEF Found
    <3>6. /\ \A e \in KnownExts : images'[e] \in {None, Found'}
          /\ Found' # None => \E e \in KnownExts : images'[e] = Found'
      BY <3>3, <3>4, <3>5 DEF Found
    <3> QED BY <3>1, <3>6 DEF Wallpaper, Changing
  <2> QED BY <2>6, <2>7
<1>8. CASE Cleared(r)
  <2>1. /\ left[r] = <<>> /\ stage[r] = "clear" /\ stage' = [stage EXCEPT ![r] = "idle"]
        /\ kept' = None /\ images' = images
        /\ left' = left /\ payload' = payload /\ calm' = calm
    BY <1>8 DEF Cleared, Moves, stored
  <2>2. /\ stage' \in [Requests -> Stages] /\ stage'[r] = "idle"
        /\ \A o \in Requests \ {r} : stage'[o] = stage[o]
    BY <1>2, <2>1 DEF Stages
  <2>3. Holds(r)'
    BY <2>2 DEF Holds
  <2>4. \A o \in Requests : Holds(o)'
    BY <1>1, <1>2, <2>1, <2>2, <2>3, OneGoesOn
  <2>5. FilesTyped'
    BY <1>1, <1>2, <2>1, <2>2, <2>4 DEF FilesTyped
  <2>6. Wallpaper'
    <3> SUFFICES ASSUME calm' PROVE Wallpaper'
      BY DEF Wallpaper
    <3>1. \A o \in Requests : stage'[o] \notin Changing
      BY <1>4, <2>1, <2>2 DEF Changing
    <3>2. \A e \in KnownExts : images'[e] = None
      BY <1>1, <1>3, <2>1 DEF Wallpaper
    <3> QED BY <2>1, <3>1, <3>2 DEF Wallpaper, Changing, Found
  <2> QED BY <2>5, <2>6
<1>9. CASE ScanOne(r)
  <2>1. /\ stage[r] = "scan"
        /\ \/ stage' = [stage EXCEPT ![r] = "idle"] /\ left' = [left EXCEPT ![r] = <<>>]
           \/ stage' = stage /\ left[r] # <<>> /\ left' = [left EXCEPT ![r] = Tail(@)]
        /\ kept' = kept /\ images' = images /\ payload' = payload /\ calm' = calm
    BY <1>9 DEF ScanOne, Moves, stored
  <2>2. /\ stage' \in [Requests -> Stages] /\ stage'[r] \in {"idle", "scan"}
        /\ \A o \in Requests \ {r} : stage'[o] = stage[o] /\ left'[o] = left[o]
    BY <1>2, <2>1 DEF Stages
  <2>3. Holds(r)'
    BY <2>2 DEF Holds
  <2>4. \A o \in Requests : Holds(o)'
    BY <1>1, <1>2, <2>1, <2>2, <2>3, OneGoesOn
  <2>5. /\ left' \in [Requests -> Seq(KnownExts)]
        /\ \A o \in Requests : Len(left'[o]) <= Len(ExtOrder)
    <3>1. CASE left' = [left EXCEPT ![r] = <<>>]
      <4>1. left'[r] = <<>>
        BY <1>2, <3>1
      <4>2. left' \in [Requests -> Seq(KnownExts)]
        BY <1>2, <1>3, <3>1
      <4> QED BY <1>2, <1>3, <2>2, <4>1, <4>2
    <3>2. CASE left[r] # <<>> /\ left' = [left EXCEPT ![r] = Tail(@)]
      BY <1>1, <3>2, OneExtensionLess
    <3> QED BY <2>1, <3>1, <3>2
  <2>6. FilesTyped'
    BY <1>1, <1>2, <2>1, <2>2, <2>4, <2>5 DEF FilesTyped
  <2>7. Wallpaper'
    <3>1. ASSUME NEW o \in Requests
          PROVE  \/ stage'[o] = stage[o] /\ payload'[o] = payload[o] /\ left'[o] = left[o]
                 \/ stage[o] \notin Changing /\ stage'[o] \notin Changing
      BY <2>1, <2>2 DEF Changing
    <3> QED BY <1>1, <2>1, <3>1, WallpaperUnmoved
  <2> QED BY <2>6, <2>7
<1>10. CASE ImageFails(r)
  <2>1. /\ stage' = [stage EXCEPT ![r] = "idle"] /\ left' = [left EXCEPT ![r] = <<>>]
        /\ payload' = [payload EXCEPT ![r] = None] /\ calm' = FALSE /\ images' = images
        /\ kept' = kept
    BY <1>10 DEF ImageFails, stored
  <2>2. /\ stage' \in [Requests -> Stages] /\ stage'[r] = "idle"
        /\ \A o \in Requests \ {r} : /\ stage'[o] = stage[o] /\ payload'[o] = payload[o]
                                     /\ left'[o] = left[o]
        /\ DOMAIN payload' = Requests /\ left'[r] = <<>>
    BY <1>2, <2>1 DEF Stages
  <2>3. Holds(r)'
    BY <2>2 DEF Holds
  <2>4. \A o \in Requests : Holds(o)'
    BY <1>1, <1>2, <2>1, <2>2, <2>3, OneGoesOn
  <2>5. left' \in [Requests -> Seq(KnownExts)]
    BY <1>2, <1>3, <2>1
  <2>6. \A o \in Requests : Len(left'[o]) <= Len(ExtOrder)
    BY <1>2, <1>3, <2>2
  <2>7. FilesTyped'
    BY <1>1, <1>2, <2>1, <2>2, <2>4, <2>5, <2>6 DEF FilesTyped
  <2> QED BY <2>1, <2>7 DEF Wallpaper
<1> QED BY <1>5, <1>6, <1>7, <1>8, <1>9, <1>10

\* No request is under way at first.
LEMMA UiInitially == UiInit => UiInv
<1> SUFFICES ASSUME UiInit PROVE UiInv
  OBVIOUS
<1>1. FilesTyped
  <2>1. <<>> \in Seq(KnownExts) /\ Len(<<>>) = 0 /\ Len(ExtOrder) \in Nat
    BY FilesTold
  <2>2. /\ images \in [Exts -> Images \cup {None, Torn}]
        /\ prefs \in Backends \cup {None, Torn}
        /\ launchedAs \in Backends \cup {"auto", None}
        /\ entry \in {"enabled", "hidden", None}
    BY FilesTold DEF UiInit
  <2>3. invoked \in 0..MaxInvoked
    BY FilesTold DEF UiInit
  <2>4. served \in BOOLEAN /\ calm \in BOOLEAN
    BY DEF UiInit
  <2>5. stage \in [Requests -> Stages]
    BY DEF UiInit, NoRequests, Stages
  <2>6. /\ left \in [Requests -> Seq(KnownExts)]
        /\ \A r \in Requests : Len(left[r]) <= Len(ExtOrder)
    BY <2>1 DEF UiInit, NoRequests
  <2>7. /\ DOMAIN payload = Requests /\ DOMAIN temp = Requests
        /\ \A r \in Requests : Holds(r)
    BY DEF UiInit, NoRequests, Holds
  <2> QED BY <2>2, <2>3, <2>4, <2>5, <2>6, <2>7 DEF FilesTyped
<1>2. Wallpaper
  BY DEF UiInit, NoRequests, Wallpaper, Changing, Exts, Found
<1>3. SharesKnown
  <2>1. jiffies = [idle |-> 0, total |-> 0] /\ jiffies \in Jiffies /\ Live \subseteq {jiffies}
    BY DEF UiInit, NoRequests, Jiffies, Live
  <2>2. Share(jiffies, jiffies) = 0
    BY <2>1, ShareBounds
  <2> QED BY <2>1, <2>2 DEF UiInit, NoRequests, SharesKnown
<1> QED BY <1>1, <1>2, <1>3 DEF UiInv

\* Every system call of every request, and a kill, keeps the invariant.
LEMMA UiSteps == UiInv /\ [UiNext]_uiVars => UiInv'
<1> SUFFICES ASSUME UiInv, [UiNext]_uiVars PROVE UiInv'
  OBVIOUS
<1>1. CASE UNCHANGED uiVars
  <2>1. UNCHANGED <<served, images, prefs, launchedAs, entry, stage, left, payload, temp, sample,
                    previous, jiffies, shares, percent, calm, kept, invoked>>
    BY <1>1 DEF uiVars
  <2>2. FilesTyped'
    BY <2>1 DEF UiInv, FilesTyped, Holds
  <2>3. Wallpaper' /\ SharesKnown'
    BY <2>1, WallpaperUnmoved, SharesUnmoved DEF UiInv, usage
  <2> QED BY <2>2, <2>3 DEF UiInv
<1>2. CASE Launch
  <2>1. SharesKnown'
    BY <1>2, SharesUnmoved DEF UiInv, Launch
  <2> QED BY <1>2, <2>1, FilesProcess DEF UiInv
<1>3. CASE Tick
  BY <1>3, FilesProcess, SharesMove DEF UiInv
<1>4. CASE UiKilled
  <2>1. /\ sample' = [r \in Requests |-> None] /\ previous' = None /\ percent' = 0
        /\ jiffies' = jiffies /\ shares' = shares
    BY <1>4 DEF UiKilled
  <2>2. Live' \subseteq Live
    BY <2>1 DEF Live
  <2>3. SharesKnown'
    BY <2>1, <2>2 DEF UiInv, SharesKnown
  <2> QED BY <1>4, <2>3, FilesProcess DEF UiInv
<1>5. ASSUME NEW r \in Requests,
             \/ InvokeRefused(r) \/ InvokeImage(r) \/ InvokeSetting(r) \/ InvokeUsage(r)
             \/ RemoveOne(r) \/ CreateImage(r) \/ FillImage(r) \/ Cleared(r) \/ ScanOne(r)
             \/ ImageFails(r) \/ TruncatePrefs(r) \/ FillPrefs(r)
             \/ CreateTemp(r) \/ FillTemp(r) \/ RenameTemp(r) \/ EntryFails(r) \/ CompareSample(r)
      PROVE  UiInv'
  <2>1. FilesTyped' /\ Wallpaper'
    BY <1>5, FilesBegin, FilesImages, FilesSettings
  <2>2. SharesKnown'
    <3>1. CASE InvokeUsage(r) \/ CompareSample(r)
      BY <3>1, SharesMove DEF UiInv
    <3>2. CASE ~(InvokeUsage(r) \/ CompareSample(r))
      <4>1. UNCHANGED usage
        BY <1>5, <3>2 DEF InvokeRefused, InvokeImage, InvokeSetting, RemoveOne, CreateImage,
                          FillImage,
                     Cleared, ScanOne, ImageFails, TruncatePrefs, FillPrefs, CreateTemp, FillTemp,
                     RenameTemp, EntryFails
      <4> QED BY <4>1, SharesUnmoved DEF UiInv
    <3> QED BY <3>1, <3>2
  <2> QED BY <2>1, <2>2 DEF UiInv
<1> QED BY <1>1, <1>2, <1>3, <1>4, <1>5 DEF UiNext

\* What the files hold follows from the invariant.
LEMMA FilesKept == UiInv => FilesHold /\ UiTypeOK
<1> SUFFICES ASSUME UiInv PROVE FilesHold /\ UiTypeOK
  OBVIOUS
<1>1. EntryWhole
  BY FilesTold DEF UiInv, FilesTyped, EntryWhole
<1>2. ShareReal
  BY DEF UiInv, SharesKnown, ShareReal
<1>3. ASSUME WallpaperAtRest PROVE Loaded = Found
  <2>1. /\ \A e \in KnownExts : images[e] \in {None, Found}
        /\ Found # None => \E e \in KnownExts : images[e] = Found
    BY <1>3 DEF UiInv, Wallpaper, WallpaperAtRest
  <2> DEFINE there == {i \in DOMAIN ExtOrder : images[ExtOrder[i]] # None}
  <2>2. ExtOrder \in Seq(KnownExts) /\ DOMAIN ExtOrder \subseteq Nat
        /\ KnownExts = {ExtOrder[i] : i \in DOMAIN ExtOrder}
    BY FilesTold DEF KnownExts, Range
  <2>3. Loaded = IF there = {} THEN None ELSE images[ExtOrder[Min(there)]]
    BY DEF Loaded
  <2>4. CASE there = {}
    BY <2>1, <2>2, <2>3, <2>4
  <2>5. CASE there # {}
    <3>1. Min(there) \in there
      BY <2>2, <2>5, MinOfNaturals
    <3>2. images[ExtOrder[Min(there)]] = Found
      BY <2>1, <2>2, <3>1
    <3> QED BY <2>3, <2>5, <3>2
  <2> QED BY <2>4, <2>5
<1>4. WallpaperKept
  BY <1>3 DEF WallpaperKept
<1>5. UiTypeOK
  BY DEF UiInv, FilesTyped, SharesKnown, UiTypeOK
<1> QED BY <1>1, <1>2, <1>4, <1>5 DEF FilesHold

(* Whatever kills, failures and meeting requests have left behind: once a     *)
(* save or a clear has gone through alone, the wallpaper that comes back is   *)
(* the one it saved, or none if it cleared or saved under an extension that   *)
(* is not tried; the autostart entry is whole after a kill at any moment; and *)
(* no share of CPU time is shown that there has not been between two moments. *)
THEOREM FilesAreKept == UiSpec => []FilesHold
<1> QED BY UiInitially, UiSteps, FilesKept, PTL DEF UiSpec

-----------------------------------------------------------------------------
(* A speed, the period it came from and the way back.                        *)

\* Rounded(n, d) is the one number whose multiple of d is next to n.
LEMMA RoundedBounds ==
  ASSUME NEW n \in Nat, NEW d \in Nat, d > 0
  PROVE  /\ Rounded(n, d) \in Nat
         /\ 2 * (d * Rounded(n, d)) <= 2 * n + d
         /\ 2 * n + d < 2 * (d * Rounded(n, d)) + 2 * d
<1> DEFINE a == 2 * n + d
           b == 2 * d
           q == a \div b
<1>1. a \in Nat /\ b \in Nat /\ b > 0
  OBVIOUS
<1>2. Rounded(n, d) = q /\ b = 2 * d
  BY DEF Rounded
<1> HIDE DEF a, b
<1>3. q \in Int /\ b * q <= a /\ a < b * (q + 1)
  BY <1>1
<1> HIDE DEF q
<1>4. b * q = 2 * (d * q) /\ b * (q + 1) = 2 * (d * q) + 2 * d
  BY <1>2, <1>3
<1>5. q >= 0
  <2>1. ASSUME q + 1 <= 0 PROVE b * (q + 1) <= 0
    BY <1>1, <1>3, <2>1
  <2> QED BY <1>1, <1>3, <2>1
<1> QED BY <1>2, <1>3, <1>4, <1>5 DEF a

\* Rounding to the nearest quotient, stated by multiplication.
LEMMA RoundedIs ==
  ASSUME NEW n \in Nat, NEW d \in Nat, d > 0, NEW q \in Int,
         2 * (d * q) <= 2 * n + d, 2 * n + d < 2 * (d * q) + 2 * d
  PROVE  Rounded(n, d) = q
<1> DEFINE m == Rounded(n, d)
<1>1. m \in Nat /\ 2 * (d * m) <= 2 * n + d /\ 2 * n + d < 2 * (d * m) + 2 * d
  BY RoundedBounds
<1> HIDE DEF m
<1>2. d * m < d * q + d /\ d * q < d * m + d
  BY <1>1
<1>3. ~(m >= q + 1)
  <2>1. ASSUME m >= q + 1 PROVE d * m >= d * q + d
    <3>1. PICK e \in Nat : m = q + 1 + e
      <4>1. m - (q + 1) \in Nat /\ m = q + 1 + (m - (q + 1))
        BY <1>1, <2>1
      <4> QED BY <4>1
    <3>2. d * m = d * q + d + d * e /\ d * e >= 0
      BY <3>1
    <3> QED BY <3>2
  <2> QED BY <1>1, <1>2, <2>1
<1>4. ~(q >= m + 1)
  <2>1. ASSUME q >= m + 1 PROVE d * q >= d * m + d
    <3>1. PICK e \in Nat : q = m + 1 + e
      <4>1. q - (m + 1) \in Nat /\ q = m + 1 + (q - (m + 1))
        BY <1>1, <2>1
      <4> QED BY <4>1
    <3>2. d * q = d * m + d + d * e /\ d * e >= 0
      BY <1>1, <3>1
    <3> QED BY <1>1, <3>2
  <2> QED BY <1>1, <1>2, <2>1
<1>5. m = q
  BY <1>1, <1>3, <1>4
<1> QED BY <1>5 DEF m

\* The products the way back of a speed needs.
LEMMA Products ==
  ASSUME NEW a \in Nat, NEW b \in Nat, NEW c \in Nat
  PROVE  /\ a * b \in Nat /\ a * b = b * a
         /\ a * (b + c) = a * b + a * c
         /\ b <= c => a * b <= a * c
<1>1. a * b \in Nat /\ a * b = b * a /\ a * (b + c) = a * b + a * c
  OBVIOUS
<1>2. ASSUME b <= c PROVE a * b <= a * c
  <2>1. PICK e \in Nat : c = b + e
    <3>1. c - b \in Nat /\ c = b + (c - b)
      BY <1>2
    <3> QED BY <3>1
  <2>2. a * (b + e) = a * b + a * e /\ a * e >= 0 /\ a * b \in Nat /\ a * e \in Nat
    OBVIOUS
  <2> QED BY <2>1, <2>2
<1> QED BY <1>1, <1>2

\* A number of turns, the time of one and back: the number comes back.
LEMMA WayBack ==
  ASSUME NEW s \in Nat, NEW p \in Nat, p > 0,
         NEW w \in Nat, w = Rounded(s, p), w > 0,
         NEW v \in Nat, v = Rounded(s, w), v > 0
  PROVE  Rounded(s, v) = w
<1>1. 2 * (p * w) <= 2 * s + p /\ 2 * s + p < 2 * (p * w) + 2 * p
  BY RoundedBounds
<1>2. 2 * (w * v) <= 2 * s + w /\ 2 * s + w < 2 * (w * v) + 2 * w
  BY RoundedBounds
<1>3. CASE w <= v
  <2>1. v * w = w * v /\ w * v \in Nat
    BY Products
  <2>2. 2 * (v * w) <= 2 * s + v /\ 2 * s + v < 2 * (v * w) + 2 * v
    BY <1>2, <1>3, <2>1
  <2> QED BY <2>2, RoundedIs
<1>4. CASE v < w
  <2>1. p <= w
    <3> SUFFICES ASSUME p > w PROVE FALSE
      OBVIOUS
    <3>1. w * w \in Nat /\ w * p \in Nat /\ w * v \in Nat /\ p * w = w * p
      BY Products
    <3>2. PICK e \in Nat : p = (w + 1) + e
      <4>1. p - (w + 1) \in Nat /\ p = (w + 1) + (p - (w + 1))
        OBVIOUS
      <4> QED BY <4>1
    <3>3. w * p = w * w + w + w * e
      <4>1. w * ((w + 1) + e) = w * (w + 1) + w * e
        BY Products
      <4>2. w * (w + 1) = w * w + w
        OBVIOUS
      <4> QED BY <3>2, <4>1, <4>2
    <3>4. e <= w * e
      <4>1. e * 1 <= e * w /\ e * w = w * e
        BY Products
      <4> QED BY <4>1
    <3>5. w * v + w <= w * w
      <4>1. w * (v + 1) <= w * w
        BY <1>4, Products
      <4>2. w * (v + 1) = w * v + w
        OBVIOUS
      <4> QED BY <4>1, <4>2
    <3>6. w * e \in Nat
      BY Products
    <3>7. 2 * s < 2 * (w * v) + w
      BY <1>2, <3>1
    <3>8. 2 * (w * v) + 2 * w <= 2 * (w * w)
      BY <3>1, <3>5
    <3>9. 2 * (w * w) + 2 * w + 2 * (w * e) <= 2 * s + p
      BY <1>1, <3>1, <3>3
    <3> QED BY <3>1, <3>2, <3>4, <3>6, <3>7, <3>8, <3>9
  <2>2. w * p = p * w
    BY Products
  <2>3. 2 * (w * p) <= 2 * s + w /\ 2 * s + w < 2 * (w * p) + 2 * w
    BY <1>1, <2>1, <2>2
  <2>4. v = p
    BY <2>3, RoundedIs
  <2> QED BY <2>4
<1> QED BY <1>3, <1>4

(* The driver turns a period into a speed, clevod that speed into a period    *)
(* and the period into a speed again (fan_status_reply, driver.rs:115): the   *)
(* speed that is shown is the speed the driver had, for every period of 16    *)
(* bits.                                                                      *)
THEOREM SpeedSurvives ==
  ASSUME NEW p \in Nat, p <= 65535
  PROVE  PeriodToRpm(RpmToPeriod(PeriodToRpm(p))) = PeriodToRpm(p)
<1>1. CASE p = 0
  BY <1>1 DEF PeriodToRpm, RpmToPeriod
<1>2. CASE p > 0
  <2>1. Scale = 2156250
    BY DEF Scale
  <2>0. Scale \in Nat
    BY <2>1
  <2> DEFINE w == Rounded(Scale, p)
  <2>2. w \in Nat /\ 2 * (p * w) <= 2 * Scale + p /\ 2 * Scale + p < 2 * (p * w) + 2 * p
    BY <1>2, <2>0, RoundedBounds
  <2> HIDE DEF w
  <2>3. p * w \in Nat /\ w * p = p * w /\ (w <= 32 => p * w <= p * 32) /\ w * 1 <= w * p
    BY <1>2, <2>2, Products
  <2>4. w >= 33 /\ w <= Scale + 32768
    <3>1. ASSUME NEW k \in Nat, 2 * k <= 2 * Scale + p, 2 * Scale + p < 2 * k + 2 * p,
                 w <= 32 => k <= p * 32, w <= k
          PROVE  w >= 33 /\ w <= Scale + 32768
      BY <2>1, <2>2, <3>1
    <3> QED BY <2>2, <2>3, <3>1
  <2> DEFINE v == Rounded(Scale, w)
  <2>5. v \in Nat /\ 2 * (w * v) <= 2 * Scale + w /\ 2 * Scale + w < 2 * (w * v) + 2 * w
    <3>1. w > 0
      BY <2>2, <2>4
    <3> QED BY <2>0, <2>2, <3>1, RoundedBounds
  <2> HIDE DEF v
  <2>6. w * v \in Nat /\ (v >= 65536 => w * 65536 <= w * v) /\ (v = 0 => w * v = 0)
    BY <2>2, <2>5, Products
  <2>7. v <= 65535 /\ v > 0
    <3>1. ASSUME NEW l \in Nat, 2 * l <= 2 * Scale + w, 2 * Scale + w < 2 * l + 2 * w,
                 v >= 65536 => w * 65536 <= l, v = 0 => l = 0
          PROVE  v <= 65535 /\ v > 0
      BY <2>1, <2>2, <2>4, <2>5, <3>1
    <3> QED BY <2>5, <2>6, <3>1
  <2>8. Rounded(Scale, v) = w
    BY <1>2, <2>0, <2>2, <2>4, <2>5, <2>7, WayBack DEF v, w
  <2>9. PeriodToRpm(p) = w
    BY <1>2 DEF PeriodToRpm, w
  <2>10. RpmToPeriod(w) = v
    BY <2>4, <2>5, <2>7 DEF RpmToPeriod, v
  <2>11. PeriodToRpm(v) = w
    BY <2>7, <2>8 DEF PeriodToRpm
  <2> QED BY <2>9, <2>10, <2>11
<1> QED BY <1>1, <1>2

-----------------------------------------------------------------------------
(* What a read through a transport says.  The operators here take what they   *)
(* read of the state as arguments: the machine m as [via, page7, firmware],   *)
(* and the moments there have been since the read began.                      *)

Machine == [via |-> via, page7 |-> page7, firmware |-> firmware]

\* Every value an answer may have, whoever it was meant for.
AnyAnswer == {Nothing, Failed} \cup Int \cup Samples
             \cup {"set", "clear", "rejected", "unknown version"}
             \cup [1..5 -> {"set", "clear", "rejected"}]

Listed(m, what) ==
    IF what = "status"
    THEN IF m.via = "driver" THEN <<"fan1_input", "fan2_input", "raw_status">> ELSE <<"12">>
    ELSE IF m.via = "driver" THEN <<"capabilities">>
    ELSE IF m.page7 # Nothing THEN <<"page7">> ELSE Queries

\* The answer a is what the firmware says at one of the moments, or spared.
Says(m, question, a, moments) ==
    CASE question = "fan1_input"   -> \E s \in moments : a = PeriodToRpm(s.cpu)
      [] question = "fan2_input"   -> a = 0 \/ \E s \in moments : a = PeriodToRpm(s.gpu)
      [] question = "raw_status"   -> a = Nothing \/ \E s \in moments : a = s.raw
      [] question = "12"           -> a \in moments
      [] question = "capabilities" -> a = [i \in 1..5 |-> m.firmware[Queries[i]]]
      [] question = "page7"       -> a = m.page7
      [] OTHER                     -> a = m.firmware[question]

Answered(m, what, answers, moments) ==
    \A i \in 1..Len(answers) : Says(m, Listed(m, what)[i], answers[i], moments)

\* The result acpi_call keeps answers the next question.
Awaited(m, what, answers, moments, buffer) ==
    buffer # Nothing =>
      /\ buffer.command = Listed(m, what)[Len(answers) + 1]
      /\ buffer.answer = Failed \/ Says(m, buffer.command, buffer.answer, moments)

TempOf(class, raw) == IF raw = 0 THEN Nothing ELSE CpuTemp(class, raw)

\* What a read has told is true of the machine.
ToldTruly(m, class, said, moments) ==
    /\ said = [modes |-> TRUE] =>
         \/ m.page7 = "set"
         \/ m.page7 = Nothing /\ m.firmware["96"] = "set" /\ m.firmware["16"] = "set"
                              /\ "rejected" \notin {m.firmware[q] : q \in Range(Queries)}
    /\ said \notin {Nothing, Failed} \cup [modes : BOOLEAN] =>
         \E s, t, u \in moments :
           /\ said.cpu = PeriodToRpm(s.cpu)
           /\ said.gpu \in {PeriodToRpm(t.gpu)} \cup (IF m.via = "driver" THEN {0} ELSE {})
           /\ said.temp \in {TempOf(class, u.raw)}
                            \cup (IF m.via = "driver" THEN {Nothing} ELSE {})

MachineTyped ==
    /\ via \in {"driver", "acpi", "mock"} /\ firmware \in Firmwares /\ ec \in Samples
    /\ page7 \in {"set", "clear", "unknown version", Nothing}
    /\ via # "mock" => page7 = Nothing
    /\ result # Nothing => result.answer \in AnyAnswer

ReadersTyped ==
    /\ op \in [Readers -> {"idle", "status", "capabilities"}]
    /\ asked \in [Readers -> BOOLEAN] /\ undisturbed \in [Readers -> BOOLEAN]
    /\ parts \in [Readers -> Seq(AnyAnswer)] /\ told = [r \in Readers |-> told[r]]
    /\ since \in [Readers -> SUBSET Samples]
    /\ \A r \in Readers : op[r] # "idle" => ec \in since[r]

\* How far a reader is, and what is true of what it has.
ReaderHolds(m, class, what, waits, lone, answers, said, moments, buffer) ==
    /\ Len(answers) < Len(Listed(m, what))
    /\ waits => what # "idle" /\ m.via = "acpi"
    /\ lone =>
         IF what = "idle" THEN ToldTruly(m, class, said, moments)
         ELSE /\ Answered(m, what, answers, moments)
              /\ waits => Awaited(m, what, answers, moments, buffer)

ReaderTrue(r) ==
    ReaderHolds(Machine, tdp, op[r], asked[r], undisturbed[r], parts[r], told[r], since[r], result)

ReadInv == MachineTyped /\ ReadersTyped /\ \A r \in Readers : ReaderTrue(r)

\* The capability queries, as a set.
LEMMA QueriesAre ==
  /\ Len(Queries) = 5 /\ Queries[2] = "96" /\ Queries[3] = "16" /\ DOMAIN Queries = 1..5
  /\ Range(Queries) = {"122", "96", "16", "60", "82"}
  /\ \A i \in 1..5 : Queries[i] \in Range(Queries)
<1>1. /\ Len(Queries) = 5 /\ Queries[2] = "96" /\ Queries[3] = "16" /\ DOMAIN Queries = 1..5
      /\ Queries[1] = "122" /\ Queries[4] = "60" /\ Queries[5] = "82"
  BY DEF Queries
<1>2. \A i \in 1..5 : i = 1 \/ i = 2 \/ i = 3 \/ i = 4 \/ i = 5
  OBVIOUS
<1>3. Range(Queries) = {Queries[i] : i \in 1..5}
  BY <1>1 DEF Range
<1>4. Range(Queries) = {"122", "96", "16", "60", "82"}
  BY <1>1, <1>2, <1>3
<1> QED BY <1>1, <1>3, <1>4

\* The operators with arguments are those of Transports.
LEMMA AsListed ==
  /\ \A what : Questions(what) = Listed(Machine, what)
  /\ \A raw : Temperature(raw) = TempOf(tdp, raw)
  /\ Machine.via = via /\ Machine.page7 = page7 /\ Machine.firmware = firmware
BY DEF Questions, Listed, Machine, Temperature, TempOf

\* Later moments take nothing from what was true of the earlier ones.
LEMMA MoreMoments ==
  ASSUME NEW m, NEW what, NEW answers, NEW buffer, NEW moments, NEW more, moments \subseteq more
  PROVE  /\ Answered(m, what, answers, moments) => Answered(m, what, answers, more)
         /\ Awaited(m, what, answers, moments, buffer) => Awaited(m, what, answers, more, buffer)
<1>1. ASSUME NEW question, NEW a, Says(m, question, a, moments) PROVE Says(m, question, a, more)
  BY <1>1 DEF Says
<1> QED BY <1>1 DEF Answered, Awaited

\* A verdict on the modes is not a status.
LEMMA StatusIsNoVerdict ==
  ASSUME NEW a, NEW b, NEW c, NEW x
  PROVE  [cpu |-> a, gpu |-> b, temp |-> c] # [modes |-> x]
<1>1. DOMAIN [cpu |-> a, gpu |-> b, temp |-> c] = {"cpu", "gpu", "temp"}
      /\ DOMAIN [modes |-> x] = {"modes"}
  OBVIOUS
<1>2. "cpu" \notin {"modes"} /\ "cpu" \in {"cpu", "gpu", "temp"}
  OBVIOUS
<1> QED BY <1>1, <1>2

\* A status made of readings of the machine is true of it.
LEMMA StatusTruly ==
  ASSUME NEW m, NEW class, NEW moments, NEW said, said # [modes |-> TRUE],
         NEW s \in moments, NEW t \in moments, NEW u \in moments,
         said.cpu = PeriodToRpm(s.cpu),
         said.gpu = PeriodToRpm(t.gpu) \/ (m.via = "driver" /\ said.gpu = 0),
         said.temp = TempOf(class, u.raw) \/ (m.via = "driver" /\ said.temp = Nothing)
  PROVE  ToldTruly(m, class, said, moments)
<1>1. said.gpu \in {PeriodToRpm(t.gpu)} \cup (IF m.via = "driver" THEN {0} ELSE {})
  OBVIOUS
<1>2. said.temp \in {TempOf(class, u.raw)} \cup (IF m.via = "driver" THEN {Nothing} ELSE {})
  OBVIOUS
<1> QED BY <1>1, <1>2 DEF ToldTruly

\* What a read concludes from all its answers is true.
LEMMA ConcludesTruly ==
  ASSUME MachineTyped, NEW what \in {"status", "capabilities"}, NEW answers \in Seq(AnyAnswer),
         NEW moments \in SUBSET Samples, Len(answers) = Len(Listed(Machine, what)),
         Answered(Machine, what, answers, moments), Concluded(what, answers) # Failed
  PROVE  ToldTruly(Machine, tdp, Concluded(what, answers), moments)
<1> DEFINE c == Concluded(what, answers)
<1> SUFFICES ToldTruly(Machine, tdp, c, moments)
  OBVIOUS
<1>1. ASSUME NEW fw, DOMAIN fw = 1..5, \A i \in 1..5 : fw[i] = firmware[Queries[i]],
             c = Decoded(fw), page7 = Nothing
      PROVE  ToldTruly(Machine, tdp, c, moments)
  <2>1. "rejected" \notin Range(fw) /\ c = [modes |-> fw[2] = "set" /\ fw[3] = "set"]
    BY <1>1 DEF Decoded
  <2>2. c \in [modes : BOOLEAN]
    BY <2>1
  <2>3. ASSUME c = [modes |-> TRUE]
        PROVE  /\ firmware["96"] = "set" /\ firmware["16"] = "set"
               /\ "rejected" \notin {firmware[q] : q \in Range(Queries)}
    <3>1. fw[2] = "set" /\ fw[3] = "set"
      <4>1. c.modes = (fw[2] = "set" /\ fw[3] = "set") /\ c.modes = TRUE
        BY <2>1, <2>3
      <4> QED BY <4>1
    <3>2. firmware["96"] = "set" /\ firmware["16"] = "set"
      BY <1>1, <3>1, QueriesAre
    <3>3. \A i \in 1..5 : fw[i] # "rejected"
      BY <1>1, <2>1 DEF Range
    <3>4. \A q \in Range(Queries) : \E i \in 1..5 : q = Queries[i]
      BY QueriesAre DEF Range
    <3> QED BY <1>1, <3>2, <3>3, <3>4
  <2> HIDE DEF c
  <2> QED BY <1>1, <2>2, <2>3, AsListed DEF ToldTruly
<1>2. CASE what = "status" /\ via = "driver"
  <2>1. Listed(Machine, what) = <<"fan1_input", "fan2_input", "raw_status">>
    BY <1>2, AsListed DEF Listed
  <2>2. Len(answers) = 3 /\ 1 \in 1..3 /\ 2 \in 1..3 /\ 3 \in 1..3
    BY <2>1
  <2>3. /\ Says(Machine, "fan1_input", answers[1], moments)
        /\ Says(Machine, "fan2_input", answers[2], moments)
        /\ Says(Machine, "raw_status", answers[3], moments)
    <3>1. \A i \in 1..3 : Says(Machine, Listed(Machine, what)[i], answers[i], moments)
      BY <2>2 DEF Answered
    <3> QED BY <2>1, <3>1
  <2>4. PICK s \in moments : answers[1] = PeriodToRpm(s.cpu)
    BY <2>3 DEF Says
  <2>5. answers[2] = 0 \/ \E t \in moments : answers[2] = PeriodToRpm(t.gpu)
    BY <2>3 DEF Says
  <2>6. answers[3] = Nothing \/ \E u \in moments : answers[3] = u.raw
    BY <2>3 DEF Says
  <2>7. \A x \in moments : x.cpu \in Nat /\ x.cpu <= 65535 /\ x.gpu \in Nat /\ x.gpu <= 65535
    <3>1. \A x \in moments : x.cpu \in Words /\ x.gpu \in Words
      BY SamplesTyped
    <3>2. \A n \in Words : n \in Nat /\ n <= 65535
      BY DEF Words
    <3> QED BY <3>1, <3>2
  <2>8. PeriodToRpm(RpmToPeriod(answers[1])) = PeriodToRpm(s.cpu)
    BY <2>4, <2>7, SpeedSurvives
  <2>9. PICK t \in moments : PeriodToRpm(RpmToPeriod(answers[2])) \in {PeriodToRpm(t.gpu), 0}
    <3>1. CASE answers[2] = 0
      <4>1. PeriodToRpm(RpmToPeriod(answers[2])) = 0
        BY <3>1 DEF PeriodToRpm, RpmToPeriod
      <4> QED BY <2>4, <4>1
    <3>2. CASE \E t \in moments : answers[2] = PeriodToRpm(t.gpu)
      BY <2>7, <3>2, SpeedSurvives
    <3> QED BY <2>5, <3>1, <3>2
  <2> DEFINE celsius == IF answers[3] = Nothing THEN Nothing ELSE Temperature(answers[3])
  <2>10. PICK u \in moments : celsius \in {TempOf(tdp, u.raw), Nothing}
    BY <2>4, <2>6, AsListed
  <2>11. c = [cpu  |-> PeriodToRpm(RpmToPeriod(answers[1])),
              gpu  |-> PeriodToRpm(RpmToPeriod(answers[2])), temp |-> celsius]
    BY <1>2 DEF Concluded, Status
  <2> HIDE DEF celsius
  <2>12. c # [modes |-> TRUE]
    BY <2>11, StatusIsNoVerdict
  <2>13. /\ c.cpu = PeriodToRpm(RpmToPeriod(answers[1]))
         /\ c.gpu = PeriodToRpm(RpmToPeriod(answers[2])) /\ c.temp = celsius
    BY <2>11
  <2> HIDE DEF c
  <2> QED BY <1>2, <2>8, <2>9, <2>10, <2>12, <2>13, AsListed, StatusTruly
<1>3. CASE what = "status" /\ via # "driver"
  <2>1. Listed(Machine, what) = <<"12">>
    BY <1>3, AsListed DEF Listed
  <2>2. Says(Machine, "12", answers[1], moments)
    <3>1. \A i \in 1..1 : Says(Machine, Listed(Machine, what)[i], answers[i], moments)
      BY <2>1 DEF Answered
    <3> QED BY <2>1, <3>1
  <2>3. answers[1] \in moments
    BY <2>2 DEF Says
  <2>4. c = [cpu |-> PeriodToRpm(answers[1].cpu), gpu |-> PeriodToRpm(answers[1].gpu),
             temp |-> Temperature(answers[1].raw)]
    BY <1>3 DEF Concluded, Status
  <2>5. c # [modes |-> TRUE]
    BY <2>4, StatusIsNoVerdict
  <2>6. /\ c.cpu = PeriodToRpm(answers[1].cpu) /\ c.gpu = PeriodToRpm(answers[1].gpu)
        /\ c.temp = TempOf(tdp, answers[1].raw)
    BY <2>4, AsListed
  <2> HIDE DEF c
  <2> QED BY <2>3, <2>5, <2>6, StatusTruly
<1>4. CASE what = "capabilities" /\ via = "driver"
  <2>1. Listed(Machine, what) = <<"capabilities">>
    BY <1>4, AsListed DEF Listed
  <2>2. Says(Machine, "capabilities", answers[1], moments)
    <3>1. \A i \in 1..1 : Says(Machine, Listed(Machine, what)[i], answers[i], moments)
      BY <2>1 DEF Answered
    <3> QED BY <2>1, <3>1
  <2>3. answers[1] = [i \in 1..5 |-> firmware[Queries[i]]]
    BY <2>2, AsListed DEF Says
  <2>4. /\ DOMAIN answers[1] = 1..5
        /\ \A i \in 1..5 : answers[1][i] = firmware[Queries[i]]
    BY <2>3
  <2>5. c = Decoded(answers[1]) /\ page7 = Nothing
    BY <1>4 DEF Concluded, MachineTyped
  <2> HIDE DEF c
  <2> QED BY <1>1, <2>4, <2>5
<1>5. CASE what = "capabilities" /\ via # "driver" /\ page7 # Nothing
  <2>1. Listed(Machine, what) = <<"page7">>
    BY <1>5, AsListed DEF Listed
  <2>2. Says(Machine, "page7", answers[1], moments)
    <3>1. \A i \in 1..1 : Says(Machine, Listed(Machine, what)[i], answers[i], moments)
      BY <2>1 DEF Answered
    <3> QED BY <2>1, <3>1
  <2>3. answers[1] = page7
    BY <2>2, AsListed DEF Says
  <2>4. c = [modes |-> page7 = "set"]
    BY <1>5, <2>3 DEF Concluded, Page
  <2>5. c \in [modes : BOOLEAN] /\ c.modes = (page7 = "set")
    BY <2>4
  <2>6. c = [modes |-> TRUE] => c.modes
    OBVIOUS
  <2> HIDE DEF c
  <2> QED BY <2>5, <2>6, AsListed DEF ToldTruly
<1>6. CASE what = "capabilities" /\ via # "driver" /\ page7 = Nothing
  <2>1. Listed(Machine, what) = Queries
    BY <1>6, AsListed DEF Listed
  <2>2. Len(answers) = 5 /\ DOMAIN answers = 1..5
    BY <2>1, QueriesAre
  <2>3. \A i \in 1..5 : Says(Machine, Queries[i], answers[i], moments)
    BY <2>1, <2>2 DEF Answered
  <2>4. \A i \in 1..5 : answers[i] = firmware[Queries[i]]
    <3>1. \A q \in Range(Queries) : \A a : Says(Machine, q, a, moments) => a = firmware[q]
      BY QueriesAre, AsListed DEF Says
    <3> QED BY <2>3, <3>1, QueriesAre
  <2>5. c = Decoded(answers)
    BY <1>6 DEF Concluded
  <2> HIDE DEF c
  <2> QED BY <1>1, <1>6, <2>2, <2>4, <2>5
<1> QED BY <1>2, <1>3, <1>4, <1>5, <1>6

\* What others do does not make untrue what a reader has.
LEMMA ReaderUnmoved ==
  ASSUME NEW r \in Readers, ReaderTrue(r), UNCHANGED machine,
         op'[r] = op[r], asked'[r] = asked[r], parts'[r] = parts[r], told'[r] = told[r],
         \/ op[r] = "idle" /\ since'[r] = since[r]
         \/ op[r] # "idle" /\ since[r] \subseteq since'[r],
         undisturbed'[r] => undisturbed[r] /\ (asked[r] => result' = result)
  PROVE  ReaderTrue(r)'
<1>1. Machine' = Machine /\ tdp' = tdp
  BY DEF machine, Machine
<1>2. CASE op[r] = "idle"
  BY <1>1, <1>2 DEF ReaderTrue, ReaderHolds
<1>3. CASE op[r] # "idle"
  <2>1. Answered(Machine, op[r], parts[r], since[r])
          => Answered(Machine, op[r], parts[r], since'[r])
    BY <1>3, MoreMoments
  <2>2. Awaited(Machine, op[r], parts[r], since[r], result)
          => Awaited(Machine, op[r], parts[r], since'[r], result)
    BY <1>3, MoreMoments
  <2> QED BY <1>1, <1>3, <2>1, <2>2 DEF ReaderTrue, ReaderHolds
<1> QED BY <1>2, <1>3

\* A step changes what one reader has.
LEMMA TypedAfter ==
  ASSUME ReadersTyped, NEW r \in Readers,
         op' = [op EXCEPT ![r] = op'[r]], parts' = [parts EXCEPT ![r] = parts'[r]],
         told' = [told EXCEPT ![r] = told'[r]], since' = [since EXCEPT ![r] = since'[r]],
         op'[r] \in {"idle", "status", "capabilities"}, parts'[r] \in Seq(AnyAnswer),
         since'[r] \in SUBSET Samples, op'[r] # "idle" => ec \in since'[r],
         asked' \in [Readers -> BOOLEAN], undisturbed' \in [Readers -> BOOLEAN], ec' = ec
  PROVE  /\ ReadersTyped'
         /\ \A u \in Readers \ {r} : /\ op'[u] = op[u] /\ parts'[u] = parts[u]
                                     /\ told'[u] = told[u] /\ since'[u] = since[u]
<1>1. \A u \in Readers \ {r} : /\ op'[u] = op[u] /\ parts'[u] = parts[u]
                               /\ told'[u] = told[u] /\ since'[u] = since[u]
  BY DEF ReadersTyped
<1>2. /\ op' \in [Readers -> {"idle", "status", "capabilities"}]
      /\ told' = [u \in Readers |-> told'[u]]
  BY DEF ReadersTyped
<1>3. parts' \in [Readers -> Seq(AnyAnswer)] /\ since' \in [Readers -> SUBSET Samples]
  BY DEF ReadersTyped
<1>4. \A u \in Readers : op'[u] # "idle" => ec' \in since'[u]
  BY <1>1 DEF ReadersTyped
<1> QED BY <1>1, <1>2, <1>3, <1>4 DEF ReadersTyped

\* A read is over without telling anything.
LEMMA ToldNothing ==
  ASSUME NEW m, NEW class, NEW moments, NEW said \in {Nothing, Failed}
  PROVE  ToldTruly(m, class, said, moments)
<1>1. said # [modes |-> TRUE]
  <2>1. [modes |-> TRUE] \in [modes : BOOLEAN]
    OBVIOUS
  <2> QED BY <2>1, ValuesDistinct
<1> QED BY <1>1 DEF ToldTruly

\* Every status and every list of capabilities asks for something.
LEMMA ListedSome ==
  \A m, what : Len(Listed(m, what)) \in Nat \ {0}
<1> TAKE m, what
<1>1. CASE what = "status" /\ m.via = "driver"
  BY <1>1 DEF Listed
<1>2. CASE what = "status" /\ m.via # "driver"
  BY <1>2 DEF Listed
<1>3. CASE what # "status" /\ (m.via = "driver" \/ m.page7 # Nothing)
  BY <1>3 DEF Listed
<1>4. CASE what # "status" /\ m.via # "driver" /\ m.page7 = Nothing
  BY <1>4, QueriesAre DEF Listed
<1> QED BY <1>1, <1>2, <1>3, <1>4

\* One more answer, and all there is to say of the others.
LEMMA GatherKeeps ==
  ASSUME ReadInv, NEW r \in Readers, op[r] # "idle", NEW a \in AnyAnswer, Gather(r, a),
         undisturbed[r] => a = Failed \/ Says(Machine, Question(r), a, since[r]),
         UNCHANGED <<machine, ec>>, result' # Nothing => result'.answer \in AnyAnswer,
         asked' \in [Readers -> BOOLEAN], ~asked'[r],
         undisturbed' \in [Readers -> BOOLEAN], undisturbed'[r] => undisturbed[r],
         \A u \in Readers \ {r} :
           /\ asked'[u] = asked[u]
           /\ undisturbed'[u] => undisturbed[u] /\ result' = result
  PROVE  ReadInv'
<1> DEFINE all == Append(parts[r], a)
<1>1. MachineTyped /\ ReadersTyped /\ ReaderTrue(r) /\ Machine' = Machine /\ tdp' = tdp /\ ec' = ec
  BY DEF ReadInv, machine, Machine
<1>2. MachineTyped'
  BY <1>1 DEF MachineTyped, machine
<1>3. /\ parts[r] \in Seq(AnyAnswer) /\ since[r] \in SUBSET Samples
      /\ op[r] \in {"status", "capabilities"} /\ told = [u \in Readers |-> told[u]]
      /\ op \in [Readers -> {"idle", "status", "capabilities"}]
      /\ parts \in [Readers -> Seq(AnyAnswer)] /\ since \in [Readers -> SUBSET Samples]
      /\ ec \in since[r]
  BY <1>1 DEF ReadersTyped
<1>4. /\ all \in Seq(AnyAnswer) /\ Len(all) = Len(parts[r]) + 1 /\ all[Len(parts[r]) + 1] = a
      /\ \A i \in 1..Len(parts[r]) : all[i] = parts[r][i]
      /\ Len(parts[r]) \in Nat /\ <<>> \in Seq(AnyAnswer) /\ Len(<<>>) = 0
  BY <1>3
<1>5. /\ Len(parts[r]) < Len(Listed(Machine, op[r])) /\ Len(Listed(Machine, op[r])) \in Nat
      /\ undisturbed[r] => Answered(Machine, op[r], parts[r], since[r])
  BY <1>1, ListedSome DEF ReaderTrue, ReaderHolds
<1>6. Question(r) = Listed(Machine, op[r])[Len(parts[r]) + 1]
      /\ Questions(op[r]) = Listed(Machine, op[r])
  BY AsListed DEF Question
<1>7. undisturbed[r] /\ a # Failed => Answered(Machine, op[r], all, since[r])
  <2> SUFFICES ASSUME undisturbed[r], a # Failed, NEW i \in 1..Len(all)
               PROVE  Says(Machine, Listed(Machine, op[r])[i], all[i], since[r])
    BY DEF Answered
  <2>1. CASE i = Len(parts[r]) + 1
    BY <1>4, <1>6, <2>1
  <2>2. CASE i # Len(parts[r]) + 1
    <3>1. i \in 1..Len(parts[r])
      BY <1>4, <2>2
    <3> QED BY <1>4, <1>5, <3>1 DEF Answered
  <2> QED BY <2>1, <2>2
<1> HIDE DEF all
<1>8. PICK o \in {"idle", "status", "capabilities"}, s \in Seq(AnyAnswer), m \in SUBSET Samples,
           t \in {told[r]} \cup {Failed, Concluded(op[r], all)} :
        /\ op' = [op EXCEPT ![r] = o] /\ parts' = [parts EXCEPT ![r] = s]
        /\ told' = [told EXCEPT ![r] = t] /\ since' = [since EXCEPT ![r] = m]
        /\ o # "idle" => ec \in m
        /\ Len(s) < Len(Listed(Machine, o))
        /\ undisturbed[r] =>
             IF o = "idle" THEN ToldTruly(Machine, tdp, t, m) ELSE Answered(Machine, o, s, m)
  <2>1. ASSUME NEW t \in {Failed, Concluded(op[r], all)}, Over(r, t),
               undisturbed[r] /\ t # Failed => ToldTruly(Machine, tdp, t, since[r])
        PROVE  /\ op' = [op EXCEPT ![r] = "idle"] /\ parts' = [parts EXCEPT ![r] = <<>>]
               /\ told' = [told EXCEPT ![r] = t]
               /\ \E m \in SUBSET Samples : /\ since' = [since EXCEPT ![r] = m]
                                            /\ undisturbed[r] => ToldTruly(Machine, tdp, t, m)
    <3> DEFINE m == IF t = Failed THEN {} ELSE since[r]
    <3>1. op' = [op EXCEPT ![r] = "idle"] /\ parts' = [parts EXCEPT ![r] = <<>>]
          /\ told' = [told EXCEPT ![r] = t]
      BY <2>1 DEF Over
    <3>2. since' = [since EXCEPT ![r] = m] /\ m \in SUBSET Samples
      BY <1>3, <2>1 DEF Over
    <3>3. undisturbed[r] => ToldTruly(Machine, tdp, t, m)
      BY <2>1, ToldNothing
    <3> QED BY <3>1, <3>2, <3>3
  <2>2. Len(<<>>) < Len(Listed(Machine, "idle"))
    BY <1>4, ListedSome
  <2>3. CASE a = Failed
    <3>1. Over(r, Failed)
      BY <2>3 DEF Gather
    <3> QED BY <1>4, <2>1, <2>2, <3>1
  <2>4. CASE a # Failed /\ Len(all) = Len(Listed(Machine, op[r]))
    <3>1. Over(r, Concluded(op[r], all))
      BY <1>6, <2>4 DEF Gather, all
    <3>2. undisturbed[r] /\ Concluded(op[r], all) # Failed
            => ToldTruly(Machine, tdp, Concluded(op[r], all), since[r])
      BY <1>1, <1>3, <1>4, <1>7, <2>4, ConcludesTruly
    <3> QED BY <1>4, <2>1, <2>2, <3>1, <3>2
  <2>5. CASE a # Failed /\ Len(all) # Len(Listed(Machine, op[r]))
    <3>1. parts' = [parts EXCEPT ![r] = all] /\ op' = op /\ told' = told /\ since' = since
      BY <1>6, <2>5 DEF Gather, all
    <3>2. op' = [op EXCEPT ![r] = op[r]]
      BY <1>3, <3>1
    <3>3. told' = [told EXCEPT ![r] = told[r]]
      BY <1>3, <3>1
    <3>4. since' = [since EXCEPT ![r] = since[r]]
      BY <1>3, <3>1
    <3>5. Len(all) < Len(Listed(Machine, op[r]))
      BY <1>4, <1>5, <2>5
    <3> QED BY <1>3, <1>4, <1>7, <2>5, <3>1, <3>2, <3>3, <3>4, <3>5
  <2> QED BY <2>3, <2>4, <2>5
<1>9. /\ ReadersTyped'
      /\ op'[r] = o /\ parts'[r] = s /\ told'[r] = t /\ since'[r] = m
      /\ \A u \in Readers \ {r} : /\ op'[u] = op[u] /\ parts'[u] = parts[u]
                                  /\ told'[u] = told[u] /\ since'[u] = since[u]
  <2>1. /\ op' = [op EXCEPT ![r] = o] /\ parts' = [parts EXCEPT ![r] = s]
        /\ told' = [told EXCEPT ![r] = t] /\ since' = [since EXCEPT ![r] = m]
        /\ o # "idle" => ec \in m
    BY <1>8
  <2>2. op'[r] = o /\ parts'[r] = s /\ told'[r] = t /\ since'[r] = m
    BY <1>3, <2>1
  <2> QED BY <1>1, <2>1, <2>2, TypedAfter
<1>10. ReaderTrue(r)'
  BY <1>1, <1>8, <1>9 DEF ReaderTrue, ReaderHolds
<1>11. ASSUME NEW u \in Readers \ {r} PROVE ReaderTrue(u)'
  BY <1>9, <1>11, ReaderUnmoved DEF ReadInv
<1> QED BY <1>2, <1>9, <1>10, <1>11 DEF ReadInv

\* The question a reader is at, and that every answer of the machine is true.
LEMMA MachineAnswers ==
  ASSUME ReadInv, NEW r \in Readers, op[r] # "idle"
  PROVE  LET q == Question(r)
         IN  /\ via = "driver" => q \in {"fan1_input", "fan2_input", "raw_status", "capabilities"}
             /\ via = "mock" => q \in {"12", "page7"} \cup Range(Queries)
             /\ via = "acpi" => q \in {"12"} \cup Range(Queries)
             /\ q = Listed(Machine, op[r])[Len(parts[r]) + 1]
<1> DEFINE q == Question(r)
           n == Len(parts[r]) + 1
<1>1. /\ op[r] \in {"status", "capabilities"} /\ n \in 1..Len(Listed(Machine, op[r]))
      /\ MachineTyped
  <2>1. parts[r] \in Seq(AnyAnswer) /\ op[r] \in {"status", "capabilities"}
    BY DEF ReadInv, ReadersTyped
  <2>2. Len(parts[r]) < Len(Listed(Machine, op[r])) /\ Len(Listed(Machine, op[r])) \in Nat
    BY ListedSome DEF ReadInv, ReaderTrue, ReaderHolds
  <2> QED BY <2>1, <2>2 DEF ReadInv
<1>2. q = Listed(Machine, op[r])[n]
  BY AsListed DEF Question
<1> HIDE DEF q, n
<1>3. CASE via = "driver"
  <2>1. CASE op[r] = "status"
    <3>1. Listed(Machine, op[r]) = <<"fan1_input", "fan2_input", "raw_status">>
      BY <1>3, <2>1, AsListed DEF Listed
    <3>2. n = 1 \/ n = 2 \/ n = 3
      BY <1>1, <3>1
    <3>3. q \in {"fan1_input", "fan2_input", "raw_status"}
      BY <1>2, <3>1, <3>2
    <3> QED BY <1>2, <1>3, <3>3 DEF q, n
  <2>2. CASE op[r] = "capabilities"
    <3>1. Listed(Machine, op[r]) = <<"capabilities">>
      BY <1>3, <2>2, AsListed DEF Listed
    <3>2. n = 1
      BY <1>1, <3>1
    <3>3. q = "capabilities"
      BY <1>2, <3>1, <3>2
    <3> QED BY <1>2, <1>3, <3>3 DEF q, n
  <2> QED BY <1>1, <2>1, <2>2
<1>4. CASE via # "driver"
  <2>1. CASE op[r] = "status"
    <3>1. Listed(Machine, op[r]) = <<"12">>
      BY <1>4, <2>1, AsListed DEF Listed
    <3>2. n = 1
      BY <1>1, <3>1
    <3>3. q = "12"
      BY <1>2, <3>1, <3>2
    <3> QED BY <1>2, <1>4, <3>3 DEF q, n
  <2>2. CASE op[r] = "capabilities" /\ page7 # Nothing
    <3>1. Listed(Machine, op[r]) = <<"page7">>
      BY <1>4, <2>2, AsListed DEF Listed
    <3>2. n = 1
      BY <1>1, <3>1
    <3>3. via = "mock"
      BY <1>1, <2>2 DEF MachineTyped
    <3>4. q = "page7"
      BY <1>2, <3>1, <3>2
    <3> QED BY <1>2, <3>3, <3>4 DEF q, n
  <2>3. CASE op[r] = "capabilities" /\ page7 = Nothing
    <3>1. Listed(Machine, op[r]) = Queries
      BY <1>4, <2>3, AsListed DEF Listed
    <3>2. q \in Range(Queries)
      BY <1>1, <1>2, <3>1, QueriesAre
    <3> QED BY <1>2, <1>4, <3>2 DEF q, n
  <2> QED BY <1>1, <2>1, <2>2, <2>3
<1> QED BY <1>3, <1>4

\* What the machine says to the question is an answer, and a true one.
LEMMA TrueAnswer ==
  ASSUME ReadInv, NEW r \in Readers, op[r] # "idle"
  PROVE  /\ via = "driver" =>
              \A a \in {File(Question(r)), Spared(Question(r))} :
                a \in AnyAnswer /\ (a = Failed \/ Says(Machine, Question(r), a, since[r]))
         /\ Question(r) = "12" => ec \in AnyAnswer /\ Says(Machine, Question(r), ec, since[r])
         /\ Question(r) \in Range(Queries) =>
              /\ firmware[Question(r)] \in AnyAnswer
              /\ Says(Machine, Question(r), firmware[Question(r)], since[r])
         /\ Question(r) = "page7" =>
              page7 \in AnyAnswer /\ Says(Machine, Question(r), page7, since[r])
<1>1. ec \in since[r] /\ ec \in Samples /\ MachineTyped
  BY DEF ReadInv, ReadersTyped, MachineTyped
<1>2. ec.cpu \in Words /\ ec.gpu \in Words /\ ec.raw \in Bytes
  BY <1>1, SamplesTyped
<1>3. \A n \in Words : PeriodToRpm(n) \in Nat
  <2> SUFFICES ASSUME NEW n \in Words PROVE PeriodToRpm(n) \in Nat
    OBVIOUS
  <2>1. n \in Nat
    BY DEF Words
  <2>2. Scale \in Nat
    BY DEF Scale
  <2>3. n > 0 => Rounded(Scale, n) \in Nat
    BY <2>1, <2>2, RoundedBounds
  <2> QED BY <2>1, <2>3 DEF PeriodToRpm
<1>4. ec.raw \in Int
  BY <1>2 DEF Bytes
<1>5. \A q \in Range(Queries) : firmware[q] \in {"set", "clear", "rejected"}
  <2>1. firmware \in [Range(Queries) -> {"set", "clear", "rejected"}]
    BY <1>1, FirmwaresTyped DEF MachineTyped
  <2> QED BY <2>1
<1>6. ASSUME via = "driver", NEW a \in {File(Question(r)), Spared(Question(r))}
      PROVE  a \in AnyAnswer /\ (a = Failed \/ Says(Machine, Question(r), a, since[r]))
  <2>1. Question(r) \in {"fan1_input", "fan2_input", "raw_status", "capabilities"}
    BY <1>6, MachineAnswers
  <2>2. CASE Question(r) = "fan1_input"
    <3>1. a = Failed \/ a = PeriodToRpm(ec.cpu)
      BY <1>6, <2>2 DEF File, Spared
    <3>2. PeriodToRpm(ec.cpu) \in Int
      BY <1>2, <1>3
    <3> QED BY <1>1, <2>2, <3>1, <3>2 DEF Says, AnyAnswer
  <2>3. CASE Question(r) = "fan2_input"
    <3>1. a = 0 \/ a = PeriodToRpm(ec.gpu)
      BY <1>6, <2>3 DEF File, Spared
    <3>2. PeriodToRpm(ec.gpu) \in Int
      BY <1>2, <1>3
    <3>3. a \in AnyAnswer
      <4>1. a \in Int
        BY <3>1, <3>2
      <4> QED BY <4>1 DEF AnyAnswer
    <3>4. a = 0 \/ \E s \in since[r] : a = PeriodToRpm(s.gpu)
      BY <1>1, <3>1
    <3> QED BY <2>3, <3>3, <3>4 DEF Says
  <2>4. CASE Question(r) = "raw_status"
    <3>1. a = Nothing \/ a = ec.raw
      BY <1>6, <2>4 DEF File, Spared
    <3> QED BY <1>1, <1>4, <2>4, <3>1 DEF Says, AnyAnswer
  <2>5. CASE Question(r) = "capabilities"
    <3>1. a = Failed \/ a = [i \in 1..5 |-> firmware[Queries[i]]]
      BY <1>6, <2>5 DEF File, Spared
    <3>2. [i \in 1..5 |-> firmware[Queries[i]]] \in [1..5 -> {"set", "clear", "rejected"}]
      BY <1>5, QueriesAre
    <3> QED BY <2>5, <3>1, <3>2, AsListed DEF Says, AnyAnswer
  <2> QED BY <2>1, <2>2, <2>3, <2>4, <2>5
<1>7. ASSUME Question(r) = "12"
      PROVE  ec \in AnyAnswer /\ Says(Machine, Question(r), ec, since[r])
  BY <1>1, <1>7 DEF Says, AnyAnswer
<1>8. ASSUME Question(r) \in Range(Queries)
      PROVE  /\ firmware[Question(r)] \in AnyAnswer
             /\ Says(Machine, Question(r), firmware[Question(r)], since[r])
  <2>1. firmware[Question(r)] \in AnyAnswer
    BY <1>5, <1>8 DEF AnyAnswer
  <2>2. Question(r) \notin {"fan1_input", "fan2_input", "raw_status", "12", "capabilities", "page7"}
    BY <1>8, QueriesAre
  <2> QED BY <2>1, <2>2, AsListed DEF Says
<1>9. ASSUME Question(r) = "page7"
      PROVE  page7 \in AnyAnswer /\ Says(Machine, Question(r), page7, since[r])
  BY <1>1, <1>9, AsListed DEF Says, AnyAnswer, MachineTyped
<1> QED BY <1>6, <1>7, <1>8, <1>9

\* The steps that bring an answer, or none.
LEMMA AnswerSteps ==
  ASSUME ReadInv, NEW r \in Readers,
         ReadFile(r) \/ Replay(r) \/ NoAcpiCall(r) \/ CommandFails(r) \/ CollectReply(r)
  PROVE  ReadInv'
<1>1. ReadersTyped /\ MachineTyped /\ ReaderTrue(r) /\ Failed \in AnyAnswer /\ op[r] # "idle"
      /\ asked \in [Readers -> BOOLEAN] /\ undisturbed \in [Readers -> BOOLEAN]
  BY DEF ReadInv, ReadersTyped, AnyAnswer, ReaderTrue, ReaderHolds, ReadFile, Replay, NoAcpiCall,
         CommandFails, CollectReply, Sends
<1>2. asked[r] => via = "acpi"
  BY <1>1, AsListed DEF ReaderTrue, ReaderHolds
<1>3. ASSUME NEW a \in AnyAnswer, Gather(r, a), ~asked[r],
             a = Failed \/ Says(Machine, Question(r), a, since[r]),
             UNCHANGED <<machine, ec, result, asked, undisturbed>>
      PROVE  ReadInv'
  <2>1. result' # Nothing => result'.answer \in AnyAnswer
    BY <1>1, <1>3 DEF MachineTyped
  <2> QED BY <1>1, <1>3, <2>1, GatherKeeps
<1>4. CASE ReadFile(r)
  <2>1. PICK a \in {File(Question(r)), Spared(Question(r))} : Gather(r, a)
    BY <1>4 DEF ReadFile
  <2>2. a \in AnyAnswer /\ (a = Failed \/ Says(Machine, Question(r), a, since[r])) /\ ~asked[r]
    BY <1>1, <1>2, <1>4, TrueAnswer DEF ReadFile
  <2> QED BY <1>3, <1>4, <2>1, <2>2 DEF ReadFile
<1>5. CASE Replay(r)
  <2>1. /\ Question(r) \in {"12", "page7"} \cup Range(Queries) /\ ~asked[r]
        /\ UNCHANGED <<machine, ec, result, asked, undisturbed>>
    BY <1>1, <1>2, <1>5, MachineAnswers DEF Replay
  <2> DEFINE a == IF Question(r) = "page7" THEN page7
                  ELSE IF Question(r) \notin recorded THEN Failed
                  ELSE IF Question(r) = "12" THEN ec ELSE firmware[Question(r)]
  <2>2. Gather(r, a)
    BY <1>5 DEF Replay
  <2>3. a \in AnyAnswer /\ (a = Failed \/ Says(Machine, Question(r), a, since[r]))
    BY <1>1, <2>1, TrueAnswer
  <2> HIDE DEF a
  <2> QED BY <1>3, <2>1, <2>2, <2>3
<1>6. CASE NoAcpiCall(r)
  BY <1>1, <1>3, <1>6 DEF NoAcpiCall, Sends
<1>7. CASE CollectReply(r)
  <2>1. PICK a \in {Reply(Question(r)), Failed} :
             /\ Gather(r, a) /\ result' \in {Nothing, result}
             /\ a # Failed => a = Reply(Question(r))
    BY <1>7 DEF CollectReply
  <2>6. /\ asked[r]
        /\ asked' = [asked EXCEPT ![r] = FALSE]
        /\ undisturbed' = [u \in Readers |-> u = r /\ undisturbed[u]]
        /\ UNCHANGED <<machine, ec>>
    BY <1>7 DEF CollectReply, Disturbs
  <2>2. a \in AnyAnswer /\ (result' # Nothing => result'.answer \in AnyAnswer)
    BY <1>1, <2>1 DEF Reply, MachineTyped
  <2>3. undisturbed[r] => a = Failed \/ Says(Machine, Question(r), a, since[r])
    <3>1. undisturbed[r] => Awaited(Machine, op[r], parts[r], since[r], result)
      BY <1>1, <2>6 DEF ReaderTrue, ReaderHolds
    <3>2. Question(r) = Listed(Machine, op[r])[Len(parts[r]) + 1]
      BY <1>1, MachineAnswers
    <3>3. undisturbed[r] => \/ Reply(Question(r)) = Failed
                            \/ Says(Machine, Question(r), Reply(Question(r)), since[r])
      BY <3>1, <3>2 DEF Awaited, Reply
    <3> QED BY <2>1, <3>3
  <2>4. /\ asked' \in [Readers -> BOOLEAN] /\ ~asked'[r]
        /\ \A u \in Readers \ {r} : asked'[u] = asked[u]
    BY <1>1, <2>6
  <2>5. /\ undisturbed' \in [Readers -> BOOLEAN] /\ (undisturbed'[r] => undisturbed[r])
        /\ \A u \in Readers \ {r} : ~undisturbed'[u]
    BY <1>1, <2>6
  <2> QED BY <1>1, <2>1, <2>2, <2>3, <2>4, <2>5, <2>6, GatherKeeps
<1>8. CASE CommandFails(r)
  <2>1. /\ via = "acpi" /\ op[r] # "idle" /\ ~asked[r] /\ Gather(r, Failed)
        /\ undisturbed' = [u \in Readers |-> u = r /\ undisturbed[u]]
        /\ UNCHANGED <<machine, ec, asked>>
    BY <1>8 DEF CommandFails, Sends, Disturbs
  <2> DEFINE q == Question(r)
             answer == IF q = "12" THEN ec ELSE firmware[q]
  <2>2. (\E a \in {answer, Failed} : result' = [command |-> q, answer |-> a]) \/ result' = result
    BY <1>8 DEF CommandFails, Executed
  <2>3. q \in {"12"} \cup Range(Queries)
    BY <2>1, MachineAnswers
  <2>4. answer \in AnyAnswer
    BY <2>1, <2>3, TrueAnswer
  <2> HIDE DEF q, answer
  <2>5. result' # Nothing => result'.answer \in AnyAnswer
    <3>1. ASSUME NEW a \in {answer, Failed}, result' = [command |-> q, answer |-> a]
          PROVE  result'.answer \in AnyAnswer
      BY <1>1, <2>4, <3>1
    <3>2. CASE result' = result
      BY <1>1, <3>2 DEF MachineTyped
    <3> QED BY <2>2, <3>1, <3>2
  <2>6. /\ undisturbed' \in [Readers -> BOOLEAN] /\ (undisturbed'[r] => undisturbed[r])
        /\ \A u \in Readers \ {r} : ~undisturbed'[u]
    BY <1>1, <2>1
  <2>7. asked' \in [Readers -> BOOLEAN] /\ ~asked'[r]
        /\ \A u \in Readers \ {r} : asked'[u] = asked[u]
    BY <1>1, <2>1
  <2> QED BY <1>1, <2>1, <2>5, <2>6, <2>7, GatherKeeps
<1> QED BY <1>4, <1>5, <1>6, <1>7, <1>8

\* The steps that begin a read, cut it off, or are not a reader's.
LEMMA OtherReadSteps ==
  ASSUME ReadInv,
         \/ Stranger \/ ReadingsChange
         \/ \E r \in Readers : Ask(r) \/ WriteCommand(r) \/ ReaderKilled(r)
  PROVE  ReadInv'
<1>1. /\ ReadersTyped /\ MachineTyped /\ (\A r \in Readers : ReaderTrue(r))
      /\ asked \in [Readers -> BOOLEAN] /\ undisturbed \in [Readers -> BOOLEAN]
      /\ <<>> \in Seq(AnyAnswer) /\ Len(<<>>) = 0 /\ {ec} \in SUBSET Samples
      /\ op \in [Readers -> {"idle", "status", "capabilities"}]
      /\ parts \in [Readers -> Seq(AnyAnswer)] /\ told = [r \in Readers |-> told[r]]
      /\ since \in [Readers -> SUBSET Samples]
  <2>1. ReadersTyped /\ MachineTyped /\ \A r \in Readers : ReaderTrue(r)
    BY DEF ReadInv
  <2>2. <<>> \in Seq(AnyAnswer) /\ Len(<<>>) = 0
    OBVIOUS
  <2>3. {ec} \in SUBSET Samples
    BY <2>1 DEF MachineTyped
  <2> QED BY <2>1, <2>2, <2>3 DEF ReadersTyped
<1>2. UNCHANGED machine /\ Machine' = Machine /\ tdp' = tdp /\ via' = via /\ page7' = page7
      /\ firmware' = firmware
  BY DEF Stranger, ReadingsChange, Ask, WriteCommand, ReaderKilled, machine, Machine
<1>3. ASSUME NEW r \in Readers, Ask(r) PROVE ReadInv'
  <2>1. PICK what \in {"status", "capabilities"} : op' = [op EXCEPT ![r] = what]
    BY <1>3 DEF Ask
  <2>2. /\ op[r] = "idle" /\ parts' = [parts EXCEPT ![r] = <<>>]
        /\ told' = [told EXCEPT ![r] = Nothing] /\ since' = [since EXCEPT ![r] = {ec}]
        /\ undisturbed' = [undisturbed EXCEPT ![r] = TRUE]
        /\ UNCHANGED <<machine, ec, result, asked>>
    BY <1>3 DEF Ask
  <2>3. /\ op'[r] = what /\ parts'[r] = <<>> /\ told'[r] = Nothing /\ since'[r] = {ec}
        /\ undisturbed' \in [Readers -> BOOLEAN]
        /\ \A u \in Readers \ {r} : undisturbed'[u] = undisturbed[u]
    BY <1>1, <2>1, <2>2
  <2>4. /\ ReadersTyped'
        /\ \A u \in Readers \ {r} : /\ op'[u] = op[u] /\ parts'[u] = parts[u]
                                    /\ told'[u] = told[u] /\ since'[u] = since[u]
    BY <1>1, <2>1, <2>2, <2>3, TypedAfter
  <2>5. ~asked[r]
    BY <1>1, <2>2 DEF ReaderTrue, ReaderHolds
  <2>6. ReaderTrue(r)'
    <3>1. Len(<<>>) < Len(Listed(Machine, what))
      BY <1>1, ListedSome
    <3>2. Answered(Machine, what, <<>>, {ec})
      BY <1>1 DEF Answered
    <3> QED BY <1>2, <2>1, <2>2, <2>3, <2>5, <3>1, <3>2 DEF ReaderTrue, ReaderHolds
  <2>7. \A u \in Readers \ {r} : ReaderTrue(u)'
    BY <1>1, <1>2, <2>2, <2>3, <2>4, ReaderUnmoved
  <2>8. MachineTyped'
    BY <1>1, <1>2, <2>2 DEF MachineTyped
  <2> QED BY <2>4, <2>6, <2>7, <2>8 DEF ReadInv
<1>4. ASSUME NEW r \in Readers, WriteCommand(r) PROVE ReadInv'
  <2> DEFINE q == Question(r)
             answer == IF q = "12" THEN ec ELSE firmware[q]
  <2>1. /\ via = "acpi" /\ op[r] # "idle" /\ ~asked[r]
        /\ asked' = [asked EXCEPT ![r] = TRUE]
        /\ undisturbed' = [u \in Readers |-> u = r /\ undisturbed[u]]
        /\ UNCHANGED <<machine, ec, op, parts, told, since>>
    BY <1>4 DEF WriteCommand, Sends, Disturbs
  <2>2. PICK a \in {answer, Failed} : result' = [command |-> q, answer |-> a]
    BY <1>4 DEF WriteCommand, Executed
  <2>3. q \in {"12"} \cup Range(Queries) /\ q = Listed(Machine, op[r])[Len(parts[r]) + 1]
    BY <2>1, MachineAnswers
  <2>4. a \in AnyAnswer /\ (a = Failed \/ Says(Machine, q, a, since[r]))
    BY <2>1, <2>2, <2>3, TrueAnswer DEF AnyAnswer
  <2> HIDE DEF q, answer
  <2>5. asked' \in [Readers -> BOOLEAN] /\ undisturbed' \in [Readers -> BOOLEAN] /\ asked'[r]
        /\ (undisturbed'[r] => undisturbed[r])
        /\ \A u \in Readers \ {r} : asked'[u] = asked[u] /\ ~undisturbed'[u]
    BY <1>1, <2>1
  <2>6. ReadersTyped' /\ MachineTyped'
    <3>1. ReadersTyped'
      BY <1>1, <2>1, <2>5 DEF ReadersTyped
    <3>2. result'.answer = a
      BY <2>2
    <3>3. MachineTyped'
      BY <1>1, <1>2, <2>1, <2>4, <3>2 DEF MachineTyped
    <3> QED BY <3>1, <3>3
  <2>7. ReaderTrue(r)'
    <3>1. result'.command = q /\ result'.answer = a
      BY <2>2
    <3>2. Awaited(Machine, op[r], parts[r], since[r], result')
      BY <2>3, <2>4, <3>1 DEF Awaited
    <3>3. ReaderTrue(r)
      BY <1>1
    <3> QED BY <1>2, <2>1, <2>5, <3>2, <3>3, AsListed DEF ReaderTrue, ReaderHolds
  <2>8. \A u \in Readers \ {r} : ReaderTrue(u)'
    BY <1>1, <1>2, <2>1, <2>5, ReaderUnmoved
  <2> QED BY <2>6, <2>7, <2>8 DEF ReadInv
<1>5. ASSUME NEW r \in Readers, ReaderKilled(r) PROVE ReadInv'
  <2>1. /\ op' = [op EXCEPT ![r] = "idle"] /\ parts' = [parts EXCEPT ![r] = <<>>]
        /\ told' = [told EXCEPT ![r] = Failed] /\ since' = [since EXCEPT ![r] = {}]
        /\ asked' = [asked EXCEPT ![r] = FALSE]
        /\ UNCHANGED <<machine, ec, result, undisturbed>>
    BY <1>5 DEF ReaderKilled, Over
  <2>2. /\ op'[r] = "idle" /\ parts'[r] = <<>> /\ told'[r] = Failed /\ since'[r] = {}
        /\ asked' \in [Readers -> BOOLEAN] /\ ~asked'[r]
        /\ \A u \in Readers \ {r} : asked'[u] = asked[u]
    BY <1>1, <2>1
  <2>3. /\ ReadersTyped'
        /\ \A u \in Readers \ {r} : /\ op'[u] = op[u] /\ parts'[u] = parts[u]
                                    /\ told'[u] = told[u] /\ since'[u] = since[u]
    BY <1>1, <2>1, <2>2, TypedAfter
  <2>4. ReaderTrue(r)'
    <3>1. Len(<<>>) < Len(Listed(Machine, "idle"))
      BY <1>1, ListedSome
    <3>2. ToldTruly(Machine, tdp, Failed, {})
      BY ToldNothing
    <3> QED BY <1>2, <2>1, <2>2, <3>1, <3>2 DEF ReaderTrue, ReaderHolds
  <2>5. \A u \in Readers \ {r} : ReaderTrue(u)'
    BY <1>1, <1>2, <2>1, <2>2, <2>3, ReaderUnmoved
  <2>6. MachineTyped'
    BY <1>1, <1>2, <2>1 DEF MachineTyped
  <2> QED BY <2>3, <2>4, <2>5, <2>6 DEF ReadInv
<1>6. CASE Stranger
  <2>1. /\ undisturbed' = [r \in Readers |-> FALSE]
        /\ UNCHANGED <<machine, ec, op, asked, parts, told, since>>
    BY <1>6 DEF Stranger
  <2>2. result' # Nothing => result'.answer \in AnyAnswer
    <3>1. CASE result' = Nothing
      BY <3>1
    <3>2. ASSUME NEW a \in {"set", "rejected"}, result' = [command |-> "60", answer |-> a]
          PROVE  result'.answer \in AnyAnswer
      BY <3>2 DEF AnyAnswer
    <3>3. ASSUME NEW s \in Samples, result' = [command |-> "12", answer |-> s]
          PROVE  result'.answer \in AnyAnswer
      <4>1. result'.answer = s
        BY <3>3
      <4> QED BY <4>1 DEF AnyAnswer
    <3> QED BY <1>6, <3>1, <3>2, <3>3 DEF Stranger
  <2>3. ReadersTyped' /\ MachineTyped'
    BY <1>1, <1>2, <2>1, <2>2 DEF ReadersTyped, MachineTyped
  <2>4. \A u \in Readers : ReaderTrue(u)'
    BY <1>1, <1>2, <2>1, ReaderUnmoved
  <2> QED BY <2>3, <2>4 DEF ReadInv
<1>7. CASE ReadingsChange
  <2>1. PICK s \in Samples \ {ec} :
         /\ ec' = s
         /\ since' = [r \in Readers |-> IF op[r] = "idle" THEN since[r] ELSE since[r] \cup {s}]
    BY <1>7 DEF ReadingsChange
  <2>2. UNCHANGED <<machine, result, op, asked, parts, told, undisturbed>>
    BY <1>7 DEF ReadingsChange
  <2>3. ReadersTyped' /\ MachineTyped'
    BY <1>1, <1>2, <2>1, <2>2 DEF ReadersTyped, MachineTyped
  <2>4. \A u \in Readers : ReaderTrue(u)'
    <3> TAKE u \in Readers
    <3>1. \/ op[u] = "idle" /\ since'[u] = since[u]
          \/ op[u] # "idle" /\ since[u] \subseteq since'[u]
      BY <2>1
    <3> QED BY <1>1, <1>2, <2>2, <3>1, ReaderUnmoved
  <2> QED BY <2>3, <2>4 DEF ReadInv
<1> QED BY <1>3, <1>4, <1>5, <1>6, <1>7

\* No read is under way at first.
LEMMA ReadInitially == ReadInit => ReadInv
<1> SUFFICES ASSUME ReadInit PROVE ReadInv
  OBVIOUS
<1>1. MachineTyped
  BY DEF ReadInit, MachineTyped
<1>2. ReadersTyped
  <2>1. <<>> \in Seq(AnyAnswer)
    OBVIOUS
  <2>2. parts \in [Readers -> Seq(AnyAnswer)]
    BY <2>1 DEF ReadInit
  <2>3. asked \in [Readers -> BOOLEAN] /\ undisturbed \in [Readers -> BOOLEAN]
    BY DEF ReadInit
  <2>4. \A r \in Readers : op[r] = "idle"
    BY DEF ReadInit, Quiet
  <2>5. op \in [Readers -> {"idle", "status", "capabilities"}]
    BY DEF ReadInit, Quiet
  <2>6. since \in [Readers -> SUBSET Samples] /\ told = [r \in Readers |-> told[r]]
    BY DEF ReadInit
  <2> QED BY <2>2, <2>3, <2>4, <2>5, <2>6 DEF ReadersTyped
<1>3. ASSUME NEW r \in Readers PROVE ReaderTrue(r)
  <2>1. op[r] = "idle" /\ ~asked[r] /\ parts[r] = <<>> /\ told[r] = Nothing /\ since[r] = {}
    BY DEF ReadInit, Quiet
  <2>2. Len(<<>>) < Len(Listed(Machine, "idle"))
    <3>1. Len(<<>>) = 0
      OBVIOUS
    <3> QED BY <3>1, ListedSome
  <2>3. ToldTruly(Machine, tdp, Nothing, {})
    BY ToldNothing
  <2> QED BY <2>1, <2>2, <2>3 DEF ReaderTrue, ReaderHolds
<1> QED BY <1>1, <1>2, <1>3 DEF ReadInv

\* Every step of every reader, of a stranger and of the machine keeps it.
LEMMA ReadNextKeeps == ReadInv /\ [ReadNext]_readVars => ReadInv'
<1> SUFFICES ASSUME ReadInv, [ReadNext]_readVars PROVE ReadInv'
  OBVIOUS
<1>1. CASE UNCHANGED readVars
  <2>1. UNCHANGED <<via, page7, firmware, tdp, ec, result, op, asked, parts, told, since,
                    undisturbed>>
    BY <1>1 DEF readVars
  <2>2. UNCHANGED machine
    BY <1>1 DEF readVars, machine
  <2>3. MachineTyped' /\ ReadersTyped'
    BY <2>1 DEF ReadInv, MachineTyped, ReadersTyped
  <2>4. \A r \in Readers : ReaderTrue(r)'
    BY <2>1, <2>2, ReaderUnmoved DEF ReadInv
  <2> QED BY <2>3, <2>4 DEF ReadInv
<1>2. CASE ReadNext
  BY <1>2, AnswerSteps, OtherReadSteps DEF ReadNext
<1> QED BY <1>1, <1>2

\* What was read is true, and typed.
LEMMA ReadsKept == ReadInv => ReadsAreTrue /\ ReadTypeOK
<1> SUFFICES ASSUME ReadInv PROVE ReadsAreTrue /\ ReadTypeOK
  OBVIOUS
<1>1. ASSUME NEW r \in Readers, op[r] = "idle", undisturbed[r]
      PROVE  ToldTruly(Machine, tdp, told[r], since[r])
  BY <1>1 DEF ReadInv, ReaderTrue, ReaderHolds
<1>2. ReadsAreTrue
  BY <1>1, AsListed DEF ToldTruly, ReadsAreTrue
<1>3. \A r \in Readers : Len(parts[r]) < 5
  <2> SUFFICES ASSUME NEW r \in Readers PROVE Len(parts[r]) < 5
    OBVIOUS
  <2>1. Len(parts[r]) < Len(Listed(Machine, op[r])) /\ Len(parts[r]) \in Nat
    BY DEF ReadInv, ReaderTrue, ReaderHolds, ReadersTyped
  <2>2. Len(Listed(Machine, op[r])) \in 1..5
    <3>1. CASE op[r] = "status" /\ via = "driver"
      BY <3>1, AsListed DEF Listed
    <3>2. CASE op[r] = "status" /\ via # "driver"
      BY <3>2, AsListed DEF Listed
    <3>3. CASE op[r] # "status" /\ (via = "driver" \/ page7 # Nothing)
      BY <3>3, AsListed DEF Listed
    <3>4. CASE op[r] # "status" /\ via # "driver" /\ page7 = Nothing
      BY <3>4, AsListed, QueriesAre DEF Listed
    <3> QED BY <3>1, <3>2, <3>3, <3>4
  <2>3. \A n \in Nat, k \in 1..5 : n < k => n < 5
    OBVIOUS
  <2> QED BY <2>1, <2>2, <2>3
<1>4. ReadTypeOK
  BY <1>3 DEF ReadInv, MachineTyped, ReadersTyped, ReadTypeOK
<1> QED BY <1>2, <1>4

(* Through every transport, whatever changes, fails or is killed meanwhile:   *)
(* while nobody else uses acpi_call, every value a status shows is one the    *)
(* firmware had during the read, or none where the code says so, and the      *)
(* power modes are reported only if the firmware said so (fan_status_reply,   *)
(* driver.rs:115; capabilities_from_gcmd, capability.rs:15).                  *)
THEOREM ReadsTellTruth == ReadSpec => []ReadsAreTrue
<1> QED BY ReadInitially, ReadNextKeeps, ReadsKept, PTL DEF ReadSpec

-----------------------------------------------------------------------------
(* Types of the five parts, and of their composition.                         *)

\* What a doctor can have carried out or skipped: of its list, or of the daemon's.
Known == Range(Checks) \cup DaemonNames

ClientTypes ==
    /\ pinned \in 0..MaxInstances
    /\ ended \in {"none", "ok", "error", "dry", "failure"}
    /\ done \in [writes : 0..2, by : 0..MaxInstances] /\ failed \in BOOLEAN
    /\ check \subseteq Known

\* A check hides only checks of the same list, and the daemon's.
LEMMA HiddenKnown ==
  ASSUME choice \in TransportChoices, NEW c \in Range(Checks)
  PROVE  Hidden(c) \subseteq Known
<1>1. CASE choice = "mock"
  <2>1. c = "transport"
    BY <1>1, DoctorList
  <2> QED BY <2>1 DEF Hidden
<1>2. Hidden(c) \subseteq {"kernel.acpi", "kernel.headers", "dbus.connection", "dbus.service"}
                          \cup DaemonNames
  BY Names DEF Hidden
<1>3. {"kernel.acpi", "kernel.headers"} \subseteq SystemNames
  BY DEF SystemNames
<1>4. CASE choice # "mock"
  <2>1. SystemNames \cup {"dbus.connection", "dbus.service"} \subseteq Range(Checks)
    BY <1>4, DoctorList
  <2> QED BY <1>2, <1>3, <2>1 DEF Known
<1> QED BY <1>1, <1>4

\* The list followed by the daemon's checks, as a set.
LEMMA KnownIsRange ==
  ASSUME choice \in TransportChoices
  PROVE  Known = Range(Checks \o DaemonChecks)
<1>1. Checks \in Seq(AllNames)
  <2>1. CASE choice = "mock"
    <3>1. Checks = <<"transport">>
      BY <2>1 DEF Checks
    <3>2. "transport" \in AllNames
      BY DEF AllNames, HardwareNames
    <3> QED BY <3>1, <3>2
  <2>2. ASSUME NEW a \in Seq(AllNames), NEW b \in Seq(AllNames)
        PROVE  a \o b \in Seq(AllNames)
    BY <2>2, ConcatProperties
  <2>3. /\ SystemChecks \o BusChecks \o DaemonChecks \in Seq(AllNames)
        /\ SystemChecks \o BusChecks \o HardwareChecks \in Seq(AllNames)
    BY <2>2, ListLengths
  <2>4. CASE choice # "mock"
    <3>1. \/ Checks = SystemChecks \o BusChecks \o DaemonChecks
          \/ Checks = SystemChecks \o BusChecks \o HardwareChecks
      BY <2>4 DEF Checks
    <3> QED BY <2>3, <3>1
  <2> QED BY <2>1, <2>4
<1>2. Range(Checks \o DaemonChecks) = Range(Checks) \cup Range(DaemonChecks)
  BY <1>1, ListLengths, RangeConcatenation
<1> QED BY <1>2, Names DEF Known

\* A check's result is typed.
LEMMA ReportTyped ==
  ASSUME ClientTypes, choice \in TransportChoices, NEW c \in Range(Checks), NEW found,
         Report(c, found)
  PROVE  failed' \in BOOLEAN /\ check' \subseteq Known
<1>1. failed' \in BOOLEAN
  <2>1. failed' = (failed \/ Fails(c, found))
    BY DEF Report
  <2> QED BY <2>1
<1>2. check' \subseteq check \cup {c} \cup Hidden(c)
  BY DEF Report
<1>3. check' \subseteq Known
  BY <1>2, HiddenKnown DEF ClientTypes, Known
<1> QED BY <1>1, <1>3

\* The types hold at first.
LEMMA ClientTypesInitially == ClientsInit => ClientTypes
<1> SUFFICES ASSUME ClientsInit PROVE ClientTypes
  OBVIOUS
<1>1. done \in [writes : 0..2, by : 0..MaxInstances] /\ failed \in BOOLEAN
  <2>1. done = [writes |-> 0, by |-> 0] /\ failed = FALSE
    BY DEF ClientsInit, NotWritten
  <2>2. 0 \in 0..2 /\ 0 \in 0..MaxInstances
    BY ClientsBounded
  <2>3. done \in [writes : 0..2, by : 0..MaxInstances]
    BY <2>1, <2>2
  <2> QED BY <2>1, <2>3
<1>2. pinned \in 0..MaxInstances /\ check = {} /\ ended = "none"
  BY ClientsBounded DEF ClientsInit
<1> QED BY <1>1, <1>2 DEF ClientTypes

\* The doctor's checks, among them the one that pins an instance.
LEMMA DoctorTypes ==
  ASSUME ClientsInv, ClientTypes, FileCheck \/ ResolveService \/ ProbeDaemon
  PROVE  ClientTypes'
<1>1. /\ choice \in TransportChoices /\ Todo # {} /\ choice' = choice
      /\ ended' = ended /\ done' = done
  BY DEF FileCheck, ResolveService, ProbeDaemon, ClientsInv, JobsInv
<1>2. NextCheck \in Range(Checks) /\ Known' = Known
  BY <1>1, NextOfList DEF Known, Checks
<1>3. pinned' \in 0..MaxInstances
  <2>1. pinned' = pinned \/ (owner # 0 /\ pinned' = owner)
    BY DEF FileCheck, ResolveService, ProbeDaemon
  <2> QED BY <2>1, ClientsBounded DEF ClientTypes, ClientsInv, BusInv
<1>4. failed' \in BOOLEAN /\ check' \subseteq Known
  <2>1. ASSUME NEW found, Report(NextCheck, found)
        PROVE  failed' \in BOOLEAN /\ check' \subseteq Known
    BY <1>1, <1>2, <2>1, ReportTyped
  <2>2. ASSUME UNCHANGED <<check, failed, good>>
        PROVE  failed' \in BOOLEAN /\ check' \subseteq Known
    BY <2>2 DEF ClientTypes
  <2>3. CASE FileCheck
    BY <2>1, <2>3 DEF FileCheck
  <2>4. CASE ResolveService
    BY <2>1, <2>4 DEF ResolveService
  <2>5. CASE ProbeDaemon
    BY <2>1, <2>2, <2>5 DEF ProbeDaemon
  <2> QED BY <2>3, <2>4, <2>5
<1> QED BY <1>1, <1>2, <1>3, <1>4 DEF ClientTypes

\* Every step keeps the types.
LEMMA ClientTypesStep == ClientsInv /\ ClientTypes /\ [ClientsNext]_clientVars => ClientTypes'
<1> SUFFICES ASSUME ClientsInv, ClientTypes, [ClientsNext]_clientVars PROVE ClientTypes'
  OBVIOUS
<1>1. ASSUME choice' = choice, UNCHANGED <<pinned, check, failed, done>>,
             ended' \in {"none", "ok", "error", "dry", "failure"}
      PROVE  ClientTypes'
  <2>1. Known' = Known
    BY <1>1 DEF Known, Checks
  <2> QED BY <1>1, <2>1 DEF ClientTypes
<1>2. CASE UNCHANGED clientVars \/ DaemonStarts \/ DaemonExits \/ PollSucceeds \/ PollFails
  <2>1. choice' = choice /\ ended' = ended /\ UNCHANGED <<pinned, check, failed, done>>
    BY <1>2 DEF clientVars, DaemonStarts, DaemonExits, PollSucceeds, PollFails, doctor
  <2> QED BY <1>1, <2>1 DEF ClientTypes
<1>3. CASE AskStatus \/ ReadProperty \/ PrintStatus \/ CallFails
  <2>1. choice' = choice /\ UNCHANGED <<pinned, check, failed, done>>
    BY <1>3 DEF AskStatus, ReadProperty, PrintStatus, CallFails, doctor
  <2>2. ended' \in {"none", "ok", "error", ended}
    BY <1>3 DEF AskStatus, ReadProperty, PrintStatus, CallFails, Finish
  <2> QED BY <1>1, <2>1, <2>2 DEF ClientTypes
<1>4. CASE AskWrite \/ CarriedOut \/ WriteAnswered
  <2>1. choice' = choice /\ UNCHANGED <<pinned, check, failed>>
    BY <1>4 DEF AskWrite, CarriedOut, WriteAnswered, doctor
  <2>2. ended' \in {"none", "ok", "dry", ended}
    BY <1>4 DEF AskWrite, CarriedOut, WriteAnswered, Finish
  <2>3. done' \in [writes : 0..2, by : 0..MaxInstances]
    <3>1. CASE AskWrite
      BY <3>1, ClientsBounded DEF AskWrite, NotWritten
    <3>2. CASE CarriedOut
      <4>1. /\ job \in {"mode", "curve"} /\ done.writes < Writes[job]
            /\ done' = [writes |-> done.writes + 1, by |-> owner]
        BY <3>2 DEF CarriedOut, Writes
      <4>2. Writes[job] \in 1..2
        BY <4>1 DEF Writes
      <4>3. done.writes + 1 \in 0..2
        BY <4>1, <4>2 DEF ClientTypes
      <4>4. owner \in 0..MaxInstances
        BY ClientsBounded DEF ClientsInv, BusInv
      <4> QED BY <4>1, <4>3, <4>4
    <3>3. CASE WriteAnswered
      BY <3>3 DEF WriteAnswered, ClientTypes
    <3> QED BY <1>4, <3>1, <3>2, <3>3
  <2>4. Known' = Known
    BY <2>1 DEF Known, Checks
  <2> QED BY <2>1, <2>2, <2>3, <2>4 DEF ClientTypes
<1>5. CASE RunDoctor
  <2>1. ended' = "none" /\ check' = {} /\ failed' = FALSE /\ pinned' = 0 /\ done' = done
    BY <1>5 DEF RunDoctor
  <2>2. done' \in [writes : 0..2, by : 0..MaxInstances] /\ failed' \in BOOLEAN
    BY <2>1 DEF ClientTypes
  <2>3. pinned' \in 0..MaxInstances
    BY <2>1, ClientsBounded
  <2> QED BY <2>1, <2>2, <2>3 DEF ClientTypes
<1>6. CASE FileCheck \/ ResolveService \/ ProbeDaemon
  BY <1>6, DoctorTypes
<1>7. CASE DoctorExits
  <2>1. choice' = choice /\ UNCHANGED <<pinned, check, failed, done>>
        /\ ended' \in {"ok", "failure"}
    BY <1>7 DEF DoctorExits, Finish, doctor
  <2> QED BY <1>1, <2>1
<1> QED BY <1>2, <1>3, <1>4, <1>5, <1>6, <1>7 DEF ClientsNext

\* The invariants type every variable of the clients.
LEMMA ClientsTyped ==
  ASSUME ClientsInv, ClientTypes
  PROVE  ClientsTypeOK
<1>1. owner \in 0..MaxInstances
  BY ClientsBounded DEF ClientsInv, BusInv
<1>2. fan \in [freshness : {"fresh", "stale", "unknown"}, poll : 0..MaxPolls]
  BY DEF ClientsInv, BusInv, Freshnesses
<1>3. job \in {"idle", "status", "doctor"} \cup DOMAIN Writes /\ choice \in TransportChoices
  BY DEF ClientsInv, JobsInv, Writes
<1>4. /\ label # NoAnswer => label \in [is : {"fresh", "stale", "unknown"}, from : 1..MaxInstances]
      /\ value # NoAnswer => value \in [is : 0..MaxPolls, from : 1..MaxInstances]
  BY DEF ClientsInv, AnswersTyped, Freshnesses
<1>5. check \subseteq Known /\ good \subseteq check
  BY DEF ClientTypes, ClientsInv, ReportInv
<1>6. {check, good} \subseteq SUBSET Range(Checks \o DaemonChecks)
  BY <1>3, <1>5, KnownIsRange
<1>7. failed \in BOOLEAN
  BY DEF ClientTypes
<1> QED BY <1>1, <1>2, <1>3, <1>4, <1>6, <1>7 DEF ClientsTypeOK, ClientTypes

\* Types of the clients, throughout.
LEMMA ClientsTypes == ClientsSpec => []ClientsTypeOK
<1>1. ClientsInv /\ ClientTypes => ClientsTypeOK
  BY ClientsTyped
<1> QED
  BY <1>1, ClientsInitially, ClientsSteps, ClientTypesInitially, ClientTypesStep, PTL
     DEF ClientsSpec

\* Types of the readers and the machine, throughout.
LEMMA ReadTypes == ReadSpec => []ReadTypeOK
BY ReadInitially, ReadNextKeeps, ReadsKept, PTL DEF ReadSpec

\* Types of the desktop's files and requests, throughout.
LEMMA UiTypes == UiSpec => []UiTypeOK
BY UiInitially, UiSteps, FilesKept, PTL DEF UiSpec

\* A behaviour of the composition is one of every part.
LEMMA EveryPart == Spec => KbdSpec /\ CurveSpec /\ ReadSpec /\ ClientsSpec /\ UiSpec
<1>1. Init => KbdInit /\ CurveInit /\ ReadInit /\ ClientsInit /\ UiInit
  BY DEF Init
<1>2. [Next]_vars => /\ [KbdNext]_kbdVars /\ [CurveNext]_curveVars /\ [ReadNext]_readVars
                     /\ [ClientsNext]_clientVars /\ [UiNext]_uiVars
  <2>1. ASSUME Next
        PROVE  /\ [KbdNext]_kbdVars /\ [CurveNext]_curveVars /\ [ReadNext]_readVars
               /\ [ClientsNext]_clientVars /\ [UiNext]_uiVars
    BY <2>1 DEF Next
  <2>2. ASSUME UNCHANGED vars
        PROVE  UNCHANGED <<kbdVars, curveVars, readVars, clientVars, uiVars>>
    BY <2>2 DEF vars
  <2> QED BY <2>1, <2>2
<1> QED BY <1>1, <1>2, PTL DEF Spec, KbdSpec, CurveSpec, ReadSpec, ClientsSpec, UiSpec

(* Type correctness of the keyboard, the curve's path, the transports, the    *)
(* clients and the desktop's files, whatever their constants: the bounds of   *)
(* the EC's bytes and slopes, of the speeds a status shows, of what a doctor  *)
(* can have looked at and of what the files can hold are among the types.     *)
THEOREM PartsTypes == Spec => []TypeOK
<1>1. KbdTypeOK /\ CurveTypeOK /\ ReadTypeOK /\ ClientsTypeOK /\ UiTypeOK => TypeOK
  BY DEF TypeOK
<1> QED
  BY <1>1, EveryPart, KbdTypes, CurveTypes, ReadTypes, ClientsTypes, UiTypes, PTL
=============================================================================
