---------------------------- MODULE Transports -----------------------------
(***************************************************************************)
(* What a fan status or a capability read through each transport tells.     *)
(*                                                                          *)
(* The kernel driver has a file per value, and every read of one is a       *)
(* firmware command of its own: a status is put together from three of them *)
(* and its speeds are converted back into the periods they came from.       *)
(* acpi_call has one file for the whole machine: a command is written to it *)
(* and its result kept until the next read, whoever that is by.  The mock   *)
(* answers from a recording.  A capability read takes AppSettings page 7    *)
(* where there is one, five GCMD queries otherwise.                         *)
(***************************************************************************)
EXTENDS Integers, Sequences, SequencesExt

CONSTANTS
    Readers,        \* threads of clevod and clevo-cc that read
    Samples,        \* the EC's periods and temperature byte at some moment
    Firmwares,      \* the answers to the five queries
    Recordings,     \* for the mock: what was recorded
    Nothing,        \* Option::None, an empty result, a page 7 that is not there
    Failed,         \* Err(_)
    MaxChanges      \* a bound on changes of the readings

Queries == <<"122", "96", "16", "60", "82">>

Words == 0..65535
Bytes == 0..255

ASSUME SamplesTyped ==
    Samples \subseteq [cpu : Words, gpu : Words, raw : Bytes]
ASSUME FirmwaresTyped ==
    Firmwares \subseteq [Range(Queries) -> {"set", "clear", "rejected"}]
ASSUME ValuesDistinct ==
    {Nothing, Failed} \cap [modes : BOOLEAN] = {}

VARIABLES
    via,        \* the transport: "driver", "acpi", "mock"
    tdp,        \* the CPU's TDP class
    page7,      \* "set", "clear", "unknown version", Nothing
    recorded,   \* the commands a recording has
    ec,         \* the readings now
    firmware,   \* the answers to the GCMD queries
    result,     \* acpi_call's result buffer
    op,         \* per reader: "idle", "status", "capabilities"
    asked,      \* per reader: its command is written, its result not read
    parts,      \* per reader: the answers so far
    told,       \* per reader: what its last read told
    since,      \* per reader: the readings there have been since it began
    undisturbed,\* per reader: nobody else has used acpi_call since it began
    changes     \* changes of the readings so far

readVars == <<via, tdp, page7, recorded, ec, firmware, result, op, asked, parts, told,
              since, undisturbed, changes>>
machine  == <<via, tdp, page7, recorded, firmware>>

-----------------------------------------------------------------------------
(* Conversions.                                                              *)

Scale == 2156250
Rounded(n, d) == (2 * n + d) \div (2 * d)

PeriodToRpm(period) == IF period = 0 THEN 0 ELSE Rounded(Scale, period)

RpmToPeriod(rpm) ==
    IF rpm = 0 THEN 0
    ELSE IF Rounded(Scale, rpm) > 65535 THEN 65535 ELSE Rounded(Scale, rpm)

\* cal_cpu_temp, in hundredths of a degree before it is rounded.
Hundredths(class, raw) ==
    CASE class = "raw" -> 100 * raw
      [] class = "35"  -> IF raw <= 32 THEN 100 * raw ELSE 50 * raw + 1600
      [] class = "47"  -> IF raw <= 26 THEN 100 * raw ELSE 50 * raw + 1300
      [] class = "65"  -> IF raw <= 50 THEN 100 * (raw - 1) ELSE 41 * (raw - 35) + 4370
      [] class = "84"  -> IF raw <= 60 THEN 100 * (raw - 1) ELSE 33 * (raw - 12) + 4400
      [] class = "91"  -> IF raw <= 50 THEN 100 * (raw - 5) ELSE 22 * (raw - 9) + 4370

Classes == {"raw", "35", "47", "65", "84", "91"}

CpuTemp(class, raw) ==
    LET rounded == (Hundredths(class, raw) + 50) \div 100
    IN  IF rounded < 0 THEN 0 ELSE rounded

\* 0 is the EC's way of saying nothing.
Temperature(raw) == IF raw = 0 THEN Nothing ELSE CpuTemp(tdp, raw)

-----------------------------------------------------------------------------
(* What is asked, and what the answers come to.                              *)

Questions(what) ==
    IF what = "status"
    THEN IF via = "driver" THEN <<"fan1_input", "fan2_input", "raw_status">> ELSE <<"12">>
    ELSE IF via = "driver" THEN <<"capabilities">>
    ELSE IF page7 # Nothing THEN <<"page7">> ELSE Queries

\* fan_status_reply goes on without the second speed and without raw_status.
Spared(question) == CASE question = "fan2_input" -> 0
                      [] question = "raw_status" -> Nothing
                      [] OTHER -> Failed

Status(answers) ==
    IF via = "driver"
    THEN [cpu  |-> PeriodToRpm(RpmToPeriod(answers[1])),
          gpu  |-> PeriodToRpm(RpmToPeriod(answers[2])),
          temp |-> IF answers[3] = Nothing THEN Nothing ELSE Temperature(answers[3])]
    ELSE [cpu  |-> PeriodToRpm(answers[1].cpu),
          gpu  |-> PeriodToRpm(answers[1].gpu),
          temp |-> Temperature(answers[1].raw)]

\* Fault: a query the firmware rejects answers with all bits set.
RejectedIsSupported(answers) ==
    [modes |-> answers[2] # "clear" /\ answers[3] # "clear"]

\* capabilities_from_gcmd: the power modes need commands 96 and 16 to say so.
Decoded(answers) ==
    IF "rejected" \in Range(answers) THEN Failed
    ELSE [modes |-> answers[2] = "set" /\ answers[3] = "set"]

Page(version) == IF version \in {"set", "clear"} THEN [modes |-> version = "set"] ELSE Failed

Concluded(what, answers) ==
    IF what = "status" THEN Status(answers)
    ELSE IF via = "driver" THEN Decoded(answers[1])
    ELSE IF page7 # Nothing THEN Page(answers[1]) ELSE Decoded(answers)

-----------------------------------------------------------------------------
Quiet == [r \in Readers |-> "idle"]

ReadInit ==
    /\ via \in {"driver", "acpi", "mock"} /\ tdp \in Classes
    /\ page7 \in IF via = "mock" THEN {"set", "clear", "unknown version", Nothing} ELSE {Nothing}
    /\ recorded \in IF via = "mock" THEN Recordings ELSE {{}}
    /\ ec \in Samples /\ firmware \in Firmwares
    /\ result = Nothing
    /\ op = Quiet /\ asked = [r \in Readers |-> FALSE]
    /\ parts = [r \in Readers |-> <<>>] /\ told = [r \in Readers |-> Nothing]
    /\ since = [r \in Readers |-> {}] /\ undisturbed = [r \in Readers |-> TRUE]
    /\ changes = 0

Ask(r) ==
    /\ op[r] = "idle"
    /\ \E what \in {"status", "capabilities"} : op' = [op EXCEPT ![r] = what]
    /\ parts' = [parts EXCEPT ![r] = <<>>] /\ told' = [told EXCEPT ![r] = Nothing]
    /\ since' = [since EXCEPT ![r] = {ec}]
    /\ undisturbed' = [undisturbed EXCEPT ![r] = TRUE]
    /\ UNCHANGED <<machine, ec, result, asked, changes>>

Question(r) == Questions(op[r])[Len(parts[r]) + 1]

Over(r, conclusion) ==
    /\ op' = [op EXCEPT ![r] = "idle"]
    /\ parts' = [parts EXCEPT ![r] = <<>>]
    /\ told' = [told EXCEPT ![r] = conclusion]
    /\ since' = [since EXCEPT ![r] = IF conclusion = Failed THEN {} ELSE @]

\* The read goes on, is over, or has failed.
Gather(r, answer) ==
    LET all == Append(parts[r], answer)
    IN  IF answer = Failed THEN Over(r, Failed)
        ELSE IF Len(all) = Len(Questions(op[r])) THEN Over(r, Concluded(op[r], all))
        ELSE /\ parts' = [parts EXCEPT ![r] = all]
             /\ UNCHANGED <<op, told, since>>

\* One file of the driver.
File(question) ==
    CASE question = "fan1_input"   -> PeriodToRpm(ec.cpu)
      [] question = "fan2_input"   -> PeriodToRpm(ec.gpu)
      [] question = "raw_status"   -> ec.raw
      [] question = "capabilities" -> [i \in 1..5 |-> firmware[Queries[i]]]

ReadFile(r) ==
    /\ via = "driver" /\ op[r] # "idle"
    /\ Gather(r, File(Question(r))) \/ Gather(r, Spared(Question(r)))
    /\ UNCHANGED <<machine, ec, result, asked, undisturbed, changes>>

\* The recording's answer, if it has one.
Replay(r) ==
    /\ via = "mock" /\ op[r] # "idle"
    /\ LET question == Question(r)
       IN  Gather(r, IF question = "page7" THEN page7
                     ELSE IF question \notin recorded THEN Failed
                     ELSE IF question = "12" THEN ec ELSE firmware[question])
    /\ UNCHANGED <<machine, ec, result, asked, undisturbed, changes>>

-----------------------------------------------------------------------------
(* acpi_call.                                                                *)

Disturbs(r) == undisturbed' = [u \in Readers |-> u = r /\ undisturbed[u]]

Sends(r) == via = "acpi" /\ op[r] # "idle" /\ ~asked[r]

\* The module runs the method within the write and keeps what it returned, which
\* for a method that fails is an error text.
Executed(question) ==
    LET answer == IF question = "12" THEN ec ELSE firmware[question]
    IN  \E a \in {answer, Failed} : result' = [command |-> question, answer |-> a]

WriteCommand(r) ==
    /\ Sends(r)
    /\ Executed(Question(r))
    /\ asked' = [asked EXCEPT ![r] = TRUE]
    /\ Disturbs(r)
    /\ UNCHANGED <<machine, ec, op, parts, told, since, changes>>

\* Nobody can open the file: acpi_call is not loaded, or root is needed.
NoAcpiCall(r) ==
    /\ Sends(r)
    /\ Gather(r, Failed)
    /\ UNCHANGED <<machine, ec, result, asked, undisturbed, changes>>

\* The write fails, whatever the module has done by then: nothing is read.
CommandFails(r) ==
    /\ Sends(r)
    /\ Executed(Question(r)) \/ UNCHANGED result
    /\ Gather(r, Failed)
    /\ Disturbs(r)
    /\ UNCHANGED <<machine, ec, asked, changes>>

\* parse_reply and parse_gcmd_integer tell a buffer from an integer, but not
\* one integer from another.
Reply(question) ==
    IF result = Nothing \/ (question = "12") # (result.command = "12") THEN Failed
    ELSE result.answer

\* The second open, or the read, may fail: then the result stays for the next.
CollectReply(r) ==
    /\ asked[r]
    /\ \/ Gather(r, Reply(Question(r))) /\ result' = Nothing
       \/ Gather(r, Failed) /\ UNCHANGED result
    /\ asked' = [asked EXCEPT ![r] = FALSE]
    /\ Disturbs(r)
    /\ UNCHANGED <<machine, ec, changes>>

\* Any other user of acpi_call.
Stranger ==
    /\ via = "acpi"
    /\ \/ result' = Nothing
       \/ \E a \in {"set", "rejected"} : result' = [command |-> "60", answer |-> a]
       \/ \E s \in Samples : result' = [command |-> "12", answer |-> s]
    /\ undisturbed' = [r \in Readers |-> FALSE]
    /\ UNCHANGED <<machine, ec, op, asked, parts, told, since, changes>>

\* A reader killed between the two leaves its result behind.
ReaderKilled(r) ==
    /\ op[r] # "idle"
    /\ Over(r, Failed)
    /\ asked' = [asked EXCEPT ![r] = FALSE]
    /\ UNCHANGED <<machine, ec, result, undisturbed, changes>>

ReadingsChange ==
    /\ via # "mock" /\ changes < MaxChanges /\ changes' = changes + 1
    /\ \E s \in Samples \ {ec} :
         /\ ec' = s
         /\ since' = [r \in Readers |-> IF op[r] = "idle" THEN since[r] ELSE since[r] \cup {s}]
    /\ UNCHANGED <<machine, result, op, asked, parts, told, undisturbed>>

ReadNext ==
    \/ \E r \in Readers : \/ Ask(r) \/ ReadFile(r) \/ Replay(r) \/ WriteCommand(r)
                          \/ NoAcpiCall(r) \/ CommandFails(r) \/ CollectReply(r) \/ ReaderKilled(r)
    \/ Stranger \/ ReadingsChange

ReadSpec == ReadInit /\ [][ReadNext]_readVars

-----------------------------------------------------------------------------
ReadTypeOK ==
    /\ ec \in Samples /\ firmware \in Firmwares
    /\ op \in [Readers -> {"idle", "status", "capabilities"}]
    /\ {asked, undisturbed} \subseteq [Readers -> BOOLEAN]
    /\ \A r \in Readers : Len(parts[r]) < 5 /\ since[r] \subseteq Samples

(* Whatever changes, fails or is killed while a read is put together, and if  *)
(* nobody else uses acpi_call meanwhile (the result buffer says nothing of    *)
(* whose command it answers, so with a stranger no such promise is kept):     *)
(* every value a status shows is one the firmware had during the read, or     *)
(* none where the code says so; the speed the driver has rounded survives the *)
(* way back through a period; and the power modes are supported only if the   *)
(* firmware said so, "a failed query must never turn into an all-supported    *)
(* feature bitmap" (capability.rs:15; fan_status_reply, driver.rs:115).       *)
ReadsAreTrue ==
    \A r \in Readers : op[r] = "idle" /\ undisturbed[r] =>
        /\ told[r] = [modes |-> TRUE] =>
             \/ page7 = "set"
             \/ page7 = Nothing /\ firmware["96"] = "set" /\ firmware["16"] = "set"
                                /\ "rejected" \notin {firmware[q] : q \in Range(Queries)}
        /\ told[r] \notin {Nothing, Failed} \cup [modes : BOOLEAN] =>
             \E s, t, u \in since[r] :
               /\ told[r].cpu = PeriodToRpm(s.cpu)
               /\ told[r].gpu \in {PeriodToRpm(t.gpu)} \cup (IF via = "driver" THEN {0} ELSE {})
               /\ told[r].temp \in {Temperature(u.raw)}
                                   \cup (IF via = "driver" THEN {Nothing} ELSE {})
=============================================================================
