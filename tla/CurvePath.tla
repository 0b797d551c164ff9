----------------------------- MODULE CurvePath -----------------------------
(***************************************************************************)
(* A fan curve on its way into the EC: percent at the client, raw duty      *)
(* bytes in the command 14 payload, text in the driver's fan_curve file, a  *)
(* payload again.  Command 14 replaces the whole table, so the kernel reads *)
(* the table first, merges the channels named in the text into it and       *)
(* writes the result back; nothing locks the table in between.  Programs    *)
(* (clevo-cc --transport driver, clevod) then select custom; scripts save   *)
(* the file with cat and restore it with echo.                              *)
(*                                                                          *)
(* A channel is the two points command 14 carries.  The first and the last  *)
(* point belong to the EC and are never written.                            *)
(***************************************************************************)
EXTENDS Integers

CONSTANTS
    Programs, Scripts,  \* the writers
    Requested,          \* points asked for, in percent
    NoPoint,            \* --gpu1 or --gpu2 is not given
    Shipped,            \* tables the EC may hold at first, duties raw
    MaxRuns             \* a bound on the commands given to the writers

Writers  == Programs \cup Scripts
Channels == {"cpu", "gpu1", "gpu2"}
Points   == [t2 : 0..255, d2 : 0..255, t3 : 0..255, d3 : 0..255]
Zero     == [t2 |-> 0, d2 |-> 0, t3 |-> 0, d3 |-> 0]

ASSUME CurvesTyped == /\ Requested \subseteq Points /\ NoPoint \notin Points
                      /\ Shipped \subseteq [Channels -> Points]
ASSUME WritersDistinct == Programs \cap Scripts = {}

VARIABLES
    table,      \* the EC: per channel its points and the slope between them
    custom,     \* fan_mode is custom
    step,       \* per writer: where it is
    text,       \* per writer: what it writes to fan_curve
    seed,       \* per writer: the table its write started from
    goal,       \* per writer: the curve it was given (percent), or has read (raw)
    before,     \* per writer: the table when it was given its command
    outcome,    \* per writer: how its last command ended
    alone,      \* per writer: nobody else has written since its command
    written,    \* the table has been written
    runs        \* commands given so far

curveVars == <<table, custom, step, text, seed, goal, before, outcome, alone, written, runs>>

-----------------------------------------------------------------------------
(* The codec and the kernel's merge.                                         *)

PctToRaw(pct) == (pct * 255 + 50) \div 100

\* Fault: the conversion back truncates.
RawToPctTruncated(raw) == (raw * 100) \div 255

RawToPct(raw) == (raw * 100 + 127) \div 255

Absent(point)     == point.t2 = 0 /\ point.t3 = 0
Increasing(point) == point.t2 < point.t3
InPercent(point)  == point.d2 <= 100 /\ point.d3 <= 100

\* curve_from_args: GPU1 defaults to the CPU's points, GPU2 to none.
CurveOf(cpu, gpu1, gpu2) ==
    [c \in Channels |-> CASE c = "cpu"  -> cpu
                          [] c = "gpu1" -> IF gpu1 = NoPoint THEN cpu ELSE gpu1
                          [] c = "gpu2" -> IF gpu2 = NoPoint THEN Zero ELSE gpu2]

Parsed(curve) == \A c \in Channels :
    InPercent(curve[c]) /\ (Absent(curve[c]) \/ Increasing(curve[c]))

\* validate_curve skips a channel that is not carried.
Encodable(curve) == \A c \in Channels :
    Absent(curve[c]) \/ (InPercent(curve[c]) /\ Increasing(curve[c]))

Raw(point) == [point EXCEPT !.d2 = PctToRaw(@), !.d3 = PctToRaw(@)]
Pct(point) == [point EXCEPT !.d2 = RawToPct(@), !.d3 = RawToPct(@)]

\* The payload's points; the driver's channel has no use for its slopes.
Encoded(curve) == [c \in Channels |-> Raw(curve[c])]

DriverText(payload) ==
    [c \in Channels |-> IF Absent(payload[c]) THEN Zero ELSE payload[c]]

\* R2 in raw duty, rounded to nearest; a falling curve has slope 0.
Slope(point) ==
    IF Increasing(point) /\ point.d2 < point.d3
    THEN LET dt == point.t3 - point.t2
         IN  ((point.d3 - point.d2) * 16 + dt \div 2) \div dt
    ELSE 0

Sloped(points) == [c \in Channels |-> [point |-> points[c], slope |-> Slope(points[c])]]

\* Fault: every named channel must be encodable.
Strict(points, from) == \A c \in Channels : points[c] # Zero => Increasing(points[c])

\* A named channel that cannot be encoded must be what the EC has already.
Mergeable(points, from) == \A c \in Channels :
    points[c] # Zero /\ ~Increasing(points[c]) => points[c] = from[c]

\* Fault: slopes are computed for the named channels only.
MergedUnsloped(points, from) ==
    [c \in Channels |-> IF Increasing(points[c])
                        THEN [point |-> points[c], slope |-> Slope(points[c])]
                        ELSE [point |-> from[c], slope |-> 0]]

Merged(points, from) ==
    Sloped([c \in Channels |-> IF Increasing(points[c]) THEN points[c] ELSE from[c]])

\* fan_curve_show, fan_curve_reply and parse_curve.
Shown    == [c \in Channels |-> table[c].point]
ReadBack == [c \in Channels |-> Pct(Shown[c])]

\* same_writable_state: what was written, against what is read back.
SameWritable(curve, readBack) ==
    \A c \in Channels : Absent(curve[c]) \/ curve[c] = readBack[c]

-----------------------------------------------------------------------------
CurveInit ==
    /\ \E points \in Shipped :
         /\ table = [c \in Channels |-> [point |-> points[c], slope |-> 0]]
         /\ LET same == [w \in Writers |-> points]
            IN  text = same /\ seed = same /\ goal = same /\ before = same
    /\ custom = FALSE
    /\ step = [w \in Writers |-> "idle"]
    /\ outcome = [w \in Writers |-> "none"] /\ alone = [w \in Writers |-> TRUE]
    /\ written = FALSE /\ runs = 0

Given(w, curve, next, result) ==
    /\ step[w] = "idle" /\ runs < MaxRuns
    /\ runs' = runs + 1
    /\ step' = [step EXCEPT ![w] = next]
    /\ goal' = [goal EXCEPT ![w] = curve]
    /\ before' = [before EXCEPT ![w] = Shown]
    /\ outcome' = [outcome EXCEPT ![w] = result]
    /\ alone' = [alone EXCEPT ![w] = TRUE]
    /\ UNCHANGED <<table, custom, seed, written>>

\* run_set_curve: checked twice, and carried out only with --apply.
RunSetCurve(w) ==
    /\ step[w] = "idle" /\ runs < MaxRuns
    /\ \E cpu \in Requested, gpu1, gpu2 \in Requested \cup {NoPoint}, apply \in BOOLEAN :
         LET curve == CurveOf(cpu, gpu1, gpu2)
         IN  IF Parsed(curve) /\ Encodable(curve)
             THEN IF apply
                  THEN /\ Given(w, curve, "store", "none")
                       /\ text' = [text EXCEPT ![w] = DriverText(Encoded(curve))]
                  ELSE Given(w, curve, "idle", "dry") /\ UNCHANGED text
             ELSE Given(w, curve, "idle", "invalid") /\ UNCHANGED text

\* cat fan_curve; the reading fails without a trace.
SaveCurve(w) ==
    /\ Given(w, Shown, "saved", "none")
    /\ text' = [text EXCEPT ![w] = Shown]

RestoreCurve(w) ==
    /\ step[w] = "saved"
    /\ step' = [step EXCEPT ![w] = "store"]
    /\ UNCHANGED <<table, custom, text, seed, goal, before, outcome, alone, written, runs>>

Ends(w, result) ==
    /\ step' = [step EXCEPT ![w] = "idle"]
    /\ outcome' = [outcome EXCEPT ![w] = result]

\* fan_curve_store: without the EC's table there is nothing to merge into.
SeedPayload(w) ==
    /\ step[w] = "store"
    /\ \/ /\ seed' = [seed EXCEPT ![w] = Shown]
          /\ step' = [step EXCEPT ![w] = "merge"]
          /\ UNCHANGED outcome
       \/ Ends(w, "error") /\ UNCHANGED seed
    /\ UNCHANGED <<table, custom, text, goal, before, alone, written, runs>>

RefuseText(w) ==
    /\ step[w] = "merge" /\ ~Mergeable(text[w], seed[w])
    /\ Ends(w, "refused")
    /\ UNCHANGED <<table, custom, text, seed, goal, before, alone, written, runs>>

\* The EC may report a failure, of a write that it has carried out or not.
WritePayload(w) ==
    /\ step[w] = "merge" /\ Mergeable(text[w], seed[w])
    /\ \/ /\ table' = Merged(text[w], seed[w]) /\ written' = TRUE
          /\ alone' = [u \in Writers |-> u = w /\ alone[u]]
          /\ \/ IF w \in Programs
                THEN step' = [step EXCEPT ![w] = "select"] /\ UNCHANGED outcome
                ELSE Ends(w, "ok")
             \/ Ends(w, "error")
       \/ Ends(w, "error") /\ UNCHANGED <<table, written, alone>>
    /\ UNCHANGED <<custom, text, seed, goal, before, runs>>

\* When this fails the table stays written, and the mode as it was.
SelectCustom(w) ==
    /\ step[w] = "select"
    /\ \/ custom' = TRUE /\ Ends(w, "ok")
       \/ Ends(w, "error") /\ UNCHANGED custom
    /\ UNCHANGED <<table, text, seed, goal, before, alone, written, runs>>

\* Anyone who writes another mode to fan_mode.
OtherMode ==
    /\ custom /\ custom' = FALSE
    /\ alone' = [w \in Writers |-> FALSE]
    /\ UNCHANGED <<table, step, text, seed, goal, before, outcome, written, runs>>

CurveNext ==
    \/ \E w \in Programs : RunSetCurve(w) \/ SelectCustom(w)
    \/ \E w \in Scripts : SaveCurve(w) \/ RestoreCurve(w)
    \/ \E w \in Writers : SeedPayload(w) \/ RefuseText(w) \/ WritePayload(w)
    \/ OtherMode

CurveSpec == CurveInit /\ [][CurveNext]_curveVars

-----------------------------------------------------------------------------
CurveTypeOK ==
    /\ Shown \in [Channels -> Points] /\ \A c \in Channels : table[c].slope \in 0..4080
    /\ step \in [Writers -> {"idle", "saved", "store", "merge", "select"}]
    /\ {text, seed, goal, before} \subseteq [Writers -> [Channels -> Points]]
    /\ outcome \in [Writers -> {"none", "dry", "invalid", "refused", "error", "ok"}]
    /\ alone \in [Writers -> BOOLEAN]
    /\ {custom, written} \subseteq BOOLEAN

(* After a command that ended well, and until someone else writes, the curve  *)
(* read back is the one asked for, the channels it does not carry are as they *)
(* were, and the EC runs it (run_set_curve, commands.rs; same_writable_state, *)
(* fan_curve.rs; fan_curve_store, clevo-cc.c).                                *)
CurveTakesEffect ==
    \A w \in Programs : outcome[w] = "ok" /\ alone[w] =>
        /\ custom /\ SameWritable(goal[w], ReadBack)
        /\ \A c \in Channels : Absent(goal[w][c]) => Shown[c] = before[w][c]

(* What cat showed can be echoed back, even a channel the encoder would       *)
(* refuse, and is then the table again, unless someone wrote in between       *)
(* (fan_curve_store, clevo-cc.c:1524).                                        *)
RestoreAccepted ==
    \A w \in Scripts : alone[w] =>
        /\ outcome[w] # "refused"
        /\ outcome[w] = "ok" => Shown = goal[w]

(* However reads, merges, refusals and writes of several writers interleave,  *)
(* every channel holds points that were shipped or asked for as one, and the  *)
(* slope that belongs to them.                                                *)
TableWhole ==
    written => \A c \in Channels :
        /\ table[c].slope = Slope(table[c].point)
        /\ table[c].point \in {points[c] : points \in Shipped} \cup {Raw(p) : p \in Requested}
=============================================================================
