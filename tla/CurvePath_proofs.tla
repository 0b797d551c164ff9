-------------------------- MODULE CurvePath_proofs --------------------------
(***************************************************************************)
(* Proofs about CurvePath, for any writers, curves and tables the EC was    *)
(* shipped with: the table stays whole, a curve that was set takes effect,  *)
(* and what fan_curve shows can be written back.                            *)
(***************************************************************************)
EXTENDS CurvePath, TLAPS

\* A percentage fits the byte of a duty.
LEMMA DutyRange ==
  ASSUME NEW pct \in 0..100
  PROVE  PctToRaw(pct) \in 0..255
BY DEF PctToRaw

(* Every percentage survives the way through a raw duty byte and back         *)
(* (pct_to_raw_duty and raw_duty_to_pct, fan_curve.rs:240-250).               *)
THEOREM DutyRoundTrip ==
  ASSUME NEW pct \in 0..100
  PROVE  RawToPct(PctToRaw(pct)) = pct
<1> DEFINE raw == PctToRaw(pct)
<1>1. raw \in 0..255 /\ 100 * raw <= pct * 255 + 50 /\ pct * 255 + 50 < 100 * raw + 100
  BY DEF PctToRaw
<1>2. 255 * pct <= raw * 100 + 127 /\ raw * 100 + 127 < 255 * pct + 255
  BY <1>1
<1>3. (raw * 100 + 127) \div 255 = pct
  <2> HIDE DEF raw
  <2> QED BY <1>1, <1>2
<1> QED BY <1>3 DEF RawToPct

\* A point comes back from its raw form as it was.
LEMMA PointRoundTrip ==
  ASSUME NEW p \in Points, InPercent(p)
  PROVE  Raw(p) \in Points /\ Pct(Raw(p)) = p
<1>1. p.d2 \in 0..100 /\ p.d3 \in 0..100
  BY DEF Points, InPercent
<1>2. /\ Raw(p) = [p EXCEPT !.d2 = PctToRaw(p.d2), !.d3 = PctToRaw(p.d3)]
      /\ p = [t2 |-> p.t2, d2 |-> p.d2, t3 |-> p.t3, d3 |-> p.d3]
  BY DEF Raw, Points
<1>3. PctToRaw(p.d2) \in 0..255 /\ PctToRaw(p.d3) \in 0..255
  BY <1>1, DutyRange
<1>4. Raw(p) = [t2 |-> p.t2, d2 |-> PctToRaw(p.d2), t3 |-> p.t3, d3 |-> PctToRaw(p.d3)]
  BY <1>2
<1>5. ASSUME NEW raw, raw = [t2 |-> p.t2, d2 |-> PctToRaw(p.d2),
                             t3 |-> p.t3, d3 |-> PctToRaw(p.d3)]
      PROVE  Pct(raw) = [t2 |-> p.t2, d2 |-> RawToPct(PctToRaw(p.d2)),
                         t3 |-> p.t3, d3 |-> RawToPct(PctToRaw(p.d3))]
  <2>1. Pct(raw) = [raw EXCEPT !.d2 = RawToPct(raw.d2), !.d3 = RawToPct(raw.d3)]
    BY DEF Pct
  <2>2. raw.d2 = PctToRaw(p.d2) /\ raw.d3 = PctToRaw(p.d3)
    BY <1>5
  <2>3. Pct(raw) = [raw EXCEPT !.d2 = RawToPct(PctToRaw(p.d2)),
                               !.d3 = RawToPct(PctToRaw(p.d3))]
    BY <2>1, <2>2
  <2> QED BY <1>5, <2>3
<1>6. Pct(Raw(p)) = [t2 |-> p.t2, d2 |-> RawToPct(PctToRaw(p.d2)),
                     t3 |-> p.t3, d3 |-> RawToPct(PctToRaw(p.d3))]
  BY <1>4, <1>5
<1>7. Pct(Raw(p)) = p
  BY <1>1, <1>2, <1>6, DutyRoundTrip
<1>8. Raw(p) \in Points
  BY <1>3, <1>4 DEF Points
<1> QED BY <1>7, <1>8

-----------------------------------------------------------------------------
(* The inductive invariant.                                                  *)

Carried(c) == {points[c] : points \in Shipped} \cup {Raw(p) : p \in Requested}

Curves == [Channels -> Points]

CurveTyped ==
    /\ step \in [Writers -> {"idle", "saved", "store", "merge", "select"}]
    /\ text \in [Writers -> Curves] /\ seed \in [Writers -> Curves]
    /\ goal \in [Writers -> Curves] /\ before \in [Writers -> Curves]
    /\ Shown \in Curves
    /\ outcome \in [Writers -> {"none", "dry", "invalid", "refused", "error", "ok"}]
    /\ alone \in [Writers -> BOOLEAN]

\* Whatever a writer may still merge is carried, too.
AllCarried ==
    /\ \A c \in Channels : Shown[c] \in Carried(c)
    /\ \A w \in Writers, c \in Channels :
         /\ seed[w][c] \in Carried(c)
         /\ Increasing(text[w][c]) => text[w][c] \in Carried(c)

SlopesFit == written => \A c \in Channels : table[c].slope = Slope(Shown[c])

\* The table, once the writer's curve is in it.
TookEffect(w) ==
    \A c \in Channels :
        Shown[c] = IF Absent(goal[w][c]) THEN before[w][c] ELSE Raw(goal[w][c])

ProgramOnTrack(w) ==
    /\ step[w] \in {"store", "merge", "select"} \/ outcome[w] = "ok" => Encodable(goal[w])
    /\ step[w] \in {"store", "merge"} => text[w] = DriverText(Encoded(goal[w]))
    /\ alone[w] =>
         /\ step[w] \in {"store", "merge"} => Shown = before[w]
         /\ step[w] = "merge" => seed[w] = Shown
         /\ step[w] = "select" => TookEffect(w)
         /\ outcome[w] = "ok" => TookEffect(w) /\ custom
    /\ step[w] # "idle" => outcome[w] = "none"
    /\ step[w] # "saved"

ScriptOnTrack(w) ==
    /\ step[w] \in {"saved", "store", "merge"} => text[w] = goal[w] /\ outcome[w] = "none"
    /\ step[w] # "select"
    /\ alone[w] =>
         /\ step[w] \in {"saved", "store", "merge"} => Shown = goal[w]
         /\ step[w] = "merge" => seed[w] = Shown
         /\ outcome[w] = "ok" => Shown = goal[w]
         /\ outcome[w] # "refused"

CurveIInv ==
    /\ CurveTyped /\ AllCarried /\ SlopesFit
    /\ \A w \in Programs : ProgramOnTrack(w)
    /\ \A w \in Scripts : ScriptOnTrack(w)

-----------------------------------------------------------------------------
(* What is written, and what becomes of it.                                  *)

\* The conversion of duties leaves the temperatures alone.
LEMMA TimesKept ==
  ASSUME NEW p \in Points
  PROVE  (Absent(Raw(p)) <=> Absent(p)) /\ (Increasing(Raw(p)) <=> Increasing(p))
<1>1. Raw(p).t2 = p.t2 /\ Raw(p).t3 = p.t3
  <2>1. /\ Raw(p) = [p EXCEPT !.d2 = PctToRaw(p.d2), !.d3 = PctToRaw(p.d3)]
        /\ p = [t2 |-> p.t2, d2 |-> p.d2, t3 |-> p.t3, d3 |-> p.d3]
    BY DEF Raw, Points
  <2>2. Raw(p) = [t2 |-> p.t2, d2 |-> PctToRaw(p.d2), t3 |-> p.t3, d3 |-> PctToRaw(p.d3)]
    BY <2>1
  <2> QED BY <2>2
<1> QED BY <1>1 DEF Absent, Increasing

\* The text "0 0 0 0" names no points.
LEMMA ZeroAbsent == Zero \in Points /\ Absent(Zero) /\ ~Increasing(Zero)
BY DEF Zero, Points, Absent, Increasing

\* What the driver's file is given of a curve that can be encoded.
LEMMA TextOfCurve ==
  ASSUME NEW curve \in Curves, Encodable(curve)
  PROVE  /\ DriverText(Encoded(curve)) \in Curves
         /\ \A c \in Channels :
              LET point == DriverText(Encoded(curve))[c]
              IN  /\ point = IF Absent(curve[c]) THEN Zero ELSE Raw(curve[c])
                  /\ Increasing(point) <=> ~Absent(curve[c])
<1>1. ASSUME NEW c \in Channels
      PROVE  LET point == DriverText(Encoded(curve))[c]
             IN  /\ point = IF Absent(curve[c]) THEN Zero ELSE Raw(curve[c])
                 /\ Increasing(point) <=> ~Absent(curve[c])
                 /\ point \in Points
  <2>1. curve[c] \in Points
    BY DEF Curves
  <2>2. DriverText(Encoded(curve))[c] = IF Absent(Raw(curve[c])) THEN Zero ELSE Raw(curve[c])
    BY DEF DriverText, Encoded
  <2>3. CASE Absent(curve[c])
    BY <2>1, <2>2, <2>3, TimesKept, ZeroAbsent
  <2>4. CASE ~Absent(curve[c])
    <3>1. InPercent(curve[c]) /\ Increasing(curve[c])
      BY <2>4 DEF Encodable
    <3> QED BY <2>1, <2>2, <2>4, <3>1, TimesKept, PointRoundTrip
  <2> QED BY <2>3, <2>4
<1>2. DriverText(Encoded(curve)) = [c \in Channels |-> DriverText(Encoded(curve))[c]]
  BY DEF DriverText
<1>3. DriverText(Encoded(curve)) \in Curves
  BY <1>1, <1>2 DEF Curves
<1> QED BY <1>1, <1>3

\* What a merge leaves in the table, channel by channel.
LEMMA MergeWrites ==
  ASSUME NEW points \in Curves, NEW from \in Curves, table' = Merged(points, from)
  PROVE  /\ Shown' \in Curves
         /\ \A c \in Channels :
              /\ Shown'[c] = IF Increasing(points[c]) THEN points[c] ELSE from[c]
              /\ table'[c].slope = Slope(Shown'[c])
<1> DEFINE result == [c \in Channels |-> IF Increasing(points[c]) THEN points[c] ELSE from[c]]
<1>1. table' = [c \in Channels |-> [point |-> result[c], slope |-> Slope(result[c])]]
  BY DEF Merged, Sloped
<1>2. Shown' = [c \in Channels |-> table'[c].point]
  BY DEF Shown
<1>3. Shown' = result
  <2> HIDE DEF result
  <2>1. \A c \in Channels : table'[c].point = result[c]
    BY <1>1
  <2> QED BY <1>2, <2>1 DEF result
<1>4. \A c \in Channels : table'[c].slope = Slope(Shown'[c])
  BY <1>1, <1>3
<1>5. result \in Curves
  BY DEF Curves
<1> QED BY <1>3, <1>4, <1>5

\* fan_curve shows the table and nothing else.
LEMMA ShownKept ==
  ASSUME table' = table
  PROVE  Shown' = Shown
BY DEF Shown

-----------------------------------------------------------------------------
\* The invariant holds of the shipped table, before any command.
LEMMA CurveInitially == CurveInit => CurveIInv
<1>1. SUFFICES ASSUME CurveInit PROVE CurveIInv
  OBVIOUS
<1>2. PICK points \in Shipped :
        /\ table = [c \in Channels |-> [point |-> points[c], slope |-> 0]]
        /\ text = [w \in Writers |-> points] /\ seed = [w \in Writers |-> points]
        /\ goal = [w \in Writers |-> points] /\ before = [w \in Writers |-> points]
  BY <1>1 DEF CurveInit
<1>3. points \in Curves
  BY CurvesTyped DEF Curves
<1>4. Shown = points
  <2>1. Shown = [c \in Channels |-> points[c]]
    BY <1>2 DEF Shown
  <2> QED BY <1>3, <2>1 DEF Curves
<1>5. /\ step = [w \in Writers |-> "idle"] /\ outcome = [w \in Writers |-> "none"]
      /\ alone = [w \in Writers |-> TRUE] /\ written = FALSE
  BY <1>1 DEF CurveInit
<1>6. CurveTyped
  BY <1>2, <1>3, <1>4, <1>5 DEF CurveTyped
<1>7. AllCarried
  BY <1>2, <1>3, <1>4 DEF AllCarried, Carried
<1> QED
  BY <1>5, <1>6, <1>7 DEF CurveIInv, SlopesFit, ProgramOnTrack, ScriptOnTrack, Writers

\* A command that is given to one writer leaves the others on their way.
LEMMA GivenStep ==
  ASSUME CurveIInv, NEW w \in Writers, NEW curve \in Curves,
         NEW next \in {"idle", "saved", "store"}, NEW result \in {"none", "dry", "invalid"},
         NEW words \in Curves,
         Given(w, curve, next, result), text' = [text EXCEPT ![w] = words],
         \A c \in Channels : Increasing(words[c]) => words[c] \in Carried(c),
         next # "idle" => result = "none",
         w \in Programs => next # "saved" /\ (next = "store" =>
              Encodable(curve) /\ words = DriverText(Encoded(curve))),
         w \in Scripts => next = "saved" /\ words = curve /\ curve = Shown
  PROVE  CurveIInv'
<1> USE WritersDistinct DEF Writers
<1>1. /\ step' = [step EXCEPT ![w] = next] /\ goal' = [goal EXCEPT ![w] = curve]
      /\ before' = [before EXCEPT ![w] = Shown] /\ outcome' = [outcome EXCEPT ![w] = result]
      /\ alone' = [alone EXCEPT ![w] = TRUE] /\ seed' = seed /\ custom' = custom
      /\ table' = table /\ written' = written /\ Shown' = Shown
  BY ShownKept DEF Given
<1>2. CurveTyped'
  BY <1>1 DEF CurveIInv, CurveTyped
<1>3. AllCarried'
  BY <1>1 DEF CurveIInv, CurveTyped, AllCarried, Carried
<1>4. SlopesFit'
  BY <1>1 DEF CurveIInv, SlopesFit
<1>5. ASSUME NEW u \in Programs PROVE ProgramOnTrack(u)'
  <2>1. CASE u # w
    BY <1>1, <2>1 DEF CurveIInv, CurveTyped, ProgramOnTrack, TookEffect
  <2>2. CASE u = w
    BY <1>1, <2>2 DEF CurveIInv, CurveTyped, ProgramOnTrack
  <2> QED BY <2>1, <2>2
<1>6. ASSUME NEW u \in Scripts PROVE ScriptOnTrack(u)'
  <2>1. CASE u # w
    BY <1>1, <2>1 DEF CurveIInv, CurveTyped, ScriptOnTrack
  <2>2. CASE u = w
    BY <1>1, <2>2 DEF CurveIInv, CurveTyped, ScriptOnTrack
  <2> QED BY <2>1, <2>2
<1> QED BY <1>2, <1>3, <1>4, <1>5, <1>6 DEF CurveIInv

\* A curve is checked, encoded and handed to the writer.
LEMMA RunSetCurveStep ==
  ASSUME CurveIInv, NEW w \in Programs, RunSetCurve(w)
  PROVE  CurveIInv'
<1> USE WritersDistinct
<1>1. PICK cpu \in Requested, gpu1 \in Requested \cup {NoPoint},
           gpu2 \in Requested \cup {NoPoint}, apply \in BOOLEAN :
        LET curve == CurveOf(cpu, gpu1, gpu2)
        IN  IF Parsed(curve) /\ Encodable(curve)
            THEN IF apply
                 THEN /\ Given(w, curve, "store", "none")
                      /\ text' = [text EXCEPT ![w] = DriverText(Encoded(curve))]
                 ELSE Given(w, curve, "idle", "dry") /\ UNCHANGED text
            ELSE Given(w, curve, "idle", "invalid") /\ UNCHANGED text
  BY DEF RunSetCurve
<1> DEFINE curve == CurveOf(cpu, gpu1, gpu2)
<1>2. \A c \in Channels : curve[c] \in Requested \cup {Zero}
  BY DEF CurveOf, Channels
<1>3. curve \in Curves
  BY <1>2, ZeroAbsent, CurvesTyped DEF Curves, CurveOf
<1>4. text[w] \in Curves /\ text = [text EXCEPT ![w] = text[w]] /\ w \in Writers
  BY DEF CurveIInv, CurveTyped, Writers
<1>5. \A c \in Channels : Increasing(text[w][c]) => text[w][c] \in Carried(c)
  BY <1>4 DEF CurveIInv, AllCarried
<1> HIDE DEF curve
<1>6. CASE Parsed(curve) /\ Encodable(curve) /\ apply
  <2>1. /\ Given(w, curve, "store", "none")
        /\ text' = [text EXCEPT ![w] = DriverText(Encoded(curve))]
    BY <1>1, <1>6 DEF curve
  <2>2. DriverText(Encoded(curve)) \in Curves
    BY <1>3, <1>6, TextOfCurve
  <2>3. ASSUME NEW c \in Channels, Increasing(DriverText(Encoded(curve))[c])
        PROVE  DriverText(Encoded(curve))[c] \in Carried(c)
    <3>1. DriverText(Encoded(curve))[c] = Raw(curve[c]) /\ ~Absent(curve[c])
      BY <1>3, <1>6, <2>3, TextOfCurve
    <3>2. curve[c] \in Requested
      BY <1>2, <3>1, ZeroAbsent
    <3> QED BY <3>1, <3>2 DEF Carried
  <2> QED BY <1>3, <1>4, <1>6, <2>1, <2>2, <2>3, GivenStep
<1>7. CASE ~(Parsed(curve) /\ Encodable(curve) /\ apply)
  <2>1. /\ Given(w, curve, "idle", "dry") \/ Given(w, curve, "idle", "invalid")
        /\ text' = [text EXCEPT ![w] = text[w]]
    BY <1>1, <1>4, <1>7 DEF curve
  <2> QED BY <1>3, <1>4, <1>5, <2>1, GivenStep
<1> QED BY <1>6, <1>7

\* A script keeps what the file shows.
LEMMA SaveCurveStep ==
  ASSUME CurveIInv, NEW w \in Scripts, SaveCurve(w)
  PROVE  CurveIInv'
<1>1. Shown \in Curves /\ \A c \in Channels : Shown[c] \in Carried(c)
  BY DEF CurveIInv, CurveTyped, AllCarried
<1>2. Given(w, Shown, "saved", "none") /\ text' = [text EXCEPT ![w] = Shown]
  BY DEF SaveCurve
<1> QED BY <1>1, <1>2, GivenStep, WritersDistinct DEF Writers

\* A writer that goes on without a write of the table.
LEMMA QuietStep ==
  ASSUME CurveIInv, NEW w \in Writers, NEW next \in {"idle", "store", "merge"},
         NEW result \in {"none", "error", "refused"},
         step' = [step EXCEPT ![w] = next], outcome' = [outcome EXCEPT ![w] = result],
         seed' = seed \/ seed' = [seed EXCEPT ![w] = Shown],
         UNCHANGED <<table, custom, text, goal, before, alone, written>>,
         next = "idle" => result # "none",
         next = "store" => step[w] = "saved" /\ result = "none",
         next = "merge" => step[w] = "store" /\ seed' = [seed EXCEPT ![w] = Shown]
                           /\ result = "none",
         result = "refused" /\ w \in Scripts => ~alone[w]
  PROVE  CurveIInv'
<1> USE WritersDistinct DEF Writers
<1>1. Shown' = Shown
  BY ShownKept
<1>2. CurveTyped'
  BY <1>1 DEF CurveIInv, CurveTyped
<1>3. AllCarried'
  BY <1>1 DEF CurveIInv, CurveTyped, AllCarried, Carried
<1>4. SlopesFit'
  BY <1>1 DEF CurveIInv, SlopesFit
<1>5. ASSUME NEW u \in Programs PROVE ProgramOnTrack(u)'
  <2>1. CASE u # w
    BY <1>1, <2>1 DEF CurveIInv, CurveTyped, ProgramOnTrack, TookEffect
  <2>2. CASE u = w
    BY <1>1, <2>2 DEF CurveIInv, CurveTyped, ProgramOnTrack
  <2> QED BY <2>1, <2>2
<1>6. ASSUME NEW u \in Scripts PROVE ScriptOnTrack(u)'
  <2>1. CASE u # w
    BY <1>1, <2>1 DEF CurveIInv, CurveTyped, ScriptOnTrack
  <2>2. CASE u = w
    BY <1>1, <2>2 DEF CurveIInv, CurveTyped, ScriptOnTrack
  <2> QED BY <2>1, <2>2
<1> QED BY <1>2, <1>3, <1>4, <1>5, <1>6 DEF CurveIInv

\* The kernel starts from the table as it is.
LEMMA SeedPayloadStep ==
  ASSUME CurveIInv, NEW w \in Writers, SeedPayload(w)
  PROVE  CurveIInv'
<1>1. outcome[w] = "none" /\ outcome = [outcome EXCEPT ![w] = outcome[w]]
  BY DEF SeedPayload, CurveIInv, CurveTyped, ProgramOnTrack, ScriptOnTrack, Writers
<1>2. CASE seed' = [seed EXCEPT ![w] = Shown] /\ step' = [step EXCEPT ![w] = "merge"]
           /\ outcome' = outcome
  BY <1>1, <1>2, QuietStep DEF SeedPayload
<1>3. CASE Ends(w, "error") /\ seed' = seed
  BY <1>3, QuietStep DEF SeedPayload, Ends
<1> QED BY <1>2, <1>3 DEF SeedPayload

\* A script writes back what it kept.
LEMMA RestoreCurveStep ==
  ASSUME CurveIInv, NEW w \in Scripts, RestoreCurve(w)
  PROVE  CurveIInv'
<1>1. outcome[w] = "none" /\ outcome = [outcome EXCEPT ![w] = outcome[w]]
  BY DEF RestoreCurve, CurveIInv, CurveTyped, ScriptOnTrack, Writers
<1> QED BY <1>1, QuietStep DEF RestoreCurve, Writers

\* A text that is refused is not what the script has read, or not any more.
LEMMA RefuseTextStep ==
  ASSUME CurveIInv, NEW w \in Writers, RefuseText(w)
  PROVE  CurveIInv'
<1>1. w \in Scripts /\ alone[w] => text[w] = seed[w]
  BY DEF RefuseText, CurveIInv, ScriptOnTrack
<1>2. ~(w \in Scripts /\ alone[w])
  BY <1>1 DEF RefuseText, Mergeable
<1> QED BY <1>2, QuietStep DEF RefuseText, Ends

\* The merged payload reaches the EC, or a failure is reported.
LEMMA WritePayloadStep ==
  ASSUME CurveIInv, NEW w \in Writers, WritePayload(w)
  PROVE  CurveIInv'
<1> USE WritersDistinct
<1>1. /\ step[w] = "merge" /\ text[w] \in Curves /\ seed[w] \in Curves
      /\ UNCHANGED <<custom, text, seed, goal, before>>
  BY DEF WritePayload, CurveIInv, CurveTyped
<1>2. CASE Ends(w, "error") /\ UNCHANGED <<table, written, alone>>
  BY <1>1, <1>2, QuietStep DEF Ends
<1>3. CASE /\ table' = Merged(text[w], seed[w]) /\ written' = TRUE
           /\ alone' = [u \in Writers |-> u = w /\ alone[u]]
           /\ \/ w \in Programs /\ step' = [step EXCEPT ![w] = "select"] /\ outcome' = outcome
              \/ w \in Scripts /\ Ends(w, "ok")
              \/ Ends(w, "error")
  <2>1. /\ Shown' \in Curves
        /\ \A c \in Channels :
             /\ Shown'[c] = IF Increasing(text[w][c]) THEN text[w][c] ELSE seed[w][c]
             /\ table'[c].slope = Slope(Shown'[c])
    BY <1>1, <1>3, MergeWrites
  <2>2. /\ step' \in [Writers -> {"idle", "saved", "store", "merge", "select"}]
        /\ outcome' \in [Writers -> {"none", "dry", "invalid", "refused", "error", "ok"}]
        /\ alone' \in [Writers -> BOOLEAN]
    BY <1>3 DEF Ends, CurveIInv, CurveTyped
  <2>3. CurveTyped'
    BY <1>1, <2>1, <2>2 DEF CurveIInv, CurveTyped
  <2>4. AllCarried'
    BY <1>1, <2>1 DEF CurveIInv, AllCarried, Carried
  <2>5. SlopesFit'
    BY <2>1 DEF SlopesFit
  <2>6. ASSUME NEW u \in Programs PROVE ProgramOnTrack(u)'
    <3>1. CASE u # w
      <4>1. step'[u] = step[u] /\ outcome'[u] = outcome[u] /\ ~alone'[u]
        BY <1>3, <3>1 DEF Ends, CurveIInv, CurveTyped, Writers
      <4> QED BY <1>1, <4>1 DEF CurveIInv, ProgramOnTrack
    <3>2. CASE u = w
      <4>1. /\ text[w] = DriverText(Encoded(goal[w])) /\ Encodable(goal[w])
            /\ goal[w] \in Curves
            /\ alone[w] => seed[w] = before[w]
            /\ outcome[w] = "none"
        BY <1>1, <3>2 DEF CurveIInv, CurveTyped, ProgramOnTrack, Writers
      <4>2. alone[w] => TookEffect(w)'
        BY <1>1, <2>1, <4>1, TextOfCurve DEF TookEffect
      <4>3. /\ (step'[w] = "select" /\ outcome'[w] = "none")
               \/ (step'[w] = "idle" /\ outcome'[w] = "error")
            /\ alone'[w] => alone[w]
        BY <1>3, <3>2, <4>1 DEF Ends, CurveIInv, CurveTyped, Writers
      <4> QED BY <1>1, <3>2, <4>1, <4>2, <4>3 DEF ProgramOnTrack
    <3> QED BY <3>1, <3>2
  <2>7. ASSUME NEW u \in Scripts PROVE ScriptOnTrack(u)'
    <3>1. CASE u # w
      <4>1. step'[u] = step[u] /\ outcome'[u] = outcome[u] /\ ~alone'[u]
        BY <1>3, <3>1 DEF Ends, CurveIInv, CurveTyped, Writers
      <4> QED BY <1>1, <4>1 DEF CurveIInv, ScriptOnTrack
    <3>2. CASE u = w
      <4>1. /\ text[w] = goal[w] /\ goal[w] \in Curves
            /\ alone[w] => seed[w] = goal[w]
        BY <1>1, <3>2 DEF CurveIInv, CurveTyped, ScriptOnTrack, Writers
      <4>2. alone[w] => \A c \in Channels : Shown'[c] = goal[w][c]
        BY <2>1, <4>1
      <4>3. alone[w] => Shown' = goal[w]
        BY <2>1, <4>1, <4>2 DEF Curves
      <4>4. /\ step'[w] = "idle" /\ outcome'[w] \in {"ok", "error"}
            /\ alone'[w] => alone[w]
        BY <1>3, <3>2 DEF Ends, CurveIInv, CurveTyped, Writers
      <4> QED BY <1>1, <3>2, <4>3, <4>4 DEF ScriptOnTrack
    <3> QED BY <3>1, <3>2
  <2> QED BY <2>3, <2>4, <2>5, <2>6, <2>7 DEF CurveIInv
<1> QED BY <1>2, <1>3 DEF WritePayload, Writers

\* The program that has written selects custom.
LEMMA SelectCustomStep ==
  ASSUME CurveIInv, NEW w \in Programs, SelectCustom(w)
  PROVE  CurveIInv'
<1> USE WritersDistinct DEF Writers
<1>1. /\ step[w] = "select" /\ step' = [step EXCEPT ![w] = "idle"] /\ Shown' = Shown
      /\ UNCHANGED <<table, text, seed, goal, before, alone, written>>
      /\ custom => custom'
  BY ShownKept DEF SelectCustom, Ends
<1>2. \/ outcome' = [outcome EXCEPT ![w] = "ok"] /\ custom'
      \/ outcome' = [outcome EXCEPT ![w] = "error"]
  BY DEF SelectCustom, Ends
<1>3. CurveTyped' /\ AllCarried' /\ SlopesFit'
  BY <1>1, <1>2 DEF CurveIInv, CurveTyped, AllCarried, Carried, SlopesFit
<1>4. ASSUME NEW u \in Programs PROVE ProgramOnTrack(u)'
  <2>1. CASE u # w
    BY <1>1, <1>2, <2>1 DEF CurveIInv, CurveTyped, ProgramOnTrack, TookEffect
  <2>2. CASE u = w
    BY <1>1, <1>2, <2>2 DEF CurveIInv, CurveTyped, ProgramOnTrack, TookEffect
  <2> QED BY <2>1, <2>2
<1>5. ASSUME NEW u \in Scripts PROVE ScriptOnTrack(u)'
  BY <1>1, <1>2 DEF CurveIInv, CurveTyped, ScriptOnTrack
<1> QED BY <1>3, <1>4, <1>5 DEF CurveIInv

\* Another mode is selected by anyone.
LEMMA OtherModeStep ==
  ASSUME CurveIInv, OtherMode \/ UNCHANGED curveVars
  PROVE  CurveIInv'
<1>1. /\ Shown' = Shown /\ UNCHANGED <<table, step, text, seed, goal, before, outcome, written>>
      /\ UNCHANGED <<custom, alone>> \/ alone' = [w \in Writers |-> FALSE]
  BY ShownKept DEF OtherMode, curveVars
<1>2. CurveTyped' /\ AllCarried' /\ SlopesFit'
  BY <1>1 DEF CurveIInv, CurveTyped, AllCarried, Carried, SlopesFit
<1>3. \A u \in Programs : ProgramOnTrack(u)'
  BY <1>1 DEF CurveIInv, ProgramOnTrack, TookEffect, Writers
<1>4. \A u \in Scripts : ScriptOnTrack(u)'
  BY <1>1 DEF CurveIInv, ScriptOnTrack, Writers
<1> QED BY <1>2, <1>3, <1>4 DEF CurveIInv

\* Every step keeps the invariant.
LEMMA CurveStep == CurveIInv /\ [CurveNext]_curveVars => CurveIInv'
BY RunSetCurveStep, SelectCustomStep, SaveCurveStep, RestoreCurveStep, SeedPayloadStep,
   RefuseTextStep, WritePayloadStep, OtherModeStep DEF CurveNext

-----------------------------------------------------------------------------
(* Every channel always holds points that were shipped or asked for as one,   *)
(* and their slope, whatever writers do between each other's reads and writes *)
(* (fan_curve_store, clevo-cc.c:1443-1567).                                   *)
THEOREM TableStaysWhole == CurveSpec => []TableWhole
<1>1. CurveIInv => TableWhole
  BY DEF CurveIInv, CurveTyped, AllCarried, SlopesFit, TableWhole, Carried, Shown
<1> QED BY <1>1, CurveInitially, CurveStep, PTL DEF CurveSpec

(* A curve that was set, with nobody else writing, reads back as it was given *)
(* and runs; the channels it does not carry are as they were (run_set_curve,  *)
(* commands.rs:263; fan_curve_store, clevo-cc.c:1443).                        *)
THEOREM SetCurveTakesEffect == CurveSpec => []CurveTakesEffect
<1>1. ASSUME CurveIInv, NEW w \in Programs, outcome[w] = "ok", alone[w]
      PROVE  /\ custom /\ SameWritable(goal[w], ReadBack)
             /\ \A c \in Channels : Absent(goal[w][c]) => Shown[c] = before[w][c]
  <2>1. /\ custom /\ TookEffect(w) /\ Encodable(goal[w]) /\ goal[w] \in Curves
    BY <1>1 DEF CurveIInv, CurveTyped, ProgramOnTrack, Writers
  <2>2. ASSUME NEW c \in Channels, ~Absent(goal[w][c]) PROVE goal[w][c] = ReadBack[c]
    <3>1. goal[w][c] \in Points /\ InPercent(goal[w][c]) /\ Shown[c] = Raw(goal[w][c])
      BY <2>1, <2>2 DEF Curves, Encodable, TookEffect
    <3> QED BY <3>1, PointRoundTrip DEF ReadBack
  <2> QED BY <2>1, <2>2 DEF SameWritable, TookEffect
<1>2. CurveIInv => CurveTakesEffect
  BY <1>1 DEF CurveTakesEffect
<1> QED BY <1>2, CurveInitially, CurveStep, PTL DEF CurveSpec

(* What fan_curve shows is accepted when it is written back, and is the table *)
(* again, unless another writer came between (fan_curve_store,                *)
(* clevo-cc.c:1524).                                                          *)
THEOREM RestoreIsAccepted == CurveSpec => []RestoreAccepted
<1>1. CurveIInv => RestoreAccepted
  BY DEF CurveIInv, ScriptOnTrack, RestoreAccepted
<1> QED BY <1>1, CurveInitially, CurveStep, PTL DEF CurveSpec

-----------------------------------------------------------------------------
(* The types: a slope never needs more than 12 of its 16 bits.               *)

\* A slope is sixteen times the rise in duty over at least one degree.
LEMMA SlopeRange ==
  ASSUME NEW point \in Points
  PROVE  Slope(point) \in 0..4080
<1>1. /\ point.t2 \in 0..255 /\ point.t3 \in 0..255
      /\ point.d2 \in 0..255 /\ point.d3 \in 0..255
  BY DEF Points
<1>2. CASE Increasing(point) /\ point.d2 < point.d3
  <2> DEFINE dt   == point.t3 - point.t2
             rise == (point.d3 - point.d2) * 16
  <2>1. dt \in Nat /\ 1 <= dt /\ dt <= 255 /\ rise \in Nat /\ rise <= 4080
    <3>1. point.t2 < point.t3 /\ point.d2 < point.d3
      BY <1>2 DEF Increasing
    <3> DEFINE a == point.t2
               b == point.t3
               c == point.d2
               d == point.d3
    <3>2. a \in 0..255 /\ b \in 0..255 /\ c \in 0..255 /\ d \in 0..255 /\ a < b /\ c < d
      BY <1>1, <3>1
    <3>3. dt = b - a /\ rise = (d - c) * 16
      OBVIOUS
    <3> HIDE DEF a, b, c, d, dt, rise
    <3> QED BY ONLY <3>2, <3>3
  <2>2. Slope(point) = (rise + dt \div 2) \div dt
    BY <1>2 DEF Slope
  <2> HIDE DEF dt, rise
  <2>3. CASE dt = 1
    BY <2>1, <2>2, <2>3
  <2>4. CASE dt # 1
    <3> DEFINE half == dt \div 2
               q    == (rise + half) \div dt
    <3>1. half \in Nat /\ half <= 127
      BY <2>1
    <3> HIDE DEF half
    <3>2. q \in Nat /\ dt * q <= rise + half
      BY <2>1, <3>1
    <3>3. 2 * q <= dt * q
      <4> HIDE DEF q
      <4>1. dt >= 2 /\ dt \in Nat
        BY <2>1, <2>4
      <4> QED BY <3>2, <4>1
    <3>4. q <= 4080
      <4> HIDE DEF q
      <4> DEFINE product == dt * q
      <4>1. product \in Nat
        BY <2>1, <3>2
      <4> HIDE DEF product
      <4>2. 2 * q <= product /\ product <= rise + half
        BY <3>2, <3>3 DEF product
      <4>3. q \in Nat
        BY <3>2
      <4> QED BY ONLY <2>1, <3>1, <4>1, <4>2, <4>3
    <3>5. Slope(point) = q
      BY <2>2 DEF half
    <3> QED BY <3>2, <3>4, <3>5
  <2> QED BY <2>3, <2>4
<1>3. CASE ~(Increasing(point) /\ point.d2 < point.d3)
  <2>1. Slope(point) = 0
    BY <1>3 DEF Slope
  <2> QED BY <2>1
<1> QED BY <1>2, <1>3

SlopesTyped == \A c \in Channels : table[c].slope \in 0..4080

FlagsTyped == custom \in BOOLEAN /\ written \in BOOLEAN

CurveTypeInv == CurveIInv /\ SlopesTyped /\ FlagsTyped

\* Only a merge changes the slopes, and computes all of them.
LEMMA CurveTypesStep == CurveTypeInv /\ [CurveNext]_curveVars => CurveTypeInv'
<1> SUFFICES ASSUME CurveTypeInv, [CurveNext]_curveVars PROVE CurveTypeInv'
  OBVIOUS
<1>1. CurveIInv' /\ CurveIInv
  BY CurveStep DEF CurveTypeInv
<1>2. CASE UNCHANGED <<table, custom, written>>
  BY <1>1, <1>2 DEF CurveTypeInv, SlopesTyped, FlagsTyped
<1>3. ASSUME NEW w \in Writers, WritePayload(w), table' = Merged(text[w], seed[w]), written'
      PROVE  CurveTypeInv'
  <2>1. text[w] \in Curves /\ seed[w] \in Curves
    BY DEF CurveIInv, CurveTyped, CurveTypeInv
  <2>2. Shown' \in Curves /\ \A c \in Channels : table'[c].slope = Slope(Shown'[c])
    BY <1>3, <2>1, MergeWrites
  <2>3. SlopesTyped'
    BY <2>2, SlopeRange DEF SlopesTyped, Curves
  <2>4. FlagsTyped'
    <3>1. custom' = custom /\ written' = TRUE
      BY <1>3 DEF WritePayload
    <3> QED BY <3>1 DEF CurveTypeInv, FlagsTyped
  <2> QED BY <1>1, <2>3, <2>4 DEF CurveTypeInv
<1>4. ASSUME table' = table, written' = written, custom' \in BOOLEAN
      PROVE  CurveTypeInv'
  BY <1>1, <1>4 DEF CurveTypeInv, SlopesTyped, FlagsTyped
<1>5. ASSUME NEW w \in Writers, WritePayload(w) PROVE CurveTypeInv'
  BY <1>2, <1>3, <1>5 DEF WritePayload
<1>6. ASSUME NEW w \in Writers,
             RunSetCurve(w) \/ SaveCurve(w) \/ RestoreCurve(w) \/ SeedPayload(w) \/ RefuseText(w)
      PROVE  CurveTypeInv'
  BY <1>2, <1>6 DEF RunSetCurve, SaveCurve, RestoreCurve, SeedPayload, RefuseText, Given
<1>7. ASSUME NEW w \in Writers, SelectCustom(w) PROVE CurveTypeInv'
  <2>1. custom' = TRUE \/ custom' = custom
    BY <1>7 DEF SelectCustom
  <2> QED BY <1>4, <1>7, <2>1 DEF SelectCustom, CurveTypeInv, FlagsTyped
<1>8. CASE OtherMode
  BY <1>4, <1>8 DEF OtherMode
<1>9. CASE UNCHANGED curveVars
  BY <1>2, <1>9 DEF curveVars
<1> QED BY <1>5, <1>6, <1>7, <1>8, <1>9 DEF CurveNext, Writers

\* No slope has been computed at first.
LEMMA CurveTypesInitially == CurveInit => CurveTypeInv
<1> SUFFICES ASSUME CurveInit PROVE SlopesTyped /\ FlagsTyped
  BY CurveInitially DEF CurveTypeInv
<1>1. \A c \in Channels : table[c].slope = 0
  BY DEF CurveInit
<1>2. custom = FALSE /\ written = FALSE
  BY DEF CurveInit
<1>3. FlagsTyped
  BY <1>2 DEF FlagsTyped
<1> QED BY <1>1, <1>3 DEF SlopesTyped

\* The invariant types every variable.
LEMMA CurveTypesKept == CurveTypeInv => CurveTypeOK
<1> SUFFICES ASSUME CurveTypeInv PROVE CurveTypeOK
  OBVIOUS
<1>1. Shown \in [Channels -> Points] /\ \A c \in Channels : table[c].slope \in 0..4080
  BY DEF CurveTypeInv, CurveIInv, CurveTyped, SlopesTyped, Curves
<1>2. {text, seed, goal, before} \subseteq [Writers -> [Channels -> Points]]
  BY DEF CurveTypeInv, CurveIInv, CurveTyped, Curves
<1>3. /\ step \in [Writers -> {"idle", "saved", "store", "merge", "select"}]
      /\ outcome \in [Writers -> {"none", "dry", "invalid", "refused", "error", "ok"}]
      /\ alone \in [Writers -> BOOLEAN]
  BY DEF CurveTypeInv, CurveIInv, CurveTyped
<1>4. {custom, written} \subseteq BOOLEAN
  BY DEF CurveTypeInv, FlagsTyped
<1> QED BY <1>1, <1>2, <1>3, <1>4 DEF CurveTypeOK

(* Whatever programs and scripts do, the table holds bytes, and slopes that   *)
(* fit the two bytes the payload has for one: the kernel's clamp of a slope   *)
(* to 0xFFFF never bites (clevo_cc_fill_slopes, clevo-cc.c:1381;              *)
(* compute_slope, fan_curve.rs:222).                                          *)
THEOREM CurveTypes == CurveSpec => []CurveTypeOK
<1> QED BY CurveTypesInitially, CurveTypesStep, CurveTypesKept, PTL DEF CurveSpec
=============================================================================
