--------------------------- MODULE MCFanSettings ---------------------------
(* Small instances of FanSettings: two channels, three values for a         *)
(* channel's writable points, one curve that leaves a channel alone.        *)
EXTENDS FanSettings, TLC

CONSTANT max    \* a normal mode other than auto

MCFactory == [cpu |-> "f", gpu |-> "f"]
Full      == [cpu |-> "p", gpu |-> "p"]   \* writes both channels
Partial   == [cpu |-> "q", gpu |-> "-"]   \* leaves gpu to the EC
Bad       == [cpu |-> "p", gpu |-> "q"]   \* encode_curve rejects it

OneCurve       == {Partial}
TwoCurves      == {Full, Partial}
CurvesWithABad == {Full, Partial, Bad}

File(m, c, f) == [fan_mode |-> m, fan_curve |-> c, factory_curve |-> f,
                  apply_on_start |-> TRUE]
NotApplied(f) == [f EXCEPT !.apply_on_start = FALSE]

\* No file yet.
FreshFiles == {File(NoMode, NoCurve, NoCurve)}

\* Files of this version: the factory curve was captured.
CurrentFiles == FreshFiles \cup
    {File(max, Full, MCFactory), File(Custom, Partial, MCFactory),
     NotApplied(File(Custom, Full, MCFactory))}

\* A file edited by hand: a curve that cannot be encoded, a curve and no mode,
\* no curve and the custom mode.
EditedFiles ==
    {File(Custom, Bad, MCFactory), File(NoMode, Full, MCFactory),
     File(Custom, NoCurve, MCFactory)}

\* Written by a daemon older than the factory snapshot.
MigratedFiles == {File(Custom, Full, NoCurve)}

PartialFiles == {File(Custom, Partial, NoCurve)}

SoundFiles   == CurrentFiles \cup EditedFiles

Symmetry == Permutations(Calls)
=============================================================================
