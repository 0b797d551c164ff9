-------------------------- MODULE MCStandardCharge --------------------------
(* Small instances of StandardCharge: a battery with both attributes and one *)
(* with the end threshold only.                                              *)
EXTENDS StandardCharge

BothAndEnd == {"both", "end"}
OneBattery == {"both"}
MCPowerOn == [b \in Batteries |->
                [start |-> IF b \in StartBatteries THEN 1 ELSE NoValue, end |-> 2]]

\* Nothing, a window of this version, and hand-written ones: without a start,
\* and with a start that is not below the end.
Entries == {NoEntry, [start |-> 0, end |-> 1], [start |-> NoValue, end |-> 1],
            [start |-> 2, end |-> 2]}
MCFiles == [Batteries -> Entries]
=============================================================================
