----------------------------- MODULE MCKeyboard -----------------------------
EXTENDS Keyboard, TLC

CONSTANTS k1, k2, red

(* Keyboard: two keys, one zone of both; nothing saved, a keyboard that was   *)
(* dark with one key coloured, and a dim one.                                *)
TwoKeys  == <<k1, k2>>
BothKeys == {{k1, k2}}
Dark == [mode |-> "off", brightness |-> 100, keys |-> (k2 :> red)]
Dim  == [mode |-> "static", brightness |-> 10, keys |-> (k1 :> red) @@ (k2 :> red)]
SomeSections == {NoSection, Dark, Dim}
=============================================================================
