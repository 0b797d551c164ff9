------------------------------ MODULE MCParts ------------------------------
(***************************************************************************)
(* The parts that share no state with one another, checked in one run:      *)
(* `about` says which of them a behaviour is about, and the others stay as  *)
(* they start.                                                              *)
(***************************************************************************)
EXTENDS MCKeyboard, CurvePath, Transports, Clients, DesktopFiles, TLC

VARIABLE about

-----------------------------------------------------------------------------
(* Curves: a rising one, a falling one, a duty out of range, an absent        *)
(* channel; the EC's third channel does not rise.                            *)
Points4(t2, d2, t3, d3) == [t2 |-> t2, d2 |-> d2, t3 |-> t3, d3 |-> d3]
Asked == {Points4(45, 33, 70, 67), Points4(60, 80, 80, 20), Points4(70, 10, 70, 101),
          Points4(0, 10, 0, 0)}
Flat  == [c \in Channels |-> IF c = "gpu2" THEN Points4(50, 99, 50, 170)
                                           ELSE Points4(50, 76, 72, 204)]
Tables == {Flat}

(* Readings: fans at rest and turning, the shortest period whose speed the    *)
(* way back could miss; answers that support the modes, and two that do not.  *)
Moment(cpu, gpu, raw) == [cpu |-> cpu, gpu |-> gpu, raw |-> raw]
Moments == {Moment(0, 0, 37), Moment(1500, 139, 88)}
Answers(a, b, c) == [q \in Range(Queries) |->
    CASE q = "96" -> a [] q = "16" -> b [] q = "82" -> c [] OTHER -> "clear"]
Machines == {Answers("set", "set", "set"), Answers("set", "rejected", "set"),
             Answers("set", "clear", "rejected")}
Tapes == {{"12"}, {"12"} \cup Range(Queries), {"96", "16"}}

JpgThenPng == <<"jpg", "png">>

-----------------------------------------------------------------------------
vars == <<about, kbdVars, curveVars, readVars, clientVars, uiVars>>

\* What a part looks like while a behaviour is about another one.
KeyboardParked == backend = "none" /\ ~overlap /\ ~restore /\ section = NoSection
ReadingParked  == /\ via = "mock" /\ tdp = "raw" /\ page7 = Nothing /\ recorded = {"12"}
                  /\ ec = Moment(0, 0, 37) /\ firmware = Answers("set", "set", "set")
ClientsParked  == who = "cli"

Init ==
    /\ about \in {"keyboard", "curve", "readings", "clients", "desktop"}
    /\ KbdInit /\ CurveInit /\ ReadInit /\ ClientsInit /\ UiInit
    /\ about # "keyboard" => KeyboardParked
    /\ about # "readings" => ReadingParked
    /\ about # "clients"  => ClientsParked

Next ==
    /\ UNCHANGED about
    /\ \/ /\ about = "keyboard" /\ KbdNext
          /\ UNCHANGED <<curveVars, readVars, clientVars, uiVars>>
       \/ /\ about = "curve" /\ CurveNext
          /\ UNCHANGED <<kbdVars, readVars, clientVars, uiVars>>
       \/ /\ about = "readings" /\ ReadNext
          /\ UNCHANGED <<kbdVars, curveVars, clientVars, uiVars>>
       \/ /\ about = "clients" /\ ClientsNext
          /\ UNCHANGED <<kbdVars, curveVars, readVars, uiVars>>
       \/ /\ about = "desktop" /\ UiNext
          /\ UNCHANGED <<kbdVars, curveVars, readVars, clientVars>>

Spec == Init /\ [][Next]_vars

TypeOK == KbdTypeOK /\ CurveTypeOK /\ ReadTypeOK /\ ClientsTypeOK /\ UiTypeOK
=============================================================================
