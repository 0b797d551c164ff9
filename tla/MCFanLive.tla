----------------------------- MODULE MCFanLive -----------------------------
(***************************************************************************)
(* Liveness of the fan settings in one run of two halves: `about` says       *)
(* whether a behaviour is about competing calls, over a transport and a disk *)
(* that work, or about start-up, with any failure and any file and no calls. *)
(***************************************************************************)
EXTENDS MCFanSettings

VARIABLE about

liveVars == <<about, vars>>

\* Partial is encodable, Bad is not.
GoodAndBad == {Partial, Bad}

\* No file; a file of this version; edited by hand; not to be applied; written
\* before the factory snapshot existed.
LiveFiles == FreshFiles \cup
    {File(AutoMode, Partial, MCFactory), File(Custom, Partial, MCFactory),
     File(Custom, Bad, MCFactory), File(AutoMode, Bad, NoCurve),
     File(NoMode, Partial, MCFactory), File(Custom, NoCurve, MCFactory),
     NotApplied(File(Custom, Partial, MCFactory)), File(Custom, Partial, NoCurve)}

LiveInit == /\ Init
            /\ about \in {"calls", "startup"}
            /\ about = "calls" => file \in FreshFiles

\* Competing callers: their curve can be written, and writes and saves succeed.
Working == /\ \A t \in Calls : arg'[t] # Bad
           /\ \A t \in Threads : ~WriteFails(t)
           /\ ~unsaved'

NoCalls == \A t \in Calls : pc'[t] = "idle"

LiveNext == /\ UNCHANGED about
            /\ \/ about = "calls" /\ Next /\ Working
               \/ about = "startup" /\ Next /\ NoCalls

LiveSpec == LiveInit /\ [][LiveNext]_liveVars /\ Fairness
=============================================================================
