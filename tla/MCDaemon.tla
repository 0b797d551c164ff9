----------------------------- MODULE MCDaemon -----------------------------
(***************************************************************************)
(* Two parts of the daemon that share no state, checked in one run: `part`  *)
(* says which of them a behaviour is about, and the other stays as it       *)
(* starts.                                                                  *)
(***************************************************************************)
EXTENDS Authorization, PerfStatus, TLC

CONSTANTS app, later, tool, gui, heir, admin

VARIABLE part

vars == <<part, authVars, perfVars>>

\* Two programs of a user's, of which the later one is given the pid of the one that
\* has exited, and one of root's; one bus name each.
Owner == (app :> gui) @@ (later :> heir) @@ (tool :> admin)

Identity == (gui :> [pid |-> 7, start |-> 1, uid |-> 1000])
         @@ (heir :> [pid |-> 7, start |-> 2, uid |-> 1000])
         @@ (admin :> [pid |-> 8, start |-> 1, uid |-> 0])

\* The processes of a behaviour: two at a time, of which one is left to make the next
\* call.
Cast == IF part = "reuse" THEN {gui, heir} ELSE {gui, admin}

\* What a part looks like while a behaviour is about the other one.
Parked == IF part # "status" THEN perfFile = Nil /\ reading = CHOOSE r \in Readings : TRUE
          ELSE sender = [c \in Calls |-> app]

Init == part \in {"reuse", "root", "status"} /\ AuthInit /\ PerfInit /\ Parked

Next == /\ UNCHANGED part
        /\ \/ /\ part # "status" /\ AuthNext /\ UNCHANGED perfVars
              /\ alive' \subseteq Cast /\ gone' # Cast
           \/ part = "status" /\ PerfNext /\ UNCHANGED authVars

Spec == /\ Init /\ [][Next]_vars
        /\ AuthFairness
        /\ WF_perfVars(part = "status" /\ PerfStart)
        /\ WF_perfVars(part = "status" /\ PerfServe)
        /\ WF_perfVars(part = "status" /\ BeginPoll(Timer))
        /\ \A t \in Tasks : WF_perfVars(part = "status" /\ TaskStep(t))

TypeOK == AuthTypeOK /\ PerfTypeOK

(* ViewSettles, of the behaviours that are about the daemon's status.         *)
StatusSettles == <>[](part = "status" => Settled)
=============================================================================
