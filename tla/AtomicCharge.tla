---------------------------- MODULE AtomicCharge ----------------------------
(***************************************************************************)
(* What whoever sets a charge window is promised: it changes in one step to  *)
(* the window asked for, or not at all, and the answer says which; or the    *)
(* answer says that nobody knows.                                            *)
(***************************************************************************)
CONSTANTS Clients,
          Windows,
          NoRequest     \* not in Windows

VARIABLES
    window,         \* the charge window in force
    asked,          \* per client: the window it has asked for
    reply           \* per client: the answer to its last request

vars == <<window, asked, reply>>

Init ==
    /\ window \in Windows
    /\ asked = [c \in Clients |-> NoRequest]
    /\ reply = [c \in Clients |-> "none"]

Ask(c, w) ==
    /\ asked[c] = NoRequest
    /\ asked' = [asked EXCEPT ![c] = w]
    /\ reply' = [reply EXCEPT ![c] = "none"]
    /\ UNCHANGED window

Answer(c, result) ==
    /\ asked[c] # NoRequest
    /\ asked' = [asked EXCEPT ![c] = NoRequest]
    /\ reply' = [reply EXCEPT ![c] = result]

Change(c) == Answer(c, "ok") /\ window' = asked[c]

Refuse(c) == Answer(c, "error") /\ UNCHANGED window

Break(c) == Answer(c, "broken") /\ window' \in Windows

Next ==
    \E c \in Clients :
        \/ \E w \in Windows : Ask(c, w)
        \/ Change(c) \/ Refuse(c) \/ Break(c)

Spec == Init /\ [][Next]_vars
=============================================================================
