----------------------------- MODULE Lifecycle -----------------------------
(***************************************************************************)
(* What the owner of a transaction lifecycle may rely on: once the door is *)
(* closed no unit starts, and once a drain has reported success nothing is *)
(* open, for good.                                                         *)
(***************************************************************************)
CONSTANT Unit

VARIABLES
    open,   \* units that may touch the database
    stage   \* serving, closing, drained

vars == <<open, stage>>

Init == open = {} /\ stage = "serving"

\* Units start only while the door is open; they end at any time.
Start == stage = "serving" /\ open' \in SUBSET Unit /\ UNCHANGED stage
End == open' \in SUBSET open /\ UNCHANGED stage
CloseDoor == stage = "serving" /\ stage' = "closing" /\ UNCHANGED open
Quiesce == stage = "closing" /\ open = {} /\ stage' = "drained" /\ UNCHANGED open

Next == Start \/ End \/ CloseDoor \/ Quiesce

Spec == Init /\ [][Next]_vars
=============================================================================
