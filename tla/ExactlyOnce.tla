---------------------------- MODULE ExactlyOnce ----------------------------
(***************************************************************************)
(* What a request that moves coins may expect: it takes effect at most     *)
(* once, every answer says whether it did, and a refusal that its caller   *)
(* has heard is final.  Answers may be lost, and requests be repeated.     *)
(***************************************************************************)
CONSTANT Request

VARIABLES
    applied,   \* requests that took effect
    told       \* pairs of a request and what an answer said of it

vars == <<applied, told>>

Init == applied = {} /\ told = {}

\* The request takes effect; its answer may be lost.
Apply(r) ==
    /\ r \notin applied /\ <<r, FALSE>> \notin told
    /\ applied' = applied \cup {r}
    /\ told' \in {told, told \cup {<<r, TRUE>>}}

\* An answer to the request, the first one or a repetition.
Answer(r) ==
    /\ told' = told \cup {<<r, r \in applied>>}
    /\ UNCHANGED applied

Next == \E r \in Request : Apply(r) \/ Answer(r)

Spec == Init /\ [][Next]_vars
=============================================================================
