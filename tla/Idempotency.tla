---------------------------- MODULE Idempotency ----------------------------
(***************************************************************************)
(* The shared transport-idempotency facility: the coordinator's execute on *)
(* a key, the rows of operations_transport_requests and their retention.   *)
(* A claim and its completion commit in one transaction, so that a row     *)
(* exists only with its outcome.                                           *)
(***************************************************************************)
EXTENDS Integers, FiniteSets, FiniteSetsExt

CONSTANTS
    Interaction,  \* transport keys: one interaction, one command, one actor
    Retention,    \* how long a completed outcome is kept
    NoRow

ASSUME RetentionAssumption == Retention \in Nat \ {0}

VARIABLE rows

Stored(i) == rows[i] # NoRow

\* Mutant: the outcome of a refused request is not kept.
StoreSuccesses(i, outcome, completed) ==
    rows' = IF outcome.status \in {"claimed", "created", "already_joined"}
            THEN [rows EXCEPT ![i] = [outcome |-> outcome, retain |-> completed + Retention]]
            ELSE rows
\* complete: the stable outcome, successes and typed rejections alike.
Store(i, outcome, completed) ==
    rows' = [rows EXCEPT ![i] = [outcome |-> outcome, retain |-> completed + Retention]]

Expired(now) == {i \in Interaction : Stored(i) /\ rows[i].retain <= now}

\* delete_expired: the oldest rows first, at most limit of them.
DeleteExpired(now, limit) ==
    \E gone \in kSubset(Min({limit, Cardinality(Expired(now))}), Expired(now)) :
        /\ gone # {}
        /\ \A i \in gone, j \in Expired(now) \ gone : rows[i].retain <= rows[j].retain
        /\ rows' = [i \in Interaction |-> IF i \in gone THEN NoRow ELSE rows[i]]
=============================================================================
