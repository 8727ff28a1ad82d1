--------------------------- MODULE ReplicaContract --------------------------
(***************************************************************************)
(* What synchronization promises a receiver: its copy of an entity only    *)
(* ever moves forward, and only to a version the entity's owner published. *)
(* Versions may be skipped; they are never invented and never undone,      *)
(* unless an update of the copy was lost to another (Lose): from then on   *)
(* the entity is known to be one that may fall behind.                     *)
(***************************************************************************)
EXTENDS Naturals

CONSTANTS Entities, Receivers

VARIABLES
    latest,   \* version of each entity at its owner
    copy,     \* version of each entity at each receiver, 0 before the first
    lost      \* entities of which an update was lost

rvars == <<latest, copy, lost>>

Init ==
    /\ latest = [k \in Entities |-> 0]
    /\ copy = [k \in Entities |-> [t \in Receivers |-> 0]]
    /\ lost = {}

Publish(k) ==
    /\ latest' = [latest EXCEPT ![k] = @ + 1]
    /\ UNCHANGED <<copy, lost>>

Advance(k, t) ==
    /\ \E v \in (copy[k][t] + 1) .. latest[k] : copy' = [copy EXCEPT ![k][t] = v]
    /\ UNCHANGED <<latest, lost>>

\* A version is saved over one that its writer had not seen.
Lose(k, t) ==
    /\ \E v \in 1 .. latest[k] : copy' = [copy EXCEPT ![k][t] = v]
    /\ lost' = lost \cup {k}
    /\ UNCHANGED latest

Next == \E k \in Entities : Publish(k) \/ \E t \in Receivers : Advance(k, t) \/ Lose(k, t)

Spec == Init /\ [][Next]_rvars

=============================================================================
