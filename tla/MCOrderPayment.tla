--------------------------- MODULE MCOrderPayment ---------------------------
(* Values of OrderPayment's constants for TLC. *)
EXTENDS OrderPayment, TLC

\* Every order is for one drink that takes one unit.
OneEach == [o \in Orders |-> 1]

\* The workers are interchangeable.
Symmetry == Permutations(Requests)

=============================================================================
