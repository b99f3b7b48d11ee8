--------------------------- MODULE MCModelSession ---------------------------
(* ModelSession on a small instance. *)
EXTENDS ModelSession

\* Requests of one size, which the row count cannot tell apart.
SameRows == [q \in Requests |-> 1]
=============================================================================
