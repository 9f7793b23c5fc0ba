----------------------------- MODULE MCOrders -----------------------------
(* Instances of Orders for TLC. *)
EXTENDS Orders, TLC
OrderSymmetry == Permutations(Orders) \cup Permutations(Procs)
\* After two processes overlapped on a user's rows nothing is claimed any more.
UntilARace == ~raced
=============================================================================
