-------------------------- MODULE MCProgressDisplay --------------------------
(* Instances of ProgressDisplay for TLC. *)
EXTENDS ProgressDisplay

\* A ticker for the local source, and one for each audit that finds no row.
TickersOf == 1 + Cardinality(Package)
=============================================================================
