--------------------------- MODULE MCObservations ---------------------------
(* A small instance of Observations for TLC.                                *)
EXTENDS Observations, TLC

Symmetry == Permutations(Clients) \cup Permutations(Payloads) \cup Permutations(Sessions)
=============================================================================
