--------------------------- MODULE MCCredentials ---------------------------
(* A small instance of Credentials for TLC.                                 *)
EXTENDS Credentials, TLC

\* The second request of a minute is one too many.
LimitOne == [c \in Clients |-> 1]

Symmetry == Permutations(Keys) \cup Permutations(Sessions)
=============================================================================
