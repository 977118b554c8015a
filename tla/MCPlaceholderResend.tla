------------------------ MODULE MCPlaceholderResend ------------------------
(* Model values for PlaceholderResend; ids and requesters are symmetric.   *)
EXTENDS PlaceholderResend, TLC

Symmetry == Permutations(Ids) \cup Permutations(Requesters)
=============================================================================
