--------------------------- MODULE MCGroupMessages ---------------------------
(* Model values for GroupMessages.                                         *)
EXTENDS GroupMessages

Symmetry == Permutations(Members) \cup Permutations(Senders) \cup Permutations(Handlers)
=============================================================================
