--------------------------- MODULE MCIncomingEvents ---------------------------
(* Model values for IncomingEvents; the fields are told apart by MessageItems, *)
(* so only the message keys are interchangeable.                               *)
EXTENDS IncomingEvents

Symmetry == Permutations(MessageKeys)
=============================================================================
