-------------------------- MODULE MCSessionRecords --------------------------
(* Model values for SessionRecords: the phone-number address of the peer   *)
(* and its LID, the address bundles are asked for.                         *)
EXTENDS SessionRecords, TLC

PhoneNumber == 1
Lid == 2
LidOf == [a \in {PhoneNumber, Lid} |-> Lid]

Symmetry == Permutations(Tasks)
=============================================================================
