---------------------------- MODULE MCConnection ----------------------------
(* Model values for Connection; callers, closers and tags are symmetric.   *)
EXTENDS Connection, TLC

Symmetry == Permutations(Callers) \cup Permutations(Closers)
            \cup Permutations(GeneratedTags)
=============================================================================
