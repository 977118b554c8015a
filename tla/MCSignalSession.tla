-------------------------- MODULE MCSignalSession --------------------------
(* Model values for SignalSession.                                         *)
EXTENDS SignalSession

CONSTANTS alice, bob,
          s1, s2, s3, r1, r2, r3  \* ids of sending tasks and of processors

\* One task of each kind on each side.
OneSender == Parties \X {s1}
OneReceiver == Parties \X {r1}

\* Two sending tasks on the one side, two incoming processors on the other.
MoreSenders == {<<alice, s1>>, <<alice, s2>>, <<bob, s3>>}
MoreReceivers == {<<bob, r1>>, <<bob, r2>>, <<alice, r3>>}

Symmetry == Permutations(Parties) \cup Permutations(OneTimeKeys)
TaskSymmetry == Permutations({s1, s2}) \cup Permutations({r1, r2})
                \cup Permutations(OneTimeKeys)
=============================================================================
