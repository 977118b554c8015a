------------------------------ MODULE MCAppState ------------------------------
(* TLC's instances of app-state sync. *)
EXTENDS AppState

SetOrRemove == {[index |-> "i", set |-> TRUE], [index |-> "i", set |-> FALSE]}
SetOnly == {[index |-> "i", set |-> TRUE]}
=============================================================================
