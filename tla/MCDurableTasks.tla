--------------------------- MODULE MCDurableTasks ---------------------------
(* Small instances of DurableTasks for TLC. *)
EXTENDS DurableTasks, TLC

\* Tasks, runs, servers, keys and requests are interchangeable.
Symmetry == Permutations(Task) \cup Permutations(Run) \cup Permutations(Server)
            \cup Permutations(Key) \cup Permutations(Request)
=============================================================================
