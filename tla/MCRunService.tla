----------------------------- MODULE MCRunService -----------------------------
(* Instances of RunService for TLC. *)
EXTENDS RunService, TLC

(* Goroutines are interchangeable; no operator chooses among them. *)
WorkerSymmetry == Permutations(Worker)

(* Nor are run identifiers told apart. *)
Symmetry == WorkerSymmetry \cup Permutations(Run)
=============================================================================
