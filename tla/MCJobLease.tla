----------------------------- MODULE MCJobLease -----------------------------
(***************************************************************************)
(* Small instances of JobLease for TLC.                                    *)
(***************************************************************************)
EXTENDS JobLease, TLC

\* Jobs, workers and threads are interchangeable; sound for the
\* invariants and for a property of single steps.
Symmetry ==
  Permutations(Job) \union Permutations(Worker) \union Permutations(Request)
=============================================================================
