------------------------ MODULE MCWorkerEnrollment -------------------------
(***************************************************************************)
(* Small instances of WorkerEnrollment for TLC.                            *)
(***************************************************************************)
EXTENDS WorkerEnrollment, TLC

\* Tokens, attempts and rotations are interchangeable; sound for the invariants and the
\* action property.
Symmetry == Permutations(Token) \union Permutations(Attempt)
              \union Permutations(Rotation)
=============================================================================
