--------------------------- MODULE MCHttpHandle ---------------------------
(* Model-checking instance of HttpHandle                                 *)
EXTENDS HttpHandle, TLC

\* The calls of a run are interchangeable.
HandleSymmetry == Permutations(Handles)
=============================================================================
