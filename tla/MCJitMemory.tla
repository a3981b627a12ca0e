---------------------------- MODULE MCJitMemory ----------------------------
(* Model-checking instance of JitMemory.                                   *)
EXTENDS JitMemory, TLC

\* Threads, engines and components are interchangeable.
JitSymmetry == Permutations(Threads) \cup Permutations(Engines) \cup Permutations(Codes)
=============================================================================
