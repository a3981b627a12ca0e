---------------------------- MODULE MCInference ----------------------------
(* Model-checking instance of Inference                                  *)
EXTENDS Inference
=============================================================================
