---------------------------- MODULE MCP3Session ----------------------------
(* Model-checking instance of P3Session                                  *)
EXTENDS P3Session
=============================================================================
