----------------------------- MODULE MCJsonCache -----------------------------
(* JsonCache with a few processes.                                         *)
EXTENDS JsonCache
=============================================================================
