--------------------------- MODULE MCEnforcementCall ---------------------------
(* The model-checking instance of EnforcementCall; Enforcement.cfg gives its    *)
(* constants.                                                                   *)
EXTENDS EnforcementCall
================================================================================
