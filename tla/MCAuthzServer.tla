------------------------------ MODULE MCAuthzServer ------------------------------
(* The model-checking instance of AuthzServer; Server.cfg gives its constants.    *)
(* Liveness is checked, so handlers and workers are not declared symmetric.       *)
EXTENDS AuthzServer
================================================================================
