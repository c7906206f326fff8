--------------------------- MODULE MCServeLifecycle ---------------------------
(* The instance for TLC: the commands with every setting of their flags.   *)
EXTENDS ServeLifecycle
==============================================================================
