------------------------------- MODULE MCTracker -------------------------------
(* The instance for TLC: its constants are model values and small sets that *)
(* the configuration gives directly.                                        *)
EXTENDS Tracker
==============================================================================
