--------------------------- MODULE MCStartupIngestion ---------------------------
(* Instance of StartupIngestion for TLC.                                        *)
EXTENDS StartupIngestion
=============================================================================
