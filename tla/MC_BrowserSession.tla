--------------------------- MODULE MC_BrowserSession ---------------------------
(* Instances of the web session for TLC.                                      *)
EXTENDS BrowserSession
=============================================================================
