---------------------------- MODULE MC_Recovery ----------------------------
(* Values of the constants that a .cfg cannot write.                        *)
EXTENDS Recovery

SmallPnLs == {-1, 1}
MixedPnLs == {-2, -1, 0, 1}
=============================================================================
