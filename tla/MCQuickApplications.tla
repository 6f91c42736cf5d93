------------------------- MODULE MCQuickApplications -------------------------
(***************************************************************************)
(* Instances of QuickApplications for TLC.                                 *)
(***************************************************************************)
EXTENDS QuickApplicationsSafety

CONSTANTS first, second, none, alice, bob
=============================================================================
