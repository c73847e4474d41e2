--------------------------- MODULE MemberSetupMC ---------------------------
(* MemberSetup on a small instance. *)
EXTENDS MemberSetup

ThreeLevels == <<"Privileged", "Standard", "Low">>
=============================================================================
