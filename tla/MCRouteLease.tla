---------------------------- MODULE MCRouteLease ----------------------------
(* RouteLease with the process that loses a partition and the one that     *)
(* gets it for good.                                                       *)
EXTENDS RouteLease, TLC

CONSTANTS old, new, p1

OwnershipChanges == old :> 2 @@ new :> 1
=============================================================================
