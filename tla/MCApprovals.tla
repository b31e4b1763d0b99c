---------------------------- MODULE MCApprovals ----------------------------
(***************************************************************************)
(* The approval registry alone: two sessions, two actions, every order of  *)
(* mint, validate, consume, restart and clock tick.                        *)
(***************************************************************************)
EXTENDS Approvals

CONSTANTS a1, a2

MCAct(h) ==
    [kind |-> "act", base_tier |-> 2, command_tier |-> 0, deny |-> FALSE,
     target |-> h, host |-> h]

MCAttr == [a \in Action |-> MCAct(IF a = a1 THEN "axiom" ELSE "atlas")]

MCCeiling == [s \in Session |-> NoCeiling]
=============================================================================
