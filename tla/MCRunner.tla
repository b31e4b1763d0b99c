------------------------------ MODULE MCRunner ------------------------------
(***************************************************************************)
(* The audited path on small instances.  Each configuration picks the      *)
(* actions, ceilings and faults that its question needs.                   *)
(***************************************************************************)
EXTENDS Runner, TLC

MCAttribute(kind, base, command, deny, host) ==
    [kind |-> kind, base_tier |-> base, command_tier |-> command,
     deny |-> deny, target |-> host, host |-> host]

MCAttr ==
    [a \in Action |->
       CASE a = "restart"  -> MCAttribute("act", 2, 2, FALSE, "axiom")
         [] a = "restart2" -> MCAttribute("act", 2, 2, FALSE, "atlas")
         [] a = "wipe"     -> MCAttribute("act", 2, 3, FALSE, "axiom")
         [] a = "wipeAll"  -> MCAttribute("act", 2, 3, FALSE, "axiom,atlas")
         [] a = "touch"    -> MCAttribute("act", 1, 1, FALSE, "axiom")
         [] a = "rmroot"   -> MCAttribute("act", 2, 3, TRUE, "axiom")
         [] a = "ingest"   -> MCAttribute("ingest", 0, 0, FALSE, "axiom")
         [] a = "query"    -> MCAttribute("read", 0, 0, FALSE, "axiom")
         [] a = "stop"     -> MCAttribute("estop", 0, 0, FALSE, "axiom")]

MCHost == {"axiom", "atlas", "axiom,atlas"}

MCNoCeiling == [s \in Session |-> NoCeiling]

(* One session consented to reversible actions only. *)
MCCeiling1 == [s \in Session |-> 1]

MCScope == {[hosts |-> {"axiom"}, max_tier |-> 2]}

MCNoLimit == NoLimit

MCSymmetry == Permutations(Call) \cup Permutations(Session)
=============================================================================
