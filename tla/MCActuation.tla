---------------------------- MODULE MCActuation ----------------------------
(***************************************************************************)
(* The adapters on a playbook whose file can be swapped, a tofu workspace, *)
(* an upgrade of a Talos node, a reset of two of them, ssh to one, and a   *)
(* runbook without a root, beside an ingest and the emergency stop.        *)
(***************************************************************************)
EXTENDS Actuation

MCAttribute(kind, base, command, host) ==
    [kind |-> kind, base_tier |-> base, command_tier |-> command,
     deny |-> FALSE, target |-> host, host |-> host]

MCAttr ==
    [a \in Action |->
       CASE a = "site.yml"  -> MCAttribute("act", 2, 2, "axiom")
         [] a = "other.yml" -> MCAttribute("act", 2, 2, "axiom")
         [] a = "upgrade"   -> MCAttribute("act", 2, 3, "talos1")
         [] a = "reset"     -> MCAttribute("act", 2, 3, "talos1,talos2")
         [] a = "apply"     -> MCAttribute("act", 2, 2, "axiom")
         [] a = "nothing"   -> MCAttribute("act", 2, 2, "talos1")
         [] a = "ingest"    -> MCAttribute("ingest", 0, 0, "axiom")
         [] a = "stop"      -> MCAttribute("estop", 0, 0, "axiom")]

MCHost == {"axiom", "talos1", "talos1,talos2"}

MCPlace(command, inside) ==
    [command |-> command, inside |-> inside, exists |-> TRUE]

MCOrder(adapter, host_type, verb, places) ==
    [adapter |-> adapter, host_type |-> host_type, safe |-> TRUE, verb |-> verb,
     option |-> FALSE, chdir |-> adapter = "opentofu", places |-> places]

MCOrderAttr ==
    [o \in Order |->
       CASE o = "play"    -> MCOrder("ansible", "ubuntu", "",
                                {MCPlace("site.yml", TRUE),
                                 MCPlace("other.yml", FALSE)})
         [] o = "upgrade" -> MCOrder("talosctl", "talos", "upgrade",
                                {MCPlace("upgrade", TRUE)})
         [] o = "reset"   -> MCOrder("talosctl", "talos", "reset",
                                {MCPlace("reset", TRUE)})
         [] o = "ssh"     -> MCOrder("ssh", "talos", "",
                                {MCPlace("nothing", TRUE)})
         [] o = "tofu"    -> MCOrder("opentofu", "cloud", "",
                                {MCPlace("apply", TRUE)})
         [] o = "runbook" -> MCOrder("runbook", "ubuntu", "",
                                {MCPlace("site.yml", TRUE)})]

MCNoCeiling == [s \in Session |-> NoCeiling]
MCNoLimit == NoLimit
=============================================================================
