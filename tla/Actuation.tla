------------------------------ MODULE Actuation ------------------------------
(***************************************************************************)
(* run_action (tools/actuate.py) and the adapters it drives                *)
(* (actuation/*.py), composed with the audited path.  Runner takes the     *)
(* adapter's argv, preconditions and child process as given; here they are *)
(* modelled: the path an order names is resolved three times before run()  *)
(* is entered, the preconditions are the adapter's, and execute() is a     *)
(* child process that exits, hangs, leaves children of its own, or is      *)
(* killed at the timeout.                                                  *)
(*                                                                         *)
(* An Order is what a client asks for: an adapter, a host and a free-form  *)
(* action.  An Action of Policy is what comes out of it, the real-run      *)
(* command that the approval is bound to.                                  *)
(***************************************************************************)
EXTENDS Runner

CONSTANTS
    Order,      \* the orders
    OrderAttr,  \* OrderAttr[o]: what the adapters look at
    NoCommand,  \* the action of a request without a command
    Roots,      \* the adapters that have a root directory configured
    Kin         \* what a child may leave behind: nothing, a process that holds
                \* its pipes, or one that has also left its process group

(* The adapter classes: the host types each supports, and whether it has a *)
(* dry run of its own (ansible --check, tofu plan).  Their base_tier is T2 *)
(* throughout: see the assumption below.                                   *)
Adapters ==
    [ssh      |-> [supported |-> {"ubuntu", "windows"}, native |-> FALSE],
     ansible  |-> [supported |-> {"ubuntu"}, native |-> TRUE],
     opentofu |-> [supported |-> {"ubuntu", "cloud"}, native |-> TRUE],
     talosctl |-> [supported |-> {"talos"}, native |-> FALSE],
     runbook  |-> [supported |-> {"ubuntu", "windows", "cloud"},
                   native |-> FALSE]]

HostType == {"ubuntu", "talos", "windows", "cloud"}

(* What an order's path resolves to now, symbolic links followed. *)
Place == [command : Action, inside : BOOLEAN, exists : BOOLEAN]

OrderAttribute ==
    [adapter : DOMAIN Adapters, host_type : HostType,
     safe : BOOLEAN,        \* its host, nodes and endpoints are well-formed
     verb : STRING,         \* the talosctl verb
     option : BOOLEAN,      \* a token of the action starts with a dash
     chdir : BOOLEAN,       \* it names a tofu workspace
     places : SUBSET Place] \* what its path may come to resolve to

(* The allowlist of talosctl verbs, and those a health check guards. *)
TALOSCTL_VERBS ==
    {"version", "health", "get", "list", "read", "dmesg", "logs", "services",
     "containers", "memory", "processes", "stats", "disks", "mounts", "time",
     "members", "kubeconfig", "apply-config", "patch", "bootstrap", "reset",
     "upgrade", "upgrade-k8s", "reboot", "shutdown", "etcd"}
HEALTH_GATED_VERBS == {"upgrade", "upgrade-k8s"}

ASSUME ActuationAssumption ==
    /\ Order # {}
    /\ \A o \in Order :
          /\ OrderAttr[o].adapter \in DOMAIN Adapters
          /\ OrderAttr[o].host_type \in HostType
          /\ OrderAttr[o].places # {}
          /\ OrderAttr[o].places \subseteq Place
          /\ \A p \in OrderAttr[o].places :
                Attr[p.command].kind = "act" /\ Attr[p.command].base_tier = 2
    /\ NoCommand \in Action /\ Attr[NoCommand].kind = "act"
    /\ Roots \subseteq DOMAIN Adapters
    /\ "none" \in Kin
    /\ Kin \subseteq {"none", "holding", "escaped"}

VARIABLES
    place,      \* place[o]: what the path of order o resolves to
    args,       \* args[c]: the arguments of run_action
    built,      \* built[c]: how far the request of call c is built
    named,      \* named[c]: the command whose action id the approval gets
    argv,       \* argv[c]: the command that execute() will run
    child,      \* child[c]: the child process of call c
    kin,        \* kin[c]: a process the child started and left behind
    announced   \* the calls whose reply says that a token was minted

(* History, read by no action. *)
VARIABLES
    probed,     \* the calls whose health check passed
    raced       \* the calls whose path was re-pointed while they were built

actVars == <<place, args, built, named, argv, child, kin, announced, probed,
             raced>>
buildVars == <<args, built, named, argv>>
procVars == <<child, kin>>

NoOrder == CHOOSE o \in Order : TRUE

ToolArgs == [session : Session, order : Order, dry_run : BOOLEAN,
             token : Token \cup {NoToken}]

Refused == "refused"    \* build_argv raises

AttrOf(c) == OrderAttr[args[c].order]
AdapterOf(c) == Adapters[AttrOf(c).adapter]
DryRun(c) == args[c].dry_run

(* ActuationAdapter.supports *)
SupportsOrder(o) ==
    OrderAttr[o].host_type \in Adapters[OrderAttr[o].adapter].supported
Supports(c) == SupportsOrder(args[c].order)

ActInit ==
    /\ Init
    /\ place \in [Order -> UNION {OrderAttr[o].places : o \in Order}]
    /\ \A o \in Order : place[o] \in OrderAttr[o].places
    /\ args = [c \in Call |-> [session |-> CHOOSE s \in Session : TRUE,
                               order |-> NoOrder, dry_run |-> TRUE,
                               token |-> NoToken]]
    /\ built = [c \in Call |-> "no"]
    /\ named = [c \in Call |-> NoCommand]
    /\ argv = [c \in Call |-> NoCommand]
    /\ child = [c \in Call |-> "none"]
    /\ kin = [c \in Call |-> "none"]
    /\ announced = {} /\ probed = {} /\ raced = {}

-----------------------------------------------------------------------------
(* build_argv, one definition per adapter. *)

(* confine_to_root: no root, an escape or a missing file is refused. *)
ConfineToRoot(adapter, p) ==
    IF adapter \in Roots /\ p.inside /\ p.exists THEN p.command ELSE Refused

SshArgv(o) == IF OrderAttr[o].safe THEN place[o].command ELSE Refused

AnsibleArgv(o) ==
    IF OrderAttr[o].safe THEN ConfineToRoot("ansible", place[o]) ELSE Refused

OpenTofuArgv(o) ==
    IF OrderAttr[o].chdir THEN ConfineToRoot("opentofu", place[o])
                          ELSE place[o].command

RunbookArgv(o) == ConfineToRoot("runbook", place[o])

(* An unknown verb, an option in the action, or a malformed node. *)
TalosctlArgv(o) ==
    IF /\ OrderAttr[o].verb \in TALOSCTL_VERBS
       /\ ~ OrderAttr[o].option
       /\ OrderAttr[o].safe
      THEN place[o].command ELSE Refused

BuildArgv(o) ==
    CASE OrderAttr[o].adapter = "ssh"      -> SshArgv(o)
      [] OrderAttr[o].adapter = "ansible"  -> AnsibleArgv(o)
      [] OrderAttr[o].adapter = "opentofu" -> OpenTofuArgv(o)
      [] OrderAttr[o].adapter = "runbook"  -> RunbookArgv(o)
      [] OrderAttr[o].adapter = "talosctl" -> TalosctlArgv(o)

(* The argv is only built for a host the adapter supports. *)
CommandOf(o) == IF SupportsOrder(o) THEN BuildArgv(o) ELSE NoCommand

-----------------------------------------------------------------------------
(* run_action up to the entry of run(). *)

(* An error out of build_argv leaves the handler before run() is entered. *)
Unbuildable(c) ==
    /\ Goto(c, "refused")
    /\ UNCHANGED <<shared, req, gated, outcome, log, historyVars, built, named,
                   argv>>

(* build_request in _run_action: its action id goes into the Approval. *)
Submit(c, q) ==
    /\ pc[c] = "idle" /\ built[c] = "no"
    /\ args' = [args EXCEPT ![c] = q]
    /\ IF CommandOf(q.order) = Refused
         THEN Unbuildable(c)
         ELSE /\ named' = [named EXCEPT ![c] = CommandOf(q.order)]
              /\ built' = [built EXCEPT ![c] = "named"]
              /\ UNCHANGED <<vars, argv>>
    /\ UNCHANGED <<place, procVars, announced, probed, raced>>

(* actuate: the argv that execute() closes over. *)
Prepare(c) ==
    /\ built[c] = "named" /\ pc[c] = "idle"
    /\ IF CommandOf(args[c].order) = Refused
         THEN Unbuildable(c)
         ELSE /\ argv' = [argv EXCEPT ![c] = CommandOf(args[c].order)]
              /\ built' = [built EXCEPT ![c] = "argv"]
              /\ UNCHANGED <<vars, named>>
    /\ UNCHANGED <<place, args, procVars, announced, probed, raced>>

(* build_request in actuate: the request that run() gates.  A dry run does *)
(* not read its approval.                                                  *)
EnterRun(c) ==
    /\ built[c] = "argv" /\ pc[c] = "idle"
    /\ LET q == args[c]
           command == CommandOf(q.order)
       IN  IF command = Refused
             THEN Unbuildable(c)
             ELSE /\ \E scoped \in BOOLEAN, redacts \in Redacts :
                        Enter(c, [session |-> q.session, action |-> command,
                                  dry_run |-> q.dry_run,
                                  token |-> IF q.dry_run THEN NoToken ELSE q.token,
                                  redacts |-> redacts, scoped |-> scoped,
                                  bound |-> named[c]])
                  /\ built' = [built EXCEPT ![c] = "entered"]
                  /\ UNCHANGED <<named, argv>>
    /\ UNCHANGED <<place, args, procVars, announced, probed, raced>>

(* The other tools enter run() with no adapter. *)
EnterOther(c, r) ==
    /\ built[c] = "no"
    /\ Attr[r.action].kind # "act"
    /\ Enter(c, r)
    /\ UNCHANGED actVars

-----------------------------------------------------------------------------
(* Mutant: the health check guards the dry run, not the real run. *)
HealthGatedWhenDry(c) ==
    /\ AttrOf(c).adapter = "talosctl"
    /\ DryRun(c)
    /\ AttrOf(c).verb \in HEALTH_GATED_VERBS

(* extra_preconditions of talosctl: a real upgrade. *)
HealthGated(c) ==
    /\ AttrOf(c).adapter = "talosctl"
    /\ ~ DryRun(c)
    /\ AttrOf(c).verb \in HEALTH_GATED_VERBS

(* Step 6 of run() with the adapter's preconditions merged in: the host    *)
(* type, and talosctl health, a probe that passes or does not.             *)
CheckAdapterPre(c) ==
    /\ Is(c, "act")
    /\ CheckPre(c)
    /\ \E healthy \in BOOLEAN :
          /\ healthy \/ HealthGated(c)
          /\ (pc'[c] = "charge") <=>
                /\ req[c].scoped => Authorized(Attr[Act(c)].host, TierOf(c))
                /\ Supports(c)
                /\ healthy
          /\ probed' = IF HealthGated(c) /\ healthy THEN probed \cup {c}
                                                    ELSE probed
    /\ UNCHANGED <<place, buildVars, procVars, announced, raced>>

(* A dry run of an adapter that has none of its own only prints. *)
Preview(c) == DryRun(c) /\ ~ AdapterOf(c).native

(* run_subprocess returns or raises, and run() goes on. *)
Executed(c, label) ==
    /\ Is(c, "act")
    /\ Execute(c)
    /\ outcome'[c] = label
    /\ UNCHANGED <<place, buildVars, announced, probed, raced>>

ExecutePreview(c) ==
    /\ child[c] = "none"
    /\ Preview(c)
    /\ Executed(c, "allowed")
    /\ UNCHANGED procVars

(* The tool is not on PATH, or Popen raises. *)
SpawnFails(c) ==
    /\ child[c] = "none"
    /\ ~ Preview(c)
    /\ Executed(c, "error")
    /\ UNCHANGED procVars

(* Popen: the child runs in a session and process group of its own. *)
Spawn(c) ==
    /\ pc[c] = "execute" /\ Is(c, "act")
    /\ child[c] = "none"
    /\ ~ Preview(c)
    /\ child' = [child EXCEPT ![c] = "running"]
    /\ \E k \in Kin : kin' = [kin EXCEPT ![c] = k]
    /\ UNCHANGED <<vars, place, buildVars, announced, probed, raced>>

(* The child, or what it left behind, ends by itself. *)
ProcessEnds(c) ==
    /\ \/ /\ child[c] = "running"
          /\ \E s \in {"exit0", "failed"} : child' = [child EXCEPT ![c] = s]
          /\ UNCHANGED kin
       \/ /\ kin[c] # "none"
          /\ kin' = [kin EXCEPT ![c] = "none"]
          /\ UNCHANGED child
    /\ UNCHANGED <<vars, place, buildVars, announced, probed, raced>>

(* communicate() returns when the child has exited and nobody holds its    *)
(* pipes any more; a non-zero exit status raises, and so does output that  *)
(* is not text (text=True decodes it), whatever the status.                *)
Communicate(c) ==
    /\ child[c] \in {"exit0", "failed"}
    /\ kin[c] \notin {"holding", "escaped"}
    /\ \/ child[c] = "exit0" /\ Executed(c, "allowed")
       \/ Executed(c, "error")
    /\ UNCHANGED procVars

(* Mutant: only the child is killed. *)
KillChildOnly(c) ==
    /\ child' = [child EXCEPT ![c] = IF @ = "running" THEN "killed" ELSE @]
    /\ UNCHANGED kin

(* _kill_process_group: the group dies, a process that left it does not. *)
KillProcessGroup(c) ==
    /\ child' = [child EXCEPT ![c] = IF @ = "running" THEN "killed" ELSE @]
    /\ kin' = [kin EXCEPT ![c] = IF @ = "escaped" THEN @ ELSE "none"]

(* Mutant: the deadline is for the child, not for its pipes. *)
TimeoutOfChild(c) ==
    /\ child[c] = "running"
    /\ Executed(c, "error")
    /\ KillProcessGroup(c)

(* communicate() raises at its deadline, also when the child exits then. *)
Timeout(c) ==
    /\ child[c] # "none"
    /\ Executed(c, "error")
    /\ KillProcessGroup(c)

-----------------------------------------------------------------------------
(* Mutant: an order that failed is announced as well. *)
AnnouncesAlways(c) ==
    /\ DryRun(c)
    /\ RequiresApproval(Act(c)) \/ (Sess(c) \in tainted /\ TierOf(c) >= 1)

(* The reply recomputes whether run() asked for an approval, from the      *)
(* latch as it is now.                                                     *)
Announces(c) ==
    /\ DryRun(c)
    /\ outcome[c] = "allowed"
    /\ RequiresApproval(Act(c)) \/ (Sess(c) \in tainted /\ TierOf(c) >= 1)

ReplyAction(c) ==
    /\ Is(c, "act")
    /\ Reply(c)
    /\ announced' = IF Announces(c) THEN announced \cup {c} ELSE announced
    /\ UNCHANGED <<place, buildVars, procVars, probed, raced>>

(* The steps of run() that an adapter has no part in. *)
PlainStep(c) ==
    /\ \/ CheckKill(c) \/ CheckPolicy(c) \/ Gate(c) \/ Consume(c)
       \/ ChargeBudget(c) \/ Spend(c) \/ MintNonce(c) \/ Audit(c)
       \/ ~ Is(c, "act") /\ (CheckPre(c) \/ Execute(c) \/ Reply(c))
    /\ UNCHANGED actVars

CallStep(c) ==
    \/ Prepare(c) \/ EnterRun(c) \/ PlainStep(c) \/ CheckAdapterPre(c)
    \/ ExecutePreview(c) \/ SpawnFails(c) \/ Spawn(c) \/ Communicate(c)
    \/ Timeout(c) \/ ReplyAction(c)

(* Somebody edits the directory that an order's path leads into. *)
Repoint(o) ==
    /\ \E p \in OrderAttr[o].places \ {place[o]} :
          place' = [place EXCEPT ![o] = p]
    /\ raced' = raced \cup {c \in Call : built[c] \in {"named", "argv"}
                                         /\ args[c].order = o}
    /\ UNCHANGED <<vars, buildVars, procVars, announced, probed>>

IncomingArgs == [session : Session, order : Order, dry_run : BOOLEAN,
                 token : 0 .. minted]

ActNext ==
    \/ \E c \in Call, q \in IncomingArgs : Submit(c, q)
    \/ \E c \in Call, a \in Action : \E r \in Incoming(a) : EnterOther(c, r)
    \/ \E c \in Call : CallStep(c)
    \/ \E c \in Call : ProcessEnds(c)
    \/ \E o \in Order : Repoint(o)

allVars == <<vars, actVars>>

(* The threads run, and communicate() comes to its deadline.  That a child *)
(* exits is not assumed.                                                   *)
ActSpec ==
    /\ ActInit
    /\ [][ActNext]_allVars
    /\ \A c \in Call : WF_allVars(CallStep(c))

-----------------------------------------------------------------------------
(* Type correctness. *)
ActuationTypeOK ==
    /\ TypeOK
    /\ place \in [Order -> Place]
    /\ args \in [Call -> ToolArgs]
    /\ built \in [Call -> {"no", "named", "argv", "entered"}]
    /\ named \in [Call -> Action] /\ argv \in [Call -> Action]
    /\ child \in [Call -> {"none", "running", "exit0", "failed", "killed"}]
    /\ kin \in [Call -> Kin]
    /\ announced \subseteq Call /\ probed \subseteq Call /\ raced \subseteq Call

(* A process of call c was started that may change its host. *)
Changes(c) == child[c] # "none" /\ ~ (DryRun(c) /\ AdapterOf(c).native)

(* Its adapter confines the path of the order to a root directory. *)
Rooted(c) ==
    \/ AttrOf(c).adapter \in {"ansible", "runbook"}
    \/ AttrOf(c).adapter = "opentofu" /\ AttrOf(c).chdir

(* A host is only changed by a real run, of an adapter that may touch such *)
(* a host (SEC-5), that was approved: the process runs the command that    *)
(* the nonce it burned was minted for (BL-072), which lay inside the root  *)
(* (BL-081), unless its path was re-pointed while the call was being       *)
(* built; and an upgrade only after a health check of its own (BL-023).    *)
ChangedAsApproved ==
    \A c \in Call : Changes(c) =>
        /\ ~ DryRun(c)
        /\ Supports(c)
        /\ AttrOf(c).adapter = "talosctl" /\ AttrOf(c).verb \in HEALTH_GATED_VERBS
              => c \in probed
        /\ \E o \in origin : /\ o.token = nonce[c]
                             /\ o.session = args[c].session
                             /\ c \notin raced => o.binding = BindingOf(argv[c])
        /\ Rooted(c) => \E p \in AttrOf(c).places : p.command = argv[c] /\ p.inside

(* When a call has been answered, its child has ended and nothing in the   *)
(* child's process group holds the server's pipes (BL-021), and a record   *)
(* that says "allowed" of a real run means that a child ran and exited     *)
(* with status 0 (BL-112).                                                 *)
AnsweredMeansEnded ==
    \A c \in Call : pc[c] \in {"audit", "reply", "done"} /\ built[c] = "entered" =>
        /\ child[c] # "running" /\ kin[c] # "holding"
        /\ outcome[c] = "allowed" /\ ~ DryRun(c) => child[c] = "exit0"

(* A child that hangs, or leaves its pipes to a process that does, holds   *)
(* up its call only until the timeout: the call is audited and answered    *)
(* (BL-021), although nothing says that the processes ever end.            *)
HungChildEnds ==
    \A c \in Call : child[c] # "none" ~> (pc[c] = "done" /\ log[c] = 1)

(* A reply that says a token was minted is right, although it is worked    *)
(* out after run() returned and from a latch that another thread may have  *)
(* armed since (tools/actuate.py): every adapter floors at T2 (BL-073), so *)
(* the latch never decides.  The exception is a dry run at T3 that names   *)
(* several targets, for which run() mints none.                            *)
AnnouncedWasMinted ==
    \A c \in announced : MultiTargetT3(Act(c)) \/ nonce[c] # NoToken
=============================================================================
