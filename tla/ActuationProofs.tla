-------------------------- MODULE ActuationProofs --------------------------
(***************************************************************************)
(* Proofs about run_action and its adapters on the audited path, for every *)
(* set of calls, sessions and orders, every policy and every directory     *)
(* that an order's path may come to lead into.                             *)
(*                                                                         *)
(* What the adapters do are steps of the path, so the invariant of         *)
(* RunnerProofs holds here as well; the invariant below adds what a call   *)
(* carries from the adapter to execute() and on to the reply.              *)
(***************************************************************************)
EXTENDS Actuation, RunnerProofs

(* Paths lead where they may, and a token that is presented was drawn. *)
OrderInv ==
    /\ \A o \in Order : place[o] \in OrderAttr[o].places
    /\ \A c \in Call : args[c].token <= minted

(* What the process may run lies inside the root of its adapter. *)
Confined(c) ==
    Supports(c) /\ Rooted(c) =>
        \E p \in AttrOf(c).places : p.command = argv[c] /\ p.inside

(* The request that run() gates is the one that was built: for the session *)
(* and the mode that were asked for, with a command of an adapter, and the *)
(* very command that was prepared unless its path was re-pointed.          *)
BuiltAsAsked(c) ==
    /\ built[c] = "no" /\ pc[c] \notin {"idle", "refused"} => ~ Is(c, "act")
    /\ built[c] \in {"named", "argv"} => pc[c] \in {"idle", "refused"}
    /\ built[c] \in {"argv", "entered"} => Confined(c)
    /\ built[c] = "argv" /\ c \notin raced => argv[c] = CommandOf(args[c].order)
    /\ built[c] = "entered" =>
          /\ pc[c] \notin {"idle", "refused"}
          /\ Is(c, "act")
          /\ Sess(c) = args[c].session
          /\ req[c].dry_run = DryRun(c)
          /\ Supports(c) => TierOf(c) >= 2
          /\ c \notin raced => Act(c) = argv[c]

BuildInv == \A c \in Call : BuiltAsAsked(c)

(* Past the preconditions, the host is one for the adapter and an upgrade  *)
(* has seen a healthy cluster.                                             *)
PrePassed(c) ==
    built[c] = "entered" /\ (pc[c] \in {"charge", "execute"} \/ c \in executed) =>
        Supports(c) /\ (HealthGated(c) => c \in probed)

PreInv == \A c \in Call : PrePassed(c)

(* A process belongs to a call at or after execute(), and has ended, or    *)
(* left the group, when execute() has returned.                            *)
ProcessKept(c) ==
    /\ child[c] # "none" =>
          /\ built[c] = "entered" /\ ~ Preview(c)
          /\ pc[c] = "execute" \/ c \in executed
    /\ kin[c] # "none" => child[c] # "none"
    /\ built[c] = "entered" /\ c \in executed =>
          /\ child[c] # "running" /\ kin[c] # "holding"
          /\ outcome[c] = "allowed" /\ ~ DryRun(c) => child[c] = "exit0"

ProcInv == \A c \in Call : ProcessKept(c)

(* A dry run that was allowed has minted by the time it is audited. *)
MintShown(c) ==
    /\ outcome[c] \in {"allowed", "error"} => c \in executed
    /\ /\ built[c] = "entered" /\ DryRun(c) /\ outcome[c] = "allowed"
       /\ pc[c] \in {"audit", "reply", "done"}
       => MultiTargetT3(Act(c)) \/ nonce[c] # NoToken
    /\ c \in announced =>
          /\ built[c] = "entered" /\ DryRun(c) /\ outcome[c] = "allowed"
          /\ pc[c] = "done"

MintedInv == \A c \in Call : MintShown(c)

ActInv ==
    /\ ActuationTypeOK
    /\ RunnerInv
    /\ TokenDrawn
    /\ OrderInv
    /\ BuildInv
    /\ PreInv
    /\ ProcInv
    /\ MintedInv

-----------------------------------------------------------------------------
(* What build_argv makes of an order: nothing, or a command of kind "act", *)
(* and on a supported host one at T2 or above that lies inside the root.   *)
LEMMA CommandType ==
    ASSUME NEW o \in Order, place[o] \in OrderAttr[o].places, CommandOf(o) # Refused
    PROVE  /\ CommandOf(o) \in Action
           /\ Attr[CommandOf(o)].kind = "act"
           /\ SupportsOrder(o) =>
                 /\ CommandOf(o) = place[o].command
                 /\ DecisionTier(CommandOf(o)) >= 2
                 /\ \/ OrderAttr[o].adapter \in {"ansible", "runbook"}
                    \/ OrderAttr[o].adapter = "opentofu" /\ OrderAttr[o].chdir
                    => place[o].inside
<1>1. /\ place[o].command \in Action /\ Attr[place[o].command].kind = "act"
      /\ Attr[place[o].command].base_tier = 2
  BY ActuationAssumption DEF Place
<1>2. DecisionTier(place[o].command) >= 2
  <2>1. Attr[place[o].command] \in Attribute
    BY <1>1, PolicyAssumption
  <2> QED
    BY <1>1, <2>1 DEF DecisionTier, Classify, Attribute, Tier
<1>3. CASE ~ SupportsOrder(o)
  BY <1>3, ActuationAssumption DEF CommandOf
<1>4. CASE SupportsOrder(o)
  <2>1. CommandOf(o) = BuildArgv(o)
    BY <1>4 DEF CommandOf
  <2>2. OrderAttr[o].adapter \in {"ssh", "ansible", "opentofu", "talosctl", "runbook"}
    BY ActuationAssumption DEF Adapters
  <2>3. /\ BuildArgv(o) = place[o].command
        /\ \/ OrderAttr[o].adapter \in {"ansible", "runbook"}
           \/ OrderAttr[o].adapter = "opentofu" /\ OrderAttr[o].chdir
           => place[o].inside
    <3>1. CASE OrderAttr[o].adapter = "ssh"
      BY <2>1, <3>1 DEF BuildArgv, SshArgv
    <3>2. CASE OrderAttr[o].adapter = "ansible"
      BY <2>1, <3>2 DEF BuildArgv, AnsibleArgv, ConfineToRoot
    <3>3. CASE OrderAttr[o].adapter = "opentofu"
      BY <2>1, <3>3 DEF BuildArgv, OpenTofuArgv, ConfineToRoot
    <3>4. CASE OrderAttr[o].adapter = "talosctl"
      BY <2>1, <3>4 DEF BuildArgv, TalosctlArgv
    <3>5. CASE OrderAttr[o].adapter = "runbook"
      BY <2>1, <3>5 DEF BuildArgv, RunbookArgv, ConfineToRoot
    <3> QED
      BY <2>2, <3>1, <3>2, <3>3, <3>4, <3>5
  <2> QED
    BY <1>1, <1>2, <2>1, <2>3
<1> QED
  BY <1>3, <1>4

(* What a step of run() leaves alone: the request, and the other calls. *)
LEMMA RunFrame ==
    ASSUME TypeOK, NEW c \in Call, RunStep(c)
    PROVE  /\ req' = req
           /\ pc[c] \notin {"idle", "refused", "done", "lost"}
           /\ pc'[c] \notin {"idle", "refused"}
           /\ c \in executed => c \in executed'
           /\ outcome'[c] \in {"allowed", "error"} =>
                 outcome'[c] = outcome[c] \/ c \in executed'
           /\ \A d \in Call : d # c =>
                 /\ pc'[d] = pc[d] /\ outcome'[d] = outcome[d] /\ nonce'[d] = nonce[d]
                 /\ d \in executed' <=> d \in executed
<1> USE DEF TypeOK, Goto, Deny, historyVars
<1>1. CASE CheckKill(c) \/ CheckPolicy(c) \/ Gate(c)
  BY <1>1 DEF CheckKill, CheckPolicy, Gate
<1>2. CASE Consume(c)
  BY <1>2 DEF Consume
<1>3. CASE CheckPre(c) \/ ChargeBudget(c)
  BY <1>3 DEF CheckPre, ChargeBudget
<1>4. CASE Execute(c)
  BY <1>4 DEF Execute
<1>5. CASE Spend(c) \/ MintNonce(c) \/ Audit(c) \/ Reply(c)
  BY <1>5 DEF Spend, MintNonce, Audit, Reply
<1> QED
  BY <1>1, <1>2, <1>3, <1>4, <1>5 DEF RunStep

(* Tokens are drawn and never undrawn. *)
LEMMA MintedGrows ==
    ASSUME TypeOK, PathNext \/ UNCHANGED vars
    PROVE  minted \in Nat /\ minted' \in Nat /\ minted <= minted'
<1>1. minted \in Nat
  BY ApprovalsAssumption DEF TypeOK, ApprovalsTypeOK
<1>2. ASSUME NEW c \in Call, RunStep(c) PROVE minted' = minted \/ minted' = minted + 1
  BY <1>2 DEF RunStep, CheckKill, CheckPolicy, Gate, Consume, ConsumeOK, ConsumeRefused,
              CheckPre, ChargeBudget, Execute, Spend, MintNonce, Mint, Audit, Reply,
              shared, approvalVars
<1>3. ASSUME \/ \E c \in Call, r \in Request : Enter(c, r)
             \/ \E c \in Call : RefuseToBuild(c)
             \/ OperateSwitch \/ OperateBroker \/ Restart \/ PassTime \/ UNCHANGED vars
      PROVE  minted' = minted
  BY <1>3 DEF Enter, RefuseToBuild, OperateSwitch, OperateBroker, Restart,
              ForgetApprovals, PassTime, vars, shared, approvalVars
<1> QED
  BY <1>1, <1>2, <1>3 DEF PathNext

(* The steps of a call are steps of the path, or leave the path alone. *)
LEMMA ActIsPath ==
    ASSUME ActuationTypeOK, OrderInv, ActNext \/ UNCHANGED allVars
    PROVE  [PathNext]_vars
<1>1. ASSUME NEW c \in Call, pc[c] = "idle", Unbuildable(c) PROVE PathNext
  BY <1>1 DEF Unbuildable, RefuseToBuild, PathNext
<1>2. ASSUME NEW c \in Call, NEW q \in IncomingArgs, Submit(c, q)
      PROVE  [PathNext]_vars
  BY <1>1, <1>2 DEF Submit
<1>3. ASSUME NEW c \in Call, Prepare(c) PROVE [PathNext]_vars
  BY <1>1, <1>3 DEF Prepare
<1>4. ASSUME NEW c \in Call, EnterRun(c) PROVE [PathNext]_vars
  <2>1. CASE CommandOf(args[c].order) = Refused
    BY <1>1, <1>4, <2>1 DEF EnterRun
  <2>2. CASE CommandOf(args[c].order) # Refused
    <3>1. PICK scoped \in BOOLEAN, redacts \in Redacts :
              Enter(c, [session |-> args[c].session,
                        action |-> CommandOf(args[c].order),
                        dry_run |-> args[c].dry_run,
                        token |-> IF args[c].dry_run THEN NoToken ELSE args[c].token,
                        redacts |-> redacts, scoped |-> scoped, bound |-> named[c]])
      BY <1>4, <2>2 DEF EnterRun
    <3>2. args[c] \in ToolArgs /\ named[c] \in Action /\ redacts \in BOOLEAN
      BY RunnerAssumption DEF ActuationTypeOK
    <3>3. PICK o \in Order : o = args[c].order
      BY <3>2 DEF ToolArgs
    <3>4. CommandOf(args[c].order) \in Action
      BY <2>2, <3>3, CommandType DEF OrderInv
    <3>5. PICK k \in Token \cup {NoToken} :
              k = IF args[c].dry_run THEN NoToken ELSE args[c].token
      BY <3>2 DEF ToolArgs
    <3>6. k <= minted
      <4>1. minted \in Nat
        BY ApprovalsAssumption DEF ActuationTypeOK, TypeOK, ApprovalsTypeOK
      <4> QED
        BY <3>5, <4>1 DEF OrderInv, NoToken
    <3> DEFINE r == [session |-> args[c].session, action |-> CommandOf(args[c].order),
                     dry_run |-> args[c].dry_run, token |-> k,
                     redacts |-> redacts, scoped |-> scoped, bound |-> named[c]]
    <3>7. r \in Request /\ r.token <= minted
      BY <3>2, <3>4, <3>5, <3>6 DEF Request, ToolArgs
    <3>8. Enter(c, r)
      BY <3>1, <3>5
    <3> HIDE DEF r
    <3> QED
      BY <3>7, <3>8 DEF PathNext
  <2> QED
    BY <2>1, <2>2
<1>5. ASSUME NEW c \in Call, NEW a \in Action, NEW r \in Incoming(a), EnterOther(c, r)
      PROVE  [PathNext]_vars
  <2>1. ApprovalsTypeOK /\ [Next]_vars
    BY <1>5 DEF EnterOther, Next, ActuationTypeOK, TypeOK
  <2> QED
    BY <2>1, NextIsPath
<1>6. ASSUME NEW c \in Call, RunStep(c) PROVE PathNext
  BY <1>6 DEF PathNext
<1>7. ASSUME NEW c \in Call, PlainStep(c) \/ CheckAdapterPre(c) \/ ReplyAction(c)
      PROVE  RunStep(c)
  BY <1>7 DEF PlainStep, CheckAdapterPre, ReplyAction, RunStep
<1>8. ASSUME NEW c \in Call,
             ExecutePreview(c) \/ SpawnFails(c) \/ Communicate(c) \/ Timeout(c)
      PROVE  RunStep(c)
  BY <1>8 DEF ExecutePreview, SpawnFails, Communicate, Timeout, Executed, RunStep
<1>9. ASSUME NEW c \in Call, Spawn(c) \/ ProcessEnds(c) PROVE UNCHANGED vars
  BY <1>9 DEF Spawn, ProcessEnds
<1>10. ASSUME NEW o \in Order, Repoint(o) PROVE UNCHANGED vars
  BY <1>10 DEF Repoint
<1> QED
  BY <1>2, <1>3, <1>4, <1>5, <1>6, <1>7, <1>8, <1>9, <1>10 DEF ActNext, CallStep, allVars

-----------------------------------------------------------------------------
(* A step of run() that no adapter has a part in, of a call that an        *)
(* adapter is in: it neither passes the preconditions nor executes.        *)
LEMMA PlainFrame ==
    ASSUME TypeOK, NEW c \in Call, PlainStep(c), Is(c, "act")
    PROVE  /\ executed' = executed
           /\ pc[c] \notin {"pre", "execute", "reply"}
           /\ pc'[c] # "charge" /\ pc'[c] # "done"
           /\ pc'[c] = "execute" => pc[c] = "charge"
           /\ outcome'[c] = "allowed" => outcome[c] = "allowed"
           /\ outcome'[c] = "error" => outcome[c] = "error"
<1> USE DEF TypeOK, Goto, Deny, historyVars
<1>1. CASE CheckKill(c) \/ CheckPolicy(c) \/ Gate(c)
  BY <1>1 DEF CheckKill, CheckPolicy, Gate
<1>2. CASE Consume(c)
  BY <1>2 DEF Consume
<1>3. CASE ChargeBudget(c)
  BY <1>3 DEF ChargeBudget
<1>4. CASE Spend(c) \/ MintNonce(c) \/ Audit(c)
  BY <1>4 DEF Spend, MintNonce, Audit
<1> QED
  BY <1>1, <1>2, <1>3, <1>4 DEF PlainStep

(* Types. *)
LEMMA ActTypeStep ==
    ASSUME ActInv, TypeOK', ActNext \/ UNCHANGED allVars
    PROVE  ActuationTypeOK'
<1> USE DEF actVars, buildVars, procVars
<1>1. ActuationTypeOK /\ OrderInv
  BY DEF ActInv
<1>2. ASSUME NEW c \in Call, NEW q \in IncomingArgs, Submit(c, q)
      PROVE  ActuationTypeOK'
  <2>1. q \in ToolArgs
    <3>1. 0 .. minted \subseteq Token \cup {NoToken}
      BY <1>1, ApprovalsAssumption DEF ActuationTypeOK, TypeOK, ApprovalsTypeOK, Token,
                                       NoToken
    <3> QED
      BY <3>1 DEF IncomingArgs, ToolArgs
  <2>2. PICK o \in Order : o = q.order
    BY <2>1 DEF ToolArgs
  <2>3. CommandOf(q.order) # Refused => CommandOf(q.order) \in Action
    BY <1>1, <2>2, CommandType DEF OrderInv
  <2> QED
    BY <1>1, <1>2, <2>1, <2>3 DEF ActuationTypeOK, Submit, Unbuildable
<1>3. ASSUME NEW c \in Call, Prepare(c) \/ EnterRun(c) PROVE ActuationTypeOK'
  <2>1. PICK o \in Order : o = args[c].order
    BY <1>1 DEF ActuationTypeOK, ToolArgs
  <2>2. CommandOf(args[c].order) # Refused => CommandOf(args[c].order) \in Action
    BY <1>1, <2>1, CommandType DEF OrderInv
  <2> QED
    BY <1>1, <1>3, <2>2 DEF ActuationTypeOK, Prepare, EnterRun, Unbuildable
<1>4. ASSUME NEW c \in Call, NEW r, EnterOther(c, r) PROVE ActuationTypeOK'
  BY <1>1, <1>4 DEF ActuationTypeOK, EnterOther
<1>5. ASSUME NEW c \in Call, PlainStep(c) \/ CheckAdapterPre(c) \/ ReplyAction(c)
      PROVE  ActuationTypeOK'
  BY <1>1, <1>5 DEF ActuationTypeOK, PlainStep, CheckAdapterPre, ReplyAction
<1>6. ASSUME NEW c \in Call,
             ExecutePreview(c) \/ SpawnFails(c) \/ Communicate(c) \/ Timeout(c)
      PROVE  ActuationTypeOK'
  BY <1>1, <1>6, ActuationAssumption
     DEF ActuationTypeOK, ExecutePreview, SpawnFails, Communicate, Timeout, Executed,
         KillProcessGroup
<1>7. ASSUME NEW c \in Call, Spawn(c) \/ ProcessEnds(c) PROVE ActuationTypeOK'
  BY <1>1, <1>7, ActuationAssumption DEF ActuationTypeOK, Spawn, ProcessEnds
<1>8. ASSUME NEW o \in Order, Repoint(o) PROVE ActuationTypeOK'
  BY <1>1, <1>8, ActuationAssumption DEF ActuationTypeOK, Repoint
<1>9. CASE UNCHANGED allVars
  BY <1>1, <1>9 DEF ActuationTypeOK, allVars
<1> QED
  BY <1>2, <1>3, <1>4, <1>5, <1>6, <1>7, <1>8, <1>9 DEF ActNext, CallStep

(* Orders and tokens. *)
LEMMA OrderStep ==
    ASSUME ActInv, ActNext \/ UNCHANGED allVars
    PROVE  OrderInv'
<1> USE DEF actVars, buildVars
<1>1. ActuationTypeOK /\ OrderInv /\ TypeOK
  BY DEF ActInv, ActuationTypeOK
<1>2. minted \in Nat /\ minted' \in Nat /\ minted <= minted'
  BY <1>1, ActIsPath, MintedGrows
<1>3. \A c \in Call : args[c].token \in Nat
  BY <1>1, ApprovalsAssumption DEF ActuationTypeOK, ToolArgs, Token, NoToken
<1>4. ASSUME UNCHANGED args, \A o \in Order : place'[o] \in OrderAttr[o].places
      PROVE  OrderInv'
  BY <1>1, <1>2, <1>3, <1>4 DEF OrderInv
<1>5. ASSUME UNCHANGED <<args, place>> PROVE OrderInv'
  BY <1>1, <1>4, <1>5 DEF OrderInv
<1>6. ASSUME NEW c \in Call, NEW q \in IncomingArgs, Submit(c, q) PROVE OrderInv'
  <2>1. q.token \in Nat /\ q.token <= minted
    BY <1>2 DEF IncomingArgs
  <2>2. args' = [args EXCEPT ![c] = q] /\ place' = place
    BY <1>6 DEF Submit
  <2> QED
    BY <1>1, <1>2, <1>3, <2>1, <2>2 DEF OrderInv, ActuationTypeOK
<1>7. ASSUME NEW o \in Order, Repoint(o) PROVE OrderInv'
  <2>1. \A x \in Order : place'[x] \in OrderAttr[x].places
    BY <1>1, <1>7 DEF Repoint, OrderInv, ActuationTypeOK
  <2> QED
    BY <1>4, <1>7, <2>1 DEF Repoint
<1>8. ASSUME NEW c \in Call, CallStep(c) \/ ProcessEnds(c) PROVE UNCHANGED <<args, place>>
  BY <1>8 DEF CallStep, Prepare, EnterRun, PlainStep, CheckAdapterPre, ExecutePreview,
              SpawnFails, Communicate, Timeout, Executed, Spawn, ReplyAction, ProcessEnds
<1>9. ASSUME NEW c \in Call, NEW r, EnterOther(c, r) PROVE UNCHANGED <<args, place>>
  BY <1>9 DEF EnterOther
<1> QED
  BY <1>5, <1>6, <1>7, <1>8, <1>9 DEF ActNext, allVars

(* A request is built once, from what is asked for. *)
LEMMA BuildStep ==
    ASSUME ActInv, ActNext \/ UNCHANGED allVars
    PROVE  BuildInv'
<1> USE DEF actVars, buildVars, procVars
<1>1. ActuationTypeOK /\ OrderInv /\ TypeOK /\ BuildInv
  BY DEF ActInv, ActuationTypeOK
<1>3. ASSUME NEW d \in Call,
             /\ req'[d] = req[d] /\ args'[d] = args[d] /\ built'[d] = built[d]
             /\ argv'[d] = argv[d],
             pc'[d] = pc[d] \/ (pc[d] \notin {"idle", "refused"}
                                /\ pc'[d] \notin {"idle", "refused"}),
             d \in raced => d \in raced',
             built[d] = "argv" /\ d \notin raced' =>
                place'[args[d].order] = place[args[d].order]
      PROVE  BuiltAsAsked(d)'
  <2>1. BuiltAsAsked(d)
    BY <1>1 DEF BuildInv
  <2>2. /\ Is(d, "act")' = Is(d, "act") /\ Sess(d)' = Sess(d) /\ DryRun(d)' = DryRun(d)
        /\ Supports(d)' = Supports(d) /\ TierOf(d)' = TierOf(d) /\ Act(d)' = Act(d)
        /\ Confined(d)' = Confined(d)
    BY <1>3 DEF Is, Act, Sess, DryRun, Supports, SupportsOrder, TierOf, Confined, Rooted,
                AttrOf
  <2>3. ASSUME built[d] = "argv", d \notin raced'
        PROVE  CommandOf(args[d].order)' = CommandOf(args[d].order)
    <3>1. args'[d].order = args[d].order
          /\ place'[args'[d].order] = place[args[d].order]
      BY <1>3, <2>3
    <3> QED
      BY <3>1 DEF CommandOf, SupportsOrder, BuildArgv, SshArgv, AnsibleArgv, OpenTofuArgv,
                  RunbookArgv, TalosctlArgv, ConfineToRoot
  <2>4. (CommandOf(args[d].order) = argv[d])' <=> CommandOf(args[d].order)' = argv[d]
    BY <1>3
  <2> QED
    BY <1>3, <2>1, <2>2, <2>3, <2>4 DEF BuiltAsAsked
<1>4. ASSUME NEW c \in Call, NEW q \in IncomingArgs, Submit(c, q) PROVE BuildInv'
  <2>1. ASSUME NEW d \in Call, d # c PROVE BuiltAsAsked(d)'
    <3>1. /\ req'[d] = req[d] /\ args'[d] = args[d] /\ built'[d] = built[d]
          /\ argv'[d] = argv[d] /\ pc'[d] = pc[d] /\ raced' = raced /\ place' = place
      BY <1>1, <1>4, <2>1
         DEF Submit, Unbuildable, ActuationTypeOK, TypeOK, Goto, vars, callVars
    <3> QED
      BY <1>3, <3>1
  <2>2. BuiltAsAsked(c)'
    <3>1. \/ pc'[c] = "refused" /\ built'[c] = "no"
          \/ pc'[c] = "idle" /\ built'[c] = "named"
      BY <1>1, <1>4 DEF Submit, Unbuildable, ActuationTypeOK, TypeOK, Goto, vars, callVars
    <3> QED
      BY <3>1 DEF BuiltAsAsked
  <2> QED
    BY <2>1, <2>2 DEF BuildInv
<1>5. ASSUME NEW c \in Call, Prepare(c) PROVE BuildInv'
  <2>1. ASSUME NEW d \in Call, d # c PROVE BuiltAsAsked(d)'
    <3>1. /\ req'[d] = req[d] /\ args'[d] = args[d] /\ built'[d] = built[d]
          /\ argv'[d] = argv[d] /\ pc'[d] = pc[d] /\ raced' = raced /\ place' = place
      BY <1>1, <1>5, <2>1
         DEF Prepare, Unbuildable, ActuationTypeOK, TypeOK, Goto, vars, callVars
    <3> QED
      BY <1>3, <3>1
  <2>2. PICK o \in Order : o = args[c].order
    BY <1>1 DEF ActuationTypeOK, ToolArgs
  <2>3. ASSUME CommandOf(args[c].order) = Refused PROVE BuiltAsAsked(c)'
    <3>1. pc'[c] = "refused" /\ built'[c] = "named"
      BY <1>1, <1>5, <2>3 DEF Prepare, Unbuildable, ActuationTypeOK, TypeOK, Goto
    <3> QED
      BY <3>1 DEF BuiltAsAsked
  <2>4. ASSUME CommandOf(args[c].order) # Refused PROVE BuiltAsAsked(c)'
    <3>1. /\ pc'[c] = "idle" /\ built'[c] = "argv" /\ args' = args /\ place' = place
          /\ argv'[c] = CommandOf(args[c].order)
      BY <1>1, <1>5, <2>4 DEF Prepare, ActuationTypeOK, vars, callVars
    <3>2. CommandOf(args[c].order)' = CommandOf(args[c].order)
      BY <3>1 DEF CommandOf, SupportsOrder, BuildArgv, SshArgv, AnsibleArgv, OpenTofuArgv,
                  RunbookArgv, TalosctlArgv, ConfineToRoot
    <3>3. SupportsOrder(o) =>
              /\ CommandOf(o) = place[o].command
              /\ \/ OrderAttr[o].adapter \in {"ansible", "runbook"}
                 \/ OrderAttr[o].adapter = "opentofu" /\ OrderAttr[o].chdir
                 => place[o].inside
      BY <1>1, <2>2, <2>4, CommandType DEF OrderInv
    <3>4. place[o] \in OrderAttr[o].places
      BY <1>1 DEF OrderInv
    <3>5. argv'[c] = CommandOf(o)
      BY <2>2, <3>1
    <3>6. Confined(c)'
      BY <2>2, <3>1, <3>3, <3>4, <3>5 DEF Confined, Supports, SupportsOrder, Rooted, AttrOf
    <3> QED
      BY <3>1, <3>2, <3>6 DEF BuiltAsAsked
  <2> QED
    BY <2>1, <2>3, <2>4 DEF BuildInv
<1>6. ASSUME NEW c \in Call, EnterRun(c) PROVE BuildInv'
  <2>1. ASSUME NEW d \in Call, d # c PROVE BuiltAsAsked(d)'
    <3>1. /\ req'[d] = req[d] /\ args'[d] = args[d] /\ built'[d] = built[d]
          /\ argv'[d] = argv[d] /\ pc'[d] = pc[d] /\ raced' = raced /\ place' = place
      BY <1>1, <1>6, <2>1
         DEF EnterRun, Enter, Unbuildable, ActuationTypeOK, TypeOK, Goto
    <3> QED
      BY <1>3, <3>1
  <2>2. PICK o \in Order : o = args[c].order
    BY <1>1 DEF ActuationTypeOK, ToolArgs
  <2>3. ASSUME CommandOf(args[c].order) = Refused PROVE BuiltAsAsked(c)'
    <3>1. /\ req'[c] = req[c] /\ args'[c] = args[c] /\ built'[c] = "argv"
          /\ argv'[c] = argv[c] /\ pc'[c] = "refused" /\ raced' = raced /\ place' = place
      BY <1>1, <1>6, <2>3
         DEF EnterRun, Unbuildable, ActuationTypeOK, TypeOK, Goto
    <3>2. built[c] = "argv" /\ BuiltAsAsked(c)
      BY <1>1, <1>6 DEF EnterRun, BuildInv
    <3>3. Confined(c)' = Confined(c)
      BY <3>1 DEF Confined, Supports, SupportsOrder, Rooted, AttrOf
    <3>4. CommandOf(args[c].order)' = CommandOf(args[c].order)
      BY <3>1 DEF CommandOf, SupportsOrder, BuildArgv, SshArgv, AnsibleArgv, OpenTofuArgv,
                  RunbookArgv, TalosctlArgv, ConfineToRoot
    <3> QED
      BY <3>1, <3>2, <3>3, <3>4 DEF BuiltAsAsked
  <2>4. ASSUME CommandOf(args[c].order) # Refused PROVE BuiltAsAsked(c)'
    <3>1. /\ pc'[c] = "kill" /\ built'[c] = "entered" /\ args' = args
          /\ argv' = argv /\ raced' = raced
          /\ req'[c].session = args[c].session /\ req'[c].dry_run = args[c].dry_run
          /\ req'[c].action = CommandOf(args[c].order)
      BY <1>1, <1>6, <2>4 DEF EnterRun, Enter, ActuationTypeOK, TypeOK, Goto
    <3>2. built[c] = "argv" /\ BuiltAsAsked(c)
      BY <1>1, <1>6 DEF EnterRun, BuildInv
    <3>3. Confined(c)
      BY <3>2 DEF BuiltAsAsked
    <3>4. Confined(c)'
      BY <3>1, <3>3 DEF Confined, Supports, SupportsOrder, Rooted, AttrOf
    <3>5. /\ Attr[CommandOf(o)].kind = "act"
          /\ SupportsOrder(o) => DecisionTier(CommandOf(o)) >= 2
      BY <1>1, <2>2, <2>4, CommandType DEF OrderInv
    <3>6. Is(c, "act")'
      BY <2>2, <3>1, <3>5 DEF Is, Act
    <3>7. Sess(c)' = args'[c].session /\ req'[c].dry_run = DryRun(c)'
      BY <3>1 DEF Sess, DryRun
    <3>8. Supports(c)' => SupportsOrder(o)
      BY <2>2, <3>1 DEF Supports, SupportsOrder
    <3>9. TierOf(c)' = DecisionTier(CommandOf(o))
      BY <2>2, <3>1 DEF TierOf, Act, DecisionTier, Classify
    <3>10. c \notin raced' => Act(c)' = argv'[c]
      BY <3>1, <3>2 DEF BuiltAsAsked, Act
    <3> QED
      BY <3>1, <3>4, <3>5, <3>6, <3>7, <3>8, <3>9, <3>10 DEF BuiltAsAsked
  <2> QED
    BY <2>1, <2>3, <2>4 DEF BuildInv
<1>7. ASSUME NEW c \in Call, NEW r, EnterOther(c, r) PROVE BuildInv'
  <2>1. ASSUME NEW d \in Call, d # c PROVE BuiltAsAsked(d)'
    <3>1. /\ req'[d] = req[d] /\ args'[d] = args[d] /\ built'[d] = built[d]
          /\ argv'[d] = argv[d] /\ pc'[d] = pc[d] /\ raced' = raced /\ place' = place
      BY <1>1, <1>7, <2>1 DEF EnterOther, Enter, TypeOK, Goto
    <3> QED
      BY <1>3, <3>1
  <2>2. BuiltAsAsked(c)'
    <3>1. built'[c] = "no" /\ req'[c] = r /\ Attr[r.action].kind # "act"
      BY <1>1, <1>7 DEF EnterOther, Enter, TypeOK
    <3> QED
      BY <3>1 DEF BuiltAsAsked, Is, Act
  <2> QED
    BY <2>1, <2>2 DEF BuildInv
<1>8. ASSUME NEW c \in Call, RunStep(c), UNCHANGED <<place, buildVars, raced>>
      PROVE  BuildInv'
  <2>1. ASSUME NEW d \in Call PROVE BuiltAsAsked(d)'
    <3>1. /\ req' = req
          /\ \/ pc'[d] = pc[d]
             \/ pc[d] \notin {"idle", "refused"} /\ pc'[d] \notin {"idle", "refused"}
      BY <1>1, <1>8, RunFrame
    <3> QED
      BY <1>3, <1>8, <3>1
  <2> QED
    BY <2>1 DEF BuildInv
<1>9. ASSUME NEW c \in Call,
             PlainStep(c) \/ CheckAdapterPre(c) \/ ReplyAction(c) \/ ExecutePreview(c)
             \/ SpawnFails(c) \/ Communicate(c) \/ Timeout(c)
      PROVE  RunStep(c) /\ UNCHANGED <<place, buildVars, raced>>
  BY <1>9 DEF PlainStep, CheckAdapterPre, ReplyAction, ExecutePreview, SpawnFails,
              Communicate, Timeout, Executed, RunStep
<1>10. ASSUME UNCHANGED vars, UNCHANGED <<place, buildVars, raced>> PROVE BuildInv'
  <2>1. ASSUME NEW d \in Call PROVE BuiltAsAsked(d)'
    BY <1>3, <1>10 DEF vars, callVars
  <2> QED
    BY <2>1 DEF BuildInv
<1>11. ASSUME NEW c \in Call, Spawn(c) \/ ProcessEnds(c) PROVE BuildInv'
  BY <1>10, <1>11 DEF Spawn, ProcessEnds
<1>12. ASSUME NEW o \in Order, Repoint(o) PROVE BuildInv'
  <2>1. ASSUME NEW d \in Call PROVE BuiltAsAsked(d)'
    <3>1. UNCHANGED vars /\ UNCHANGED buildVars /\ (d \in raced => d \in raced')
      BY <1>12 DEF Repoint
    <3>2. built[d] = "argv" /\ d \notin raced' => args[d].order # o
      BY <1>12 DEF Repoint
    <3>3. args[d].order # o => place'[args[d].order] = place[args[d].order]
      BY <1>1, <1>12 DEF Repoint, ActuationTypeOK, ToolArgs
    <3> QED
      BY <1>3, <3>1, <3>2, <3>3 DEF vars, callVars
  <2> QED
    BY <2>1 DEF BuildInv
<1> QED
  BY <1>4, <1>5, <1>6, <1>7, <1>8, <1>9, <1>10, <1>11, <1>12 DEF ActNext, CallStep, allVars

-----------------------------------------------------------------------------
(* What a step of another call, or of the directory, leaves of call d. *)
Untouched(d) ==
    /\ pc'[d] = pc[d] /\ req'[d] = req[d] /\ outcome'[d] = outcome[d]
    /\ nonce'[d] = nonce[d] /\ args'[d] = args[d] /\ built'[d] = built[d]
    /\ child'[d] = child[d] /\ kin'[d] = kin[d]
    /\ d \in executed' <=> d \in executed
    /\ d \in announced' <=> d \in announced
    /\ d \in probed => d \in probed'

(* The three statements about a call are about what is its own. *)
CallOwn(c) == PrePassed(c) /\ ProcessKept(c) /\ MintShown(c)

LEMMA UntouchedKeeps ==
    ASSUME NEW d \in Call, Untouched(d), CallOwn(d)
    PROVE  CallOwn(d)'
<1>1. /\ Supports(d)' = Supports(d) /\ HealthGated(d)' = HealthGated(d)
      /\ Preview(d)' = Preview(d) /\ DryRun(d)' = DryRun(d) /\ Act(d)' = Act(d)
  BY DEF Untouched, Supports, SupportsOrder, HealthGated, Preview, DryRun, AdapterOf,
         AttrOf, Act
<1>2. MultiTargetT3(Act(d))' = MultiTargetT3(Act(d))
  BY <1>1 DEF MultiTargetT3, DecisionTier, Classify
<1>3. PrePassed(d)'
  BY <1>1 DEF Untouched, CallOwn, PrePassed
<1>4. ProcessKept(d)'
  BY <1>1 DEF Untouched, CallOwn, ProcessKept
<1>5. MintShown(d)'
  BY <1>1, <1>2 DEF Untouched, CallOwn, MintShown
<1> QED
  BY <1>3, <1>4, <1>5 DEF CallOwn

(* A step is a step of one call, or of none. *)
LEMMA OthersUntouched ==
    ASSUME ActuationTypeOK, NEW c \in Call, NEW d \in Call, d # c,
           \/ \E q \in IncomingArgs : Submit(c, q)
           \/ \E r : EnterOther(c, r)
           \/ CallStep(c)
           \/ ProcessEnds(c)
    PROVE  Untouched(d)
<1> USE DEF actVars, buildVars, procVars
<1>1. TypeOK
  BY DEF ActuationTypeOK
<1>2. ASSUME NEW q, Submit(c, q) PROVE Untouched(d)
  BY <1>1, <1>2 DEF Submit, Unbuildable, Goto, vars, callVars, historyVars, TypeOK,
                    ActuationTypeOK, Untouched
<1>3. ASSUME NEW r, EnterOther(c, r) PROVE Untouched(d)
  BY <1>1, <1>3 DEF EnterOther, Enter, Goto, TypeOK, Untouched
<1>4. ASSUME Prepare(c) PROVE Untouched(d)
  BY <1>1, <1>4 DEF Prepare, Unbuildable, Goto, vars, callVars, historyVars, TypeOK,
                    ActuationTypeOK, Untouched
<1>5. ASSUME EnterRun(c) PROVE Untouched(d)
  BY <1>1, <1>5 DEF EnterRun, Enter, Unbuildable, Goto, historyVars, TypeOK,
                    ActuationTypeOK, Untouched
<1>6. ASSUME RunStep(c), UNCHANGED buildVars, child'[d] = child[d], kin'[d] = kin[d],
             d \in announced' <=> d \in announced, d \in probed => d \in probed'
      PROVE  Untouched(d)
  BY <1>1, <1>6, RunFrame DEF Untouched
<1>7. ASSUME PlainStep(c) \/ CheckAdapterPre(c) \/ ReplyAction(c) PROVE Untouched(d)
  <2>1. RunStep(c)
    BY <1>7 DEF PlainStep, CheckAdapterPre, ReplyAction, RunStep
  <2> QED
    BY <1>6, <1>7, <2>1 DEF PlainStep, CheckAdapterPre, ReplyAction
<1>8. ASSUME ExecutePreview(c) \/ SpawnFails(c) \/ Communicate(c) \/ Timeout(c)
      PROVE  Untouched(d)
  <2>1. RunStep(c)
    BY <1>8 DEF ExecutePreview, SpawnFails, Communicate, Timeout, Executed, RunStep
  <2> QED
    BY <1>6, <1>8, <2>1 DEF ExecutePreview, SpawnFails, Communicate, Timeout, Executed,
                            KillProcessGroup, ActuationTypeOK
<1>9. ASSUME Spawn(c) \/ ProcessEnds(c) PROVE Untouched(d)
  BY <1>9 DEF Spawn, ProcessEnds, vars, callVars, historyVars, ActuationTypeOK, Untouched
<1> QED
  BY <1>2, <1>3, <1>4, <1>5, <1>7, <1>8, <1>9 DEF CallStep

(* Before its request is entered a call has no process and no reply. *)
LEMMA NotEntered ==
    ASSUME NEW c \in Call, CallOwn(c), built[c] # "entered", built'[c] # "entered",
           UNCHANGED <<child, kin, announced>>,
           c \in executed => c \in executed',
           outcome'[c] \in {"allowed", "error"} =>
              outcome'[c] = outcome[c] \/ c \in executed'
    PROVE  CallOwn(c)'
<1>1. PrePassed(c)'
  BY DEF PrePassed
<1>2. ProcessKept(c)'
  BY DEF CallOwn, ProcessKept
<1>3. MintShown(c)'
  BY DEF CallOwn, MintShown
<1> QED
  BY <1>1, <1>2, <1>3 DEF CallOwn

(* A step of call c keeps what is said of call c. *)
LEMMA OwnStep ==
    ASSUME ActInv, NEW c \in Call,
           \/ \E q \in IncomingArgs : Submit(c, q)
           \/ \E r : EnterOther(c, r)
           \/ CallStep(c)
           \/ ProcessEnds(c)
    PROVE  CallOwn(c)'
<1> USE DEF actVars, buildVars, procVars
<1>1. ActuationTypeOK /\ TypeOK /\ RunnerInv /\ BuiltAsAsked(c) /\ CallOwn(c)
  BY DEF ActInv, ActuationTypeOK, BuildInv, PreInv, ProcInv, MintedInv, CallOwn
<1>2. c \in executed =>
          /\ outcome[c] \in {"allowed", "error"}
          /\ pc[c] \in {"spend", "mint", "audit", "reply", "done", "lost"}
  BY <1>1 DEF RunnerInv, PhaseInv, Ending
<1>3. ASSUME NEW q, Submit(c, q) PROVE CallOwn(c)'
  <2>1. /\ built[c] = "no" /\ built'[c] # "entered" /\ UNCHANGED <<child, kin, announced>>
        /\ executed' = executed /\ outcome' = outcome
    BY <1>1, <1>3 DEF Submit, Unbuildable, ActuationTypeOK, vars, callVars, historyVars
  <2> QED
    BY <1>1, <2>1, NotEntered
<1>4. ASSUME NEW r, EnterOther(c, r) PROVE CallOwn(c)'
  <2>1. /\ built[c] = "no" /\ built' = built /\ UNCHANGED <<child, kin, announced>>
        /\ executed' = executed /\ outcome' = outcome
    BY <1>4 DEF EnterOther, Enter
  <2> QED
    BY <1>1, <2>1, NotEntered
<1>5. ASSUME Prepare(c) PROVE CallOwn(c)'
  <2>1. /\ built[c] = "named" /\ built'[c] # "entered"
        /\ UNCHANGED <<child, kin, announced>>
        /\ executed' = executed /\ outcome' = outcome
    BY <1>1, <1>5 DEF Prepare, Unbuildable, ActuationTypeOK, vars, callVars, historyVars
  <2> QED
    BY <1>1, <2>1, NotEntered
<1>6. ASSUME EnterRun(c) PROVE CallOwn(c)'
  <2>1. /\ built[c] = "argv" /\ pc[c] = "idle" /\ UNCHANGED <<child, kin, announced>>
        /\ executed' = executed /\ outcome' = outcome
    BY <1>6 DEF EnterRun, Enter, Unbuildable, historyVars
  <2>2. CASE built'[c] # "entered"
    BY <1>1, <2>1, <2>2, NotEntered
  <2>3. CASE built'[c] = "entered"
    <3>1. pc'[c] = "kill"
      BY <1>1, <1>6, <2>1, <2>3 DEF EnterRun, Enter, Unbuildable, Goto, TypeOK
    <3>2. c \notin executed /\ child[c] = "none" /\ kin[c] = "none" /\ c \notin announced
      BY <1>1, <1>2, <2>1 DEF CallOwn, ProcessKept, MintShown
    <3>3. PrePassed(c)'
      BY <2>1, <3>1, <3>2 DEF PrePassed
    <3>4. ProcessKept(c)'
      BY <2>1, <3>1, <3>2 DEF ProcessKept
    <3>5. MintShown(c)'
      BY <1>1, <2>1, <3>1, <3>2 DEF CallOwn, MintShown
    <3> QED
      BY <3>3, <3>4, <3>5 DEF CallOwn
  <2> QED
    BY <2>2, <2>3
<1>7. ASSUME UNCHANGED <<args, req>>
      PROVE  /\ Supports(c)' = Supports(c) /\ HealthGated(c)' = HealthGated(c)
             /\ Preview(c)' = Preview(c) /\ DryRun(c)' = DryRun(c) /\ Act(c)' = Act(c)
             /\ MultiTargetT3(Act(c))' = MultiTargetT3(Act(c))
  BY <1>7 DEF Supports, SupportsOrder, HealthGated, Preview, DryRun, AdapterOf, AttrOf,
              Act, MultiTargetT3, DecisionTier, Classify
<1>8. ASSUME PlainStep(c) PROVE CallOwn(c)'
  <2>1. RunStep(c) /\ UNCHANGED actVars
    BY <1>8 DEF PlainStep, RunStep
  <2>2. /\ req' = req /\ pc[c] \notin {"idle", "refused", "done", "lost"}
        /\ c \in executed => c \in executed'
        /\ outcome'[c] \in {"allowed", "error"} =>
              outcome'[c] = outcome[c] \/ c \in executed'
    BY <1>1, <2>1, RunFrame
  <2>3. CASE ~ Is(c, "act")
    <3>1. built[c] = "no"
      BY <1>1, <2>2, <2>3 DEF BuiltAsAsked, ActuationTypeOK
    <3> QED
      BY <1>1, <2>1, <2>2, <3>1, NotEntered
  <2>4. CASE Is(c, "act")
    <3>1. built[c] = "entered"
      BY <1>1, <2>2, <2>4 DEF BuiltAsAsked, ActuationTypeOK
    <3>2. /\ executed' = executed
          /\ pc[c] \notin {"pre", "execute", "reply"}
          /\ pc'[c] # "charge" /\ pc'[c] # "done"
          /\ pc'[c] = "execute" => pc[c] = "charge"
          /\ outcome'[c] = "allowed" => outcome[c] = "allowed"
          /\ outcome'[c] = "error" => outcome[c] = "error"
      BY <1>1, <1>8, <2>4, PlainFrame
    <3>3. PrePassed(c)'
      BY <1>1, <1>7, <2>1, <2>2, <3>1, <3>2 DEF CallOwn, PrePassed
    <3>4. ProcessKept(c)'
      BY <1>1, <1>7, <2>1, <2>2, <3>1, <3>2 DEF CallOwn, ProcessKept
    <3>5. ASSUME DryRun(c), outcome'[c] = "allowed",
                 pc'[c] \in {"audit", "reply", "done"}
          PROVE  MultiTargetT3(Act(c)) \/ nonce'[c] # NoToken
      <4>1. outcome[c] = "allowed" /\ c \in executed
        BY <1>1, <3>2, <3>5 DEF CallOwn, MintShown
      <4>2. c \in gated
        BY <1>1, <3>1, <4>1 DEF CallOwn, PrePassed, BuiltAsAsked, RunnerInv, GateInv
      <4>3. pc[c] \in {"spend", "mint", "audit"}
        BY <1>2, <2>2, <3>2, <4>1
      <4>4. CASE pc[c] = "audit"
        <5>1. nonce' = nonce
          BY <1>8, <4>4 DEF PlainStep, CheckKill, CheckPolicy, Gate, Consume, ChargeBudget,
                            Spend, MintNonce, Audit, CheckPre, Execute, Reply, historyVars
        <5> QED
          BY <1>1, <3>1, <3>5, <4>1, <4>4, <5>1 DEF CallOwn, MintShown
      <4>5. CASE pc[c] = "spend"
        <5>1. Spend(c)
          BY <1>8, <2>4, <4>5 DEF PlainStep, CheckKill, CheckPolicy, Gate, Consume,
                                  ChargeBudget, MintNonce, Audit
        <5>2. ~ Real(c)
          BY <1>1, <3>1, <3>5 DEF BuiltAsAsked, Real
        <5> QED
          BY <1>1, <3>5, <4>1, <4>2, <5>1, <5>2 DEF Spend, Goto, TypeOK
      <4>6. CASE pc[c] = "mint"
        <5>1. MintNonce(c)
          BY <1>8, <2>4, <4>6 DEF PlainStep, CheckKill, CheckPolicy, Gate, Consume,
                                  ChargeBudget, Spend, Audit
        <5>2. nonce'[c] = minted + 1 /\ minted \in Nat
          BY <1>1, <5>1, ApprovalsAssumption DEF MintNonce, Mint, TypeOK, ApprovalsTypeOK
        <5> QED
          BY <5>2 DEF NoToken
      <4> QED
        BY <4>3, <4>4, <4>5, <4>6
    <3>6. c \notin announced
      BY <1>1, <2>2 DEF CallOwn, MintShown
    <3>7. MintShown(c)'
      <4>1. DryRun(c)' = DryRun(c) /\ MultiTargetT3(Act(c))' = MultiTargetT3(Act(c))
        BY <1>7, <2>1, <2>2
      <4>2. outcome'[c] \in {"allowed", "error"} => c \in executed'
        BY <1>1, <2>2 DEF CallOwn, MintShown
      <4>3. c \notin announced'
        BY <2>1, <3>6
      <4> QED
        BY <3>5, <4>1, <4>2, <4>3 DEF MintShown
    <3> QED
      BY <3>3, <3>4, <3>7 DEF CallOwn
  <2> QED
    BY <2>3, <2>4
<1>9. ASSUME pc[c] \notin {"idle", "refused"}, Is(c, "act") PROVE built[c] = "entered"
  BY <1>1, <1>9 DEF BuiltAsAsked, ActuationTypeOK
<1>10. ASSUME CheckAdapterPre(c) PROVE CallOwn(c)'
  <2>1. RunStep(c) /\ Is(c, "act") /\ pc[c] = "pre"
        /\ UNCHANGED <<args, built, child, kin, announced>>
    BY <1>10 DEF CheckAdapterPre, CheckPre, RunStep
  <2>2. req' = req
    BY <1>1, <2>1, RunFrame
  <2>3. built[c] = "entered" /\ c \notin executed /\ child[c] = "none"
    BY <1>1, <1>2, <1>9, <2>1 DEF CallOwn, ProcessKept
  <2>4. /\ executed' = executed /\ pc'[c] \in {"charge", "audit"}
        /\ outcome'[c] \in {outcome[c], "denied"}
    BY <1>1, <1>10 DEF CheckAdapterPre, CheckPre, Goto, Deny, historyVars, TypeOK
  <2>5. outcome[c] \notin {"allowed", "error"} /\ c \notin announced
    BY <1>1, <2>1, <2>3 DEF CallOwn, MintShown
  <2>6. pc'[c] = "charge" => Supports(c) /\ (HealthGated(c) => c \in probed')
    BY <1>10 DEF CheckAdapterPre
  <2>7. PrePassed(c)'
    BY <1>7, <2>1, <2>2, <2>3, <2>4, <2>6 DEF PrePassed
  <2>8. ProcessKept(c)'
    BY <1>1, <2>1, <2>3, <2>4 DEF CallOwn, ProcessKept
  <2>9. MintShown(c)'
    BY <2>1, <2>4, <2>5 DEF MintShown
  <2> QED
    BY <2>7, <2>8, <2>9 DEF CallOwn
<1>11. ASSUME NEW label, Executed(c, label), ProcessKept(c)' PROVE CallOwn(c)'
  <2>1. RunStep(c) /\ Is(c, "act") /\ pc[c] = "execute"
        /\ UNCHANGED <<args, built, announced, probed>>
    BY <1>11 DEF Executed, Execute, RunStep
  <2>2. req' = req
    BY <1>1, <2>1, RunFrame
  <2>3. pc'[c] = "spend" /\ c \in executed'
    BY <1>1, <1>11 DEF Executed, Execute, Goto, TypeOK
  <2>4. PrePassed(c)'
    BY <1>1, <1>7, <2>1, <2>2, <2>3 DEF CallOwn, PrePassed
  <2>5. MintShown(c)'
    BY <1>1, <2>1, <2>3 DEF CallOwn, MintShown
  <2> QED
    BY <1>11, <2>4, <2>5 DEF CallOwn
<1>12. ASSUME NEW label, Executed(c, label)
       PROVE  /\ built[c] = "entered" /\ built' = built /\ c \notin executed
              /\ c \in executed' /\ outcome'[c] = label
              /\ Preview(c)' = Preview(c) /\ DryRun(c)' = DryRun(c)
  <2>1. RunStep(c) /\ Is(c, "act") /\ pc[c] = "execute" /\ UNCHANGED args /\ built' = built
    BY <1>12 DEF Executed, Execute, RunStep
  <2>2. req' = req
    BY <1>1, <2>1, RunFrame
  <2>3. c \in executed' /\ outcome'[c] = label
    BY <1>12 DEF Executed, Execute
  <2> QED
    BY <1>2, <1>7, <1>9, <2>1, <2>2, <2>3
<1>13. ASSUME ExecutePreview(c) PROVE CallOwn(c)'
  <2>1. ProcessKept(c)'
    BY <1>1, <1>12, <1>13 DEF ExecutePreview, Preview, CallOwn, ProcessKept
  <2> QED
    BY <1>11, <1>13, <2>1 DEF ExecutePreview
<1>14. ASSUME SpawnFails(c) PROVE CallOwn(c)'
  <2>1. ProcessKept(c)'
    BY <1>1, <1>12, <1>14 DEF SpawnFails, CallOwn, ProcessKept
  <2> QED
    BY <1>11, <1>14, <2>1 DEF SpawnFails
<1>15. ASSUME Communicate(c) PROVE CallOwn(c)'
  <2>1. ProcessKept(c)'
    BY <1>1, <1>12, <1>15 DEF Communicate, CallOwn, ProcessKept
  <2> QED
    BY <1>11, <1>15, <2>1 DEF Communicate
<1>16. ASSUME Timeout(c) PROVE CallOwn(c)'
  <2>1. /\ child[c] # "none" /\ child'[c] \notin {"none", "running"}
        /\ kin'[c] \in {"escaped", "none"}
    BY <1>1, <1>16 DEF Timeout, KillProcessGroup, ActuationTypeOK
  <2>2. ProcessKept(c)'
    BY <1>1, <1>12, <1>16, <2>1 DEF Timeout, CallOwn, ProcessKept
  <2> QED
    BY <1>11, <1>16, <2>2 DEF Timeout
<1>17. ASSUME UNCHANGED vars, UNCHANGED <<args, built, announced, probed>>,
              ProcessKept(c)'
       PROVE  CallOwn(c)'
  <2>1. req' = req /\ pc' = pc /\ outcome' = outcome /\ nonce' = nonce
        /\ executed' = executed
    BY <1>17 DEF vars, callVars, historyVars
  <2>2. PrePassed(c)'
    BY <1>1, <1>7, <1>17, <2>1 DEF CallOwn, PrePassed
  <2>3. MintShown(c)'
    BY <1>1, <1>7, <1>17, <2>1 DEF CallOwn, MintShown
  <2> QED
    BY <1>17, <2>2, <2>3 DEF CallOwn
<1>18. ASSUME Spawn(c) PROVE CallOwn(c)'
  <2>1. built[c] = "entered" /\ c \notin executed
    BY <1>2, <1>9, <1>18 DEF Spawn
  <2>2. /\ UNCHANGED vars /\ UNCHANGED <<args, built, announced, probed>>
        /\ pc' = pc /\ executed' = executed /\ req' = req
    BY <1>18 DEF Spawn, vars, callVars, historyVars
  <2>3. child'[c] = "running" /\ pc[c] = "execute" /\ ~ Preview(c)
    BY <1>1, <1>18 DEF Spawn, ActuationTypeOK
  <2>4. ProcessKept(c)'
    BY <1>7, <2>1, <2>2, <2>3 DEF ProcessKept
  <2> QED
    BY <1>17, <2>2, <2>4
<1>19. ASSUME ProcessEnds(c) PROVE CallOwn(c)'
  <2>1. /\ UNCHANGED vars /\ UNCHANGED <<args, built, announced, probed>>
        /\ pc' = pc /\ executed' = executed /\ req' = req /\ outcome' = outcome
    BY <1>19 DEF ProcessEnds, vars, callVars, historyVars
  <2>2. \/ child[c] = "running" /\ child'[c] \in {"exit0", "failed"} /\ kin' = kin
        \/ child' = child /\ kin'[c] = "none"
    BY <1>1, <1>19 DEF ProcessEnds, ActuationTypeOK
  <2>3. ProcessKept(c)'
    BY <1>1, <1>7, <2>1, <2>2 DEF CallOwn, ProcessKept
  <2> QED
    BY <1>17, <2>1, <2>3
<1>20. ASSUME ReplyAction(c) PROVE CallOwn(c)'
  <2>1. /\ Is(c, "act") /\ pc[c] = "reply" /\ pc'[c] = "done"
        /\ UNCHANGED <<args, built, child, kin, probed>>
        /\ req' = req /\ executed' = executed /\ outcome' = outcome /\ nonce' = nonce
    BY <1>1, <1>20 DEF ReplyAction, Reply, Goto, TypeOK, historyVars
  <2>2. built[c] = "entered"
    BY <1>9, <2>1
  <2>3. c \in announced' => DryRun(c) /\ outcome[c] = "allowed"
    BY <1>1, <1>20 DEF ReplyAction, Announces, CallOwn, MintShown
  <2>4. PrePassed(c)'
    BY <1>1, <1>7, <2>1, <2>2 DEF CallOwn, PrePassed
  <2>5. ProcessKept(c)'
    BY <1>1, <1>7, <2>1, <2>2 DEF CallOwn, ProcessKept
  <2>6. MintShown(c)'
    BY <1>1, <1>7, <2>1, <2>2, <2>3 DEF CallOwn, MintShown
  <2> QED
    BY <2>4, <2>5, <2>6 DEF CallOwn
<1> QED
  BY <1>3, <1>4, <1>5, <1>6, <1>8, <1>10, <1>13, <1>14, <1>15, <1>16, <1>18, <1>19, <1>20
     DEF CallStep

-----------------------------------------------------------------------------
(* The initial state. *)
LEMMA ActInitInv == ActInit => ActInv
<1> SUFFICES ASSUME ActInit PROVE ActInv
  OBVIOUS
<1>1. RunnerInv /\ TokenDrawn /\ TypeOK
  BY RunnerInit, TokenDrawnInit DEF ActInit, RunnerInv
<1>2. (CHOOSE s \in Session : TRUE) \in Session /\ NoOrder \in Order
  BY RunnerAssumption, ActuationAssumption DEF NoOrder
<1>3. place \in [Order -> Place]
  BY ActuationAssumption DEF ActInit
<1>4. args \in [Call -> ToolArgs] /\ \A c \in Call : args[c].token = NoToken
  BY <1>2 DEF ActInit, ToolArgs
<1>5. ActuationTypeOK
  BY <1>1, <1>3, <1>4, ActuationAssumption DEF ActInit, ActuationTypeOK
<1>6. OrderInv
  <2>1. minted \in Nat
    BY <1>1, ApprovalsAssumption DEF TypeOK, ApprovalsTypeOK
  <2> QED
    BY <1>4, <2>1 DEF ActInit, OrderInv, NoToken
<1>7. BuildInv
  BY DEF ActInit, Init, BuildInv, BuiltAsAsked
<1>8. PreInv /\ ProcInv /\ MintedInv
  BY DEF ActInit, Init, PreInv, PrePassed, ProcInv, ProcessKept, MintedInv, MintShown
<1> QED
  BY <1>1, <1>5, <1>6, <1>7, <1>8 DEF ActInv

(* Every step keeps the invariant. *)
LEMMA ActStep == ActInv /\ [ActNext]_allVars => ActInv'
<1> SUFFICES ASSUME ActInv, ActNext \/ UNCHANGED allVars PROVE ActInv'
  OBVIOUS
<1>1. [PathNext]_vars
  BY ActIsPath DEF ActInv
<1>2. RunnerInv' /\ TokenDrawn'
  BY <1>1, RunnerStep, TokenDrawnKept DEF ActInv
<1>3. ActuationTypeOK'
  BY <1>2, ActTypeStep DEF RunnerInv
<1>4. OrderInv' /\ BuildInv'
  BY OrderStep, BuildStep
<1>5. ASSUME NEW d \in Call PROVE CallOwn(d)'
  <2>1. CallOwn(d) /\ ActuationTypeOK
    BY DEF ActInv, PreInv, ProcInv, MintedInv, CallOwn
  <2>2. ASSUME NEW c \in Call,
               \/ \E q \in IncomingArgs : Submit(c, q)
               \/ \E r : EnterOther(c, r)
               \/ CallStep(c)
               \/ ProcessEnds(c)
        PROVE  CallOwn(d)'
    BY <2>1, <2>2, OwnStep, OthersUntouched, UntouchedKeeps
  <2>3. ASSUME UNCHANGED allVars \/ \E o \in Order : Repoint(o) PROVE CallOwn(d)'
    <3>1. Untouched(d)
      BY <2>3 DEF Repoint, allVars, actVars, buildVars, procVars, vars, callVars,
                  historyVars, Untouched
    <3> QED
      BY <2>1, <3>1, UntouchedKeeps
  <2> QED
    BY <2>2, <2>3 DEF ActNext
<1>6. PreInv' /\ ProcInv' /\ MintedInv'
  BY <1>5 DEF CallOwn, PreInv, ProcInv, MintedInv
<1> QED
  BY <1>2, <1>3, <1>4, <1>6 DEF ActInv

(* The inductive invariant holds of the audited path with its adapters:    *)
(* run_action builds one request and run() gates that one.                 *)
THEOREM ActSafe == ActSpec => []ActInv
BY ActInitInv, ActStep, PTL DEF ActSpec

(* Type correctness of run_action, its adapters and their processes. *)
THEOREM ActTyped == ActSpec => []ActuationTypeOK
<1>1. ActInv => ActuationTypeOK
  BY DEF ActInv
<1> QED
  BY <1>1, ActSafe, PTL

(* A host is changed only by an approved real run of the command that was  *)
(* approved, on a host and a path the adapter may touch, and upgraded only *)
(* after a health check (actuation/*.py, runner.py steps 5 and 6).         *)
THEOREM HostsChangedAsApproved == ActSpec => []ChangedAsApproved
<1>1. ActInv => ChangedAsApproved
  <2> SUFFICES ASSUME ActInv, NEW c \in Call, Changes(c)
               PROVE  /\ ~ DryRun(c)
                      /\ Supports(c)
                      /\ /\ AttrOf(c).adapter = "talosctl"
                         /\ AttrOf(c).verb \in HEALTH_GATED_VERBS
                         => c \in probed
                      /\ \E o \in origin :
                            /\ o.token = nonce[c]
                            /\ o.session = args[c].session
                            /\ c \notin raced => o.binding = BindingOf(argv[c])
                      /\ Rooted(c) => \E p \in AttrOf(c).places :
                                          p.command = argv[c] /\ p.inside
    BY DEF ChangedAsApproved
  <2>1. PrePassed(c) /\ ProcessKept(c) /\ BuiltAsAsked(c)
    BY DEF ActInv, PreInv, ProcInv, BuildInv
  <2>2. built[c] = "entered" /\ (pc[c] = "execute" \/ c \in executed) /\ ~ Preview(c)
    BY <2>1 DEF Changes, ProcessKept
  <2>3. ~ DryRun(c)
    BY <2>2 DEF Changes, Preview
  <2>4. Supports(c) /\ (HealthGated(c) => c \in probed)
    BY <2>1, <2>2 DEF PrePassed
  <2>5. /\ AttrOf(c).adapter = "talosctl" /\ AttrOf(c).verb \in HEALTH_GATED_VERBS
        => c \in probed
    BY <2>3, <2>4 DEF HealthGated
  <2>6. /\ TierOf(c) >= 2 /\ Sess(c) = args[c].session /\ Real(c) /\ Confined(c)
        /\ c \notin raced => Act(c) = argv[c]
    BY <2>1, <2>2, <2>3, <2>4 DEF BuiltAsAsked, Real
  <2>7. c \in gated
    BY <2>2, <2>6 DEF ActInv, RunnerInv, GateInv, Cleared
  <2>8. \E o \in origin : /\ o.token = nonce[c]
                          /\ o.session = Sess(c)
                          /\ o.binding = BindingOf(Act(c))
    BY <2>2, <2>6, <2>7 DEF ActInv, RunnerInv, NonceInv, Cleared
  <2>9. \E o \in origin : /\ o.token = nonce[c]
                          /\ o.session = args[c].session
                          /\ c \notin raced => o.binding = BindingOf(argv[c])
    BY <2>6, <2>8
  <2>10. Rooted(c) => \E p \in AttrOf(c).places : p.command = argv[c] /\ p.inside
    BY <2>4, <2>6 DEF Confined
  <2> QED
    BY <2>3, <2>4, <2>5, <2>9, <2>10
<1> QED
  BY <1>1, ActSafe, PTL

(* An answered call has no process left that holds the server's pipes, and *)
(* "allowed" of a real run is an exit status of 0 (actuation/base.py).     *)
THEOREM AnsweredHasEnded == ActSpec => []AnsweredMeansEnded
<1>1. ActInv => AnsweredMeansEnded
  <2> SUFFICES ASSUME ActInv, NEW c \in Call, pc[c] \in {"audit", "reply", "done"},
                      built[c] = "entered"
               PROVE  /\ child[c] # "running" /\ kin[c] # "holding"
                      /\ outcome[c] = "allowed" /\ ~ DryRun(c) => child[c] = "exit0"
    BY DEF AnsweredMeansEnded
  <2>1. ProcessKept(c) /\ MintShown(c)
    BY DEF ActInv, ProcInv, MintedInv
  <2>2. CASE c \in executed
    BY <2>1, <2>2 DEF ProcessKept
  <2>3. CASE c \notin executed
    BY <2>1, <2>3 DEF ProcessKept, MintShown
  <2> QED
    BY <2>2, <2>3
<1> QED
  BY <1>1, ActSafe, PTL

(* A reply that says a token was minted is right, although it is worked    *)
(* out from the taint latch as it is after run() (tools/actuate.py).       *)
THEOREM AnnouncedIsMinted == ActSpec => []AnnouncedWasMinted
<1>1. ActInv => AnnouncedWasMinted
  <2> SUFFICES ASSUME ActInv, NEW c \in announced
               PROVE  MultiTargetT3(Act(c)) \/ nonce[c] # NoToken
    BY DEF AnnouncedWasMinted
  <2>1. c \in Call
    BY DEF ActInv, ActuationTypeOK
  <2> QED
    BY <2>1 DEF ActInv, MintedInv, MintShown
<1> QED
  BY <1>1, ActSafe, PTL

(* What the adapters do to the registry is what its own specification      *)
(* allows: a nonce is a nonce also where the approval names a command that *)
(* the path has since been pointed away from.                              *)
THEOREM AdaptersImplementRegistry == ActSpec => ApprovalsSpec /\ ImplementsNonce
<1>1. ActInit => ApprovalsInit
  BY TokenDrawnInit DEF ActInit
<1>2. ActInv /\ [ActNext]_allVars => [ApprovalsNext]_<<now, approvalVars>>
  BY ActIsPath, PathStepIsRegistryStep DEF ActInv
<1> QED
  BY <1>1, <1>2, ActSafe, RegistryImplementsNonce, PTL DEF ActSpec, ApprovalsSpec

(* What is proved of run() in RunnerProofs holds of it with the adapters   *)
(* composed in: their argv, preconditions and processes open no way around *)
(* the gate, the budget, the audit record or a stop.                       *)
THEOREM AdaptersKeepPath ==
    ActSpec => [](/\ ApprovedOnce /\ GatedWhereRequired /\ BudgetExact
                  /\ OneRecordPerRun /\ StopHolds)
<1>1. ActInv => RunnerInv
  BY DEF ActInv
<1> QED
  BY <1>1, RunnerImplies, ActSafe, PTL
(* With the adapters on the path calls still only go forward, whatever     *)
(* their children do, and the emergency stop is still reachable while      *)
(* actuations run, hang or are killed.                                     *)
THEOREM AdaptersKeepGoing ==
    ActSpec => [][ForwardStep]_vars /\ [][EmergencyStep]_vars
<1>1. ActInit => EstopInv
  BY EstopInit DEF ActInit
<1>2. ActInv /\ [ActNext]_allVars => RunnerInv /\ [PathNext]_vars
  BY ActIsPath DEF ActInv
<1>3. RunnerInv /\ [PathNext]_vars => [ForwardStep]_vars
  BY PathGoesForward DEF RunnerInv
<1>4. EmergencyStep => [EmergencyStep]_vars
  OBVIOUS
<1> QED
  BY <1>1, <1>2, <1>3, <1>4, EstopKept, ActSafe, PTL DEF ActSpec
=============================================================================
