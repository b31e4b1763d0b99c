---------------------------- MODULE RunnerProofs ----------------------------
(***************************************************************************)
(* Proofs about the audited path, for every set of calls, sessions and     *)
(* actions, every policy, every ceiling and every number of restarts.      *)
(*                                                                         *)
(* The properties of Runner.tla are about what executed; each is carried   *)
(* from the step of run() that decides it to execute() by a statement      *)
(* about the calls that have passed that step.                             *)
(***************************************************************************)
EXTENDS Runner, ApprovalsProofs, FiniteSetTheorems

(* The steps of a call that has not reached the gate. *)
Ungated == {"idle", "refused", "kill", "policy", "gate"}

(* The steps between the gate and execute(). *)
Cleared == {"pre", "charge", "execute"}

(* The steps after execute(), or after a refusal. *)
Ending == {"spend", "mint", "audit", "reply", "done", "lost"}

-----------------------------------------------------------------------------
(* What the step a call is at says about what it did.  A refused call is   *)
(* past every step that could execute it, and only a dry run mints.        *)
PhaseInv ==
    \A c \in Call :
        /\ c \in executed => pc[c] \in Ending /\ outcome[c] \in {"allowed", "error"}
        /\ outcome[c] = "denied" => pc[c] \in Ending
        /\ pc[c] \in Ungated => c \notin gated
        /\ pc[c] = "gate" => Allowed(Act(c))
        /\ pc[c] = "consume" => req[c].token # NoToken
        /\ pc[c] = "mint" => ~ Real(c)

(* The audit record is written at "audit", and nowhere else. *)
LogInv ==
    \A c \in Call :
        /\ log[c] <= 1
        /\ pc[c] \in {"reply", "done"} => log[c] = 1
        /\ pc[c] \notin {"reply", "done", "lost"} => log[c] = 0

(* A call past the gate that needed an approval was marked.  Whatever a    *)
(* session was handed armed its latch first, and nothing disarms it while  *)
(* a call that must see it is still before the gate.                       *)
GateInv ==
    /\ \A c \in Call :
          /\ pc[c] \in Cleared \cup {"consume"} \/ c \in executed =>
                (TierOf(c) >= 2 \/ (TierOf(c) >= 1 /\ c \in dirty) => c \in gated)
          /\ c \in dirty => pc[c] # "idle"
          /\ c \in dirty /\ pc[c] \in {"kill", "policy", "gate"} => Sess(c) \in tainted
          /\ Is(c, "ingest") /\ pc[c] \in Cleared \cup {"gate", "consume"} =>
                Sess(c) \in tainted
    /\ \A c \in carriers : c \in executed /\ Sess(c) \in tainted

(* A gated real run past the gate holds a nonce that a dry run of its      *)
(* session minted for its action.  The nonce of a real run is used, and no *)
(* other real run has it: a nonce still pending is nobody's.               *)
NonceInv ==
    /\ \A c \in Call :
          /\ (pc[c] \in Cleared \/ c \in executed) /\ c \in gated /\ Real(c) =>
                /\ nonce[c] # NoToken
                /\ \E o \in origin : /\ o.token = nonce[c]
                                     /\ o.session = Sess(c)
                                     /\ o.binding = BindingOf(Act(c))
          /\ pc[c] \in Ungated => nonce[c] = NoToken
          /\ Real(c) /\ nonce[c] # NoToken => uses[nonce[c]] > 0
    /\ \A c, d \in Call :
          c # d /\ Real(c) /\ Real(d) /\ nonce[c] # NoToken => nonce[c] # nonce[d]

(* The counter of a session is the number of its charged calls. *)
BudgetInv ==
    /\ IsFiniteSet(charged)
    /\ \A s \in Session :
          /\ actions[s] = Cardinality({c \in charged : Sess(c) = s})
          /\ MaxActions # NoLimit => actions[s] <= MaxActions
    /\ \A c \in charged : /\ pc[c] \in Ending \cup {"execute"}
                          /\ outcome[c] # "denied"
                          /\ Real(c) /\ TierOf(c) >= 1
    /\ \A c \in Call :
          (pc[c] = "execute" \/ c \in executed) /\ Real(c) /\ TierOf(c) >= 1 =>
              c \in charged \/ restarts > 0

(* A standing stop is seen by is_tripped, and a call that entered under it *)
(* gets no further than the kill switch.                                   *)
StopInv ==
    /\ stop => IsTripped
    /\ halted # {} => stop
    /\ \A c \in halted : /\ c \notin executed
                         /\ pc[c] \in {"kill", "audit", "reply", "done", "lost"}

-----------------------------------------------------------------------------
(* A call's request gives it a session, an action and a tier. *)
LEMMA RequestType ==
    ASSUME TypeOK, NEW c \in Call
    PROVE  /\ req[c] \in Request
           /\ Sess(c) \in Session
           /\ Act(c) \in Action
           /\ TierOf(c) \in Tier
           /\ Real(c) \in BOOLEAN
<1>1. req[c] \in Request
  BY DEF TypeOK
<1>2. Sess(c) \in Session /\ Act(c) \in Action /\ Real(c) \in BOOLEAN
  BY <1>1 DEF Request, Sess, Act, Real
<1>3. Attr[Act(c)] \in Attribute
  BY <1>2, PolicyAssumption
<1> QED
  BY <1>1, <1>2, <1>3 DEF TierOf, DecisionTier, Classify, Attribute, Tier

(* The steps of the path for any request that presents no token or a drawn *)
(* one, also one whose approval names another action than it runs.  The    *)
(* invariant does not depend on what a request's approval names, and       *)
(* module Actuation has requests for which the two differ.                 *)
PathNext ==
    \/ \E c \in Call, r \in Request : r.token <= minted /\ Enter(c, r)
    \/ \E c \in Call : RefuseToBuild(c)
    \/ \E c \in Call : RunStep(c)
    \/ OperateSwitch
    \/ OperateBroker
    \/ Restart
    \/ PassTime

(* A request a client can send is one of those. *)
LEMMA NextIsPath ==
    ASSUME ApprovalsTypeOK, [Next]_vars
    PROVE  [PathNext]_vars
<1>1. ASSUME NEW a \in Action, NEW r \in Incoming(a)
      PROVE  r \in Request /\ r.token <= minted
  <2>1. 0 .. minted \subseteq Token \cup {NoToken} /\ minted \in Nat
    BY ApprovalsAssumption DEF ApprovalsTypeOK, Token, NoToken
  <2>2. Redacts \subseteq BOOLEAN
    BY RunnerAssumption
  <2> QED
    BY <2>1, <2>2 DEF Incoming, Request
<1> QED
  BY <1>1 DEF Next, PathNext

(* The initial state is well typed. *)
LEMMA InitType == Init => TypeOK
<1> SUFFICES ASSUME Init PROVE TypeOK
  OBVIOUS
<1>1. ApprovalsTypeOK
  BY InitInv DEF Init, ApprovalsInv
<1>2. NoRequest \in Request
  <2>1. PICK s \in Session, a \in Action : TRUE
    BY RunnerAssumption
  <2>2. [session |-> s, action |-> a, dry_run |-> TRUE, token |-> NoToken,
         redacts |-> TRUE, scoped |-> TRUE, bound |-> a] \in Request
    BY DEF Request
  <2> QED
    BY <2>2 DEF NoRequest
<1>3. BudgetTypeOK /\ KillSwitchTypeOK /\ CredentialsTypeOK
  BY DEF Init, BudgetInit, BudgetTypeOK, KillSwitchInit, KillSwitchTypeOK,
         SentinelState, CredentialsInit, CredentialsTypeOK
<1> QED
  BY <1>1, <1>2, <1>3 DEF Init, TypeOK, Step, Outcome

(* Every step of the path uses the registry as the registry allows: it     *)
(* mints for an action it runs, and presents a token with its session.     *)
LEMMA RegistryStep ==
    ASSUME TypeOK, PhaseInv, ApprovalsInv, [PathNext]_vars
    PROVE  ApprovalsInv'
<1>0. /\ now \in Nat
      /\ pending \in [Session -> SUBSET PendingApproval]
      /\ consumed \in [Session -> SUBSET [token : Token, expires_at : Nat]]
  BY DEF ApprovalsInv, ApprovalsTypeOK
<1>1. ASSUME UNCHANGED <<now, approvalVars>> PROVE ApprovalsInv'
  BY <1>0, <1>1, ShrinkInv DEF approvalVars
<1>2. ASSUME NEW c \in Call, Consume(c) PROVE ApprovalsInv'
  <2>1. Sess(c) \in Session /\ BindingOf(Act(c)) \in Binding
    BY RequestType, BindingType
  <2>2. ApprovalOf(c) \in Approval
    BY <1>2, RequestType DEF Consume, PhaseInv, Request, ApprovalOf, Approval
  <2>3. CASE ConsumeOK(Sess(c), ApprovalOf(c), BindingOf(Act(c)))
    BY <1>2, <2>1, <2>2, <2>3, ConsumeInv DEF Consume
  <2>4. CASE ConsumeRefused(Sess(c), ApprovalOf(c), BindingOf(Act(c)))
    <3>1. AfterRefusal(Sess(c), ApprovalOf(c), BindingOf(Act(c)))
            \subseteq pending[Sess(c)]
      BY DEF AfterRefusal
    <3>2. /\ pending' \in [Session -> SUBSET PendingApproval]
          /\ \A r \in Session : pending'[r] \subseteq pending[r]
          /\ UNCHANGED <<now, consumed, minted, origin, uses, burns>>
      BY <1>0, <1>2, <2>1, <2>4, <3>1 DEF ConsumeRefused, Consume
    <3> QED
      BY <1>0, <3>2, ShrinkInv
  <2> QED
    BY <1>2, <2>3, <2>4 DEF Consume
<1>3. ASSUME NEW c \in Call, MintNonce(c) PROVE ApprovalsInv'
  BY <1>3, RequestType, BindingType, MintInv DEF MintNonce
<1>4. ASSUME Restart PROVE ApprovalsInv'
  BY <1>0, <1>4, ShrinkInv DEF Restart, ForgetApprovals
<1>5. ASSUME PassTime PROVE ApprovalsInv'
  BY <1>0, <1>5, ShrinkInv DEF PassTime, Tick, approvalVars
<1>6. ASSUME NEW c \in Call, RunStep(c) PROVE ApprovalsInv'
  BY <1>1, <1>2, <1>3, <1>6
    DEF RunStep, CheckKill, CheckPolicy, Gate, CheckPre, ChargeBudget,
        Execute, Spend, Audit, Reply, shared
<1> QED
  BY <1>1, <1>4, <1>5, <1>6
    DEF PathNext, Enter, RefuseToBuild, OperateSwitch, OperateBroker, shared, vars

(* Every step of the path keeps the state well typed. *)
LEMMA TypeStep ==
    ASSUME TypeOK, ApprovalsTypeOK', [PathNext]_vars
    PROVE  TypeOK'
<1> USE DEF TypeOK, approvalVars, budgetVars, killVars, shared, callVars,
            historyVars, Goto, Deny, Step, Outcome
<1>1. ASSUME NEW c \in Call, NEW r \in Request, r.token <= minted, Enter(c, r)
      PROVE  TypeOK'
  BY <1>1 DEF Enter, BudgetTypeOK, KillSwitchTypeOK, CredentialsTypeOK
<1>2. ASSUME NEW c \in Call,
             \/ RefuseToBuild(c) \/ CheckKill(c) \/ Gate(c) \/ CheckPre(c)
             \/ Audit(c) \/ Reply(c)
      PROVE  TypeOK'
  BY <1>2 DEF RefuseToBuild, CheckKill, Gate, CheckPre, Audit, Reply,
              BudgetTypeOK, KillSwitchTypeOK, CredentialsTypeOK
<1>3. ASSUME NEW c \in Call, CheckPolicy(c) PROVE TypeOK'
  BY <1>3, RequestType
    DEF CheckPolicy, BudgetTypeOK, KillSwitchTypeOK, CredentialsTypeOK
<1>4. ASSUME NEW c \in Call, Consume(c) PROVE TypeOK'
  <2>1. req[c].token \in Token \cup {NoToken}
    BY RequestType DEF Request
  <2> QED
    BY <1>4, <2>1
      DEF Consume, BudgetTypeOK, KillSwitchTypeOK, CredentialsTypeOK
<1>5. ASSUME NEW c \in Call, ChargeBudget(c) PROVE TypeOK'
  <2>1. BudgetTypeOK'
    BY <1>5, RequestType DEF ChargeBudget, Charge, BudgetTypeOK
  <2> QED
    BY <1>5, <2>1 DEF ChargeBudget, KillSwitchTypeOK, CredentialsTypeOK
<1>6. ASSUME NEW c \in Call, Execute(c) PROVE TypeOK'
  <2>1. KillSwitchTypeOK'
    BY <1>6 DEF Execute, Trip, KillSwitchTypeOK, SentinelState
  <2>2. stop' \in BOOLEAN
    BY <1>6 DEF Execute
  <2> QED
    BY <1>6, <2>1, <2>2, RequestType DEF Execute, BudgetTypeOK, CredentialsTypeOK
<1>7. ASSUME NEW c \in Call, Spend(c) PROVE TypeOK'
  <2>1. BudgetTypeOK'
    BY <1>7, RequestType, BudgetAssumption DEF Spend, RecordSpend, BudgetTypeOK
  <2> QED
    BY <1>7, <2>1 DEF Spend, KillSwitchTypeOK, CredentialsTypeOK
<1>8. ASSUME NEW c \in Call, MintNonce(c) PROVE TypeOK'
  <2>1. minted' \in Token
    BY <1>8, ApprovalsAssumption DEF MintNonce, Mint, Token, ApprovalsTypeOK
  <2> QED
    BY <1>8, <2>1
      DEF MintNonce, BudgetTypeOK, KillSwitchTypeOK, CredentialsTypeOK
<1>9. ASSUME OperateSwitch PROVE TypeOK'
  <2>1. KillSwitchTypeOK'
    BY <1>9 DEF OperateSwitch, Reset, SetSentinel, KillSwitchTypeOK
  <2>2. stop' \in BOOLEAN
    BY <1>9 DEF OperateSwitch
  <2> QED
    BY <1>9, <2>1, <2>2 DEF OperateSwitch, BudgetTypeOK, CredentialsTypeOK
<1>10. ASSUME OperateBroker PROVE TypeOK'
  <2>1. KillSwitchTypeOK' /\ stop' \in BOOLEAN
    BY <1>10 DEF OperateBroker, Trip, KillSwitchTypeOK, SentinelState
  <2>2. CredentialsTypeOK'
    BY <1>10 DEF OperateBroker, Grant, Revoke, RevokeAll, CredentialsTypeOK
  <2> QED
    BY <1>10, <2>1, <2>2 DEF OperateBroker, BudgetTypeOK
<1>11. ASSUME Restart PROVE TypeOK'
  <2>1. KillSwitchTypeOK'
    BY <1>11 DEF Restart, RestartSwitch, KillSwitchTypeOK
  <2>3. restarts' \in Nat
    BY <1>11 DEF Restart
  <2>4. stop' \in BOOLEAN
    BY <1>11 DEF Restart
  <2>2. BudgetTypeOK' /\ CredentialsTypeOK'
    BY <1>11 DEF Restart, ForgetBudgets, ForgetGrants, BudgetTypeOK,
                 CredentialsTypeOK
  <2> QED
    BY <1>11, <2>1, <2>2, <2>3, <2>4 DEF Restart
<1>12. ASSUME PassTime \/ UNCHANGED vars PROVE TypeOK'
  BY <1>12
    DEF PassTime, vars, BudgetTypeOK, KillSwitchTypeOK, CredentialsTypeOK
<1> QED
  BY <1>1, <1>2, <1>3, <1>4, <1>5, <1>6, <1>7, <1>8, <1>9, <1>10, <1>11, <1>12
    DEF PathNext, RunStep

-----------------------------------------------------------------------------
(* What a call's step says of it is kept by every step. *)
LEMMA PhaseStep ==
    ASSUME TypeOK, PhaseInv, [PathNext]_vars
    PROVE  PhaseInv'
<1> USE DEF TypeOK, PhaseInv, callVars, historyVars, Goto, Deny, Ungated,
            Ending, Act, Real, Step
<1>1. ASSUME NEW c \in Call, NEW r \in Request, r.token <= minted, Enter(c, r)
      PROVE  PhaseInv'
  BY <1>1 DEF Enter
<1>2. ASSUME NEW c \in Call, RefuseToBuild(c) \/ CheckKill(c) PROVE PhaseInv'
  BY <1>2 DEF RefuseToBuild, CheckKill
<1>3. ASSUME NEW c \in Call, CheckPolicy(c) PROVE PhaseInv'
  BY <1>3 DEF CheckPolicy
<1>4. ASSUME NEW c \in Call, Gate(c) PROVE PhaseInv'
  BY <1>4 DEF Gate
<1>5. ASSUME NEW c \in Call, Consume(c) PROVE PhaseInv'
  BY <1>5 DEF Consume
<1>6. ASSUME NEW c \in Call, CheckPre(c) PROVE PhaseInv'
  BY <1>6 DEF CheckPre
<1>7. ASSUME NEW c \in Call, ChargeBudget(c) PROVE PhaseInv'
  BY <1>7 DEF ChargeBudget
<1>8. ASSUME NEW c \in Call, Execute(c) PROVE PhaseInv'
  BY <1>8 DEF Execute
<1>9. ASSUME NEW c \in Call, Spend(c) PROVE PhaseInv'
  BY <1>9 DEF Spend
<1>10. ASSUME NEW c \in Call, MintNonce(c) PROVE PhaseInv'
  BY <1>10 DEF MintNonce
<1>11. ASSUME NEW c \in Call, Audit(c) \/ Reply(c) PROVE PhaseInv'
  BY <1>11 DEF Audit, Reply
<1>12. ASSUME Restart PROVE PhaseInv'
  BY <1>12 DEF Restart, InFlight
<1>13. ASSUME OperateSwitch \/ OperateBroker \/ PassTime \/ UNCHANGED vars
       PROVE  PhaseInv'
  BY <1>13 DEF OperateSwitch, OperateBroker, PassTime, vars
<1> QED
  BY <1>1, <1>2, <1>3, <1>4, <1>5, <1>6, <1>7, <1>8, <1>9, <1>10, <1>11,
     <1>12, <1>13 DEF PathNext, RunStep

(* Only the "audit" step writes a record, and a call takes it once. *)
LEMMA LogStep ==
    ASSUME TypeOK, LogInv, [PathNext]_vars
    PROVE  LogInv'
<1> USE DEF TypeOK, LogInv, callVars, historyVars, Goto, Deny, Step
<1>1. ASSUME NEW c \in Call, NEW r \in Request, r.token <= minted, Enter(c, r)
      PROVE  LogInv'
  BY <1>1 DEF Enter
<1>2. ASSUME NEW c \in Call, RefuseToBuild(c) PROVE LogInv'
  BY <1>2 DEF RefuseToBuild
<1>3. ASSUME NEW c \in Call, Audit(c) PROVE LogInv'
  BY <1>3 DEF Audit
<1>4. ASSUME NEW c \in Call, Reply(c) PROVE LogInv'
  BY <1>4 DEF Reply
<1>5. ASSUME NEW c \in Call, CheckKill(c) \/ CheckPolicy(c) \/ Gate(c) \/ Consume(c)
      PROVE  LogInv'
  BY <1>5 DEF CheckKill, CheckPolicy, Gate, Consume
<1>6. ASSUME NEW c \in Call,
             \/ CheckPre(c) \/ ChargeBudget(c) \/ Execute(c) \/ Spend(c)
             \/ MintNonce(c)
      PROVE  LogInv'
  BY <1>6 DEF CheckPre, ChargeBudget, Execute, Spend, MintNonce
<1>7. ASSUME Restart PROVE LogInv'
  BY <1>7 DEF Restart, InFlight
<1>8. ASSUME OperateSwitch \/ OperateBroker \/ PassTime \/ UNCHANGED vars
      PROVE  LogInv'
  BY <1>8 DEF OperateSwitch, OperateBroker, PassTime, vars
<1> QED
  BY <1>1, <1>2, <1>3, <1>4, <1>5, <1>6, <1>7, <1>8 DEF PathNext, RunStep

(* A stop is seen until it is lifted, and halts what enters under it. *)
LEMMA StopStep ==
    ASSUME TypeOK, PhaseInv, StopInv, [PathNext]_vars
    PROVE  StopInv'
<1> USE DEF TypeOK, StopInv, IsTripped, killVars, callVars, historyVars,
            shared, Goto, Deny, Step
<1>1. ASSUME NEW c \in Call, NEW r \in Request, r.token <= minted, Enter(c, r)
      PROVE  StopInv'
  <2>1. c \notin executed
    BY <1>1 DEF Enter, PhaseInv, Ending
  <2> QED
    BY <1>1, <2>1 DEF Enter
<1>2. ASSUME NEW c \in Call, RefuseToBuild(c) \/ CheckKill(c) PROVE StopInv'
  BY <1>2 DEF RefuseToBuild, CheckKill
<1>3. ASSUME NEW c \in Call, CheckPolicy(c) \/ Gate(c) \/ Consume(c)
      PROVE  StopInv'
  BY <1>3 DEF CheckPolicy, Gate, Consume
<1>4. ASSUME NEW c \in Call, CheckPre(c) \/ ChargeBudget(c) \/ Spend(c)
      PROVE  StopInv'
  BY <1>4 DEF CheckPre, ChargeBudget, Spend
<1>5. ASSUME NEW c \in Call, MintNonce(c) \/ Audit(c) \/ Reply(c)
      PROVE  StopInv'
  BY <1>5 DEF MintNonce, Audit, Reply
<1>6. ASSUME NEW c \in Call, Execute(c) PROVE StopInv'
  <2>1. c \notin halted
    BY <1>6 DEF Execute
  <2>2. stop' => IsTripped'
    BY <1>6 DEF Execute, Trip
  <2>3. halted' # {} => stop'
    BY <1>6 DEF Execute
  <2> QED
    BY <1>6, <2>1, <2>2, <2>3 DEF Execute
<1>7. ASSUME OperateSwitch PROVE StopInv'
  BY <1>7 DEF OperateSwitch
<1>8. ASSUME OperateBroker PROVE StopInv'
  BY <1>8 DEF OperateBroker, Trip
<1>9. ASSUME Restart PROVE StopInv'
  BY <1>9 DEF Restart, RestartSwitch, InFlight
<1>10. ASSUME PassTime \/ UNCHANGED vars PROVE StopInv'
  BY <1>10 DEF PassTime, vars
<1> QED
  BY <1>1, <1>2, <1>3, <1>4, <1>5, <1>6, <1>7, <1>8, <1>9, <1>10
    DEF PathNext, RunStep

-----------------------------------------------------------------------------
(* What gate_required must hold for: an allowed action is not denied, so   *)
(* its decision's tier is its class.                                       *)
LEMMA GateCovers ==
    ASSUME TypeOK, NEW c \in Call, Allowed(Act(c)),
           TierOf(c) >= 2 \/ (TierOf(c) >= 1 /\ Sess(c) \in tainted)
    PROVE  GateRequired(c)
<1>1. TierOf(c) = Classify(Act(c))
  BY DEF TierOf, DecisionTier, Allowed
<1>2. TierOf(c) \in Tier
  BY RequestType
<1> QED
  BY <1>1, <1>2 DEF GateRequired, RequiresApproval

(* A call that must be gated is marked at the gate, and stays marked. *)
LEMMA GateStep ==
    ASSUME TypeOK, PhaseInv, GateInv, [PathNext]_vars
    PROVE  GateInv'
<1> USE DEF TypeOK, GateInv, callVars, historyVars, shared, Goto, Deny, Cleared,
            Sess, Act, TierOf, Is, Step
<1>1. ASSUME NEW c \in Call, NEW r \in Request, r.token <= minted, Enter(c, r)
      PROVE  GateInv'
  <2>1. c \notin executed /\ c \notin carriers /\ c \notin dirty
    BY <1>1 DEF Enter, PhaseInv, Ending
  <2>2. Delivered(r.session) => r.session \in tainted
    BY DEF Delivered
  <2>3. /\ pc' = [pc EXCEPT ![c] = "kill"]
        /\ req' = [req EXCEPT ![c] = r]
        /\ dirty' = IF Delivered(r.session) THEN dirty \cup {c} ELSE dirty
        /\ UNCHANGED <<executed, gated, tainted, carriers>>
    BY <1>1 DEF Enter
  <2> HIDE DEF TierOf, Is
  <2>4. ASSUME NEW d \in Call, d # c
        PROVE  /\ pc'[d] = pc[d] /\ req'[d] = req[d]
               /\ d \in dirty' <=> d \in dirty
               /\ TierOf(d)' = TierOf(d) /\ Is(d, "ingest")' = Is(d, "ingest")
    BY <2>3, <2>4 DEF TierOf, Is
  <2>5. pc'[c] = "kill" /\ req'[c] = r
    BY <2>3
  <2> QED
    BY <2>1, <2>2, <2>3, <2>4, <2>5
<1>2. ASSUME NEW c \in Call, RefuseToBuild(c) \/ CheckKill(c) PROVE GateInv'
  BY <1>2 DEF RefuseToBuild, CheckKill, PhaseInv, Ending
<1>3. ASSUME NEW c \in Call, CheckPolicy(c) PROVE GateInv'
  BY <1>3 DEF CheckPolicy, PhaseInv, Ending
<1>4. ASSUME NEW c \in Call, Gate(c) PROVE GateInv'
  <2>1. Allowed(Act(c)) /\ c \notin executed
    BY <1>4 DEF Gate, PhaseInv, Ending
  <2>2. TierOf(c) >= 2 \/ (TierOf(c) >= 1 /\ c \in dirty) => c \in gated'
    BY <1>4, <2>1, GateCovers DEF Gate
  <2> QED
    BY <1>4, <2>1, <2>2 DEF Gate
<1>5. ASSUME NEW c \in Call, Consume(c) PROVE GateInv'
  BY <1>5 DEF Consume, PhaseInv, Ending
<1>6. ASSUME NEW c \in Call, CheckPre(c) \/ ChargeBudget(c) PROVE GateInv'
  BY <1>6 DEF CheckPre, ChargeBudget, PhaseInv, Ending
<1>7. ASSUME NEW c \in Call, Execute(c) PROVE GateInv'
  BY <1>7 DEF Execute
<1>8. ASSUME NEW c \in Call, Spend(c) \/ MintNonce(c) \/ Audit(c) \/ Reply(c)
      PROVE  GateInv'
  BY <1>8 DEF Spend, MintNonce, Audit, Reply
<1>9. ASSUME Restart PROVE GateInv'
  BY <1>9 DEF Restart, InFlight
<1>10. ASSUME OperateSwitch \/ OperateBroker \/ PassTime \/ UNCHANGED vars
       PROVE  GateInv'
  BY <1>10 DEF OperateSwitch, OperateBroker, PassTime, vars
<1> QED
  BY <1>1, <1>2, <1>3, <1>4, <1>5, <1>6, <1>7, <1>8, <1>9, <1>10
    DEF PathNext, RunStep

-----------------------------------------------------------------------------
(* A successful consume gives the call a nonce that was minted for it and  *)
(* that no real run had: it was pending, so it was unused.                 *)
LEMMA ConsumedIsNew ==
    ASSUME ApprovalsInv,
           NEW s \in Session, NEW b \in Binding, NEW a \in Approval,
           ConsumeOK(s, a, b)
    PROVE  /\ uses[a.token] = 0
           /\ uses' = [uses EXCEPT ![a.token] = 1]
           /\ \E o \in origin' : /\ o.token = a.token
                                 /\ o.session = s
                                 /\ o.binding = b
<1>1. PICK p \in pending[s] : p.token = a.token /\ p.binding = b
  BY DEF ConsumeOK, Valid, Found
<1>2. uses[a.token] = 0
  BY <1>1 DEF ApprovalsInv, PendingUnused
<1>3. [token |-> p.token, session |-> s, binding |-> p.binding,
       expires_at |-> p.expires_at] \in origin
  BY DEF ApprovalsInv, PendingIsOwn
<1>4. origin' = origin /\ uses' = [uses EXCEPT ![a.token] = uses[a.token] + 1]
  BY DEF ConsumeOK
<1> QED
  BY <1>1, <1>2, <1>3, <1>4

(* A real run gets its nonce from consume alone, and keeps it. *)
LEMMA NonceStep ==
    ASSUME TypeOK, ApprovalsInv, PhaseInv, NonceInv, [PathNext]_vars
    PROVE  NonceInv'
<1> USE DEF TypeOK, NonceInv, callVars, historyVars, shared, approvalVars,
            Goto, Deny, Cleared, Ungated, Sess, Act, Real, Step
<1>1. ASSUME NEW c \in Call, NEW r \in Request, r.token <= minted, Enter(c, r)
      PROVE  NonceInv'
  <2>1. c \notin executed /\ c \notin gated /\ nonce[c] = NoToken
    BY <1>1 DEF Enter, PhaseInv, Ending
  <2>2. /\ pc' = [pc EXCEPT ![c] = "kill"]
        /\ req' = [req EXCEPT ![c] = r]
        /\ UNCHANGED <<executed, gated, nonce, origin, uses>>
    BY <1>1 DEF Enter
  <2>3. \A d \in Call : d # c => pc'[d] = pc[d] /\ req'[d] = req[d]
    BY <2>2
  <2>4. pc'[c] = "kill" /\ nonce'[c] = NoToken
    BY <2>1, <2>2
  <2>5. \A d \in Call : nonce[d] # NoToken => d # c
    BY <2>1
  <2> QED
    BY <2>1, <2>2, <2>3, <2>4, <2>5
<1>2. ASSUME NEW c \in Call, RefuseToBuild(c) \/ CheckKill(c) \/ CheckPolicy(c)
      PROVE  NonceInv'
  BY <1>2 DEF RefuseToBuild, CheckKill, CheckPolicy, PhaseInv, Ending
<1>3. ASSUME NEW c \in Call, Gate(c) PROVE NonceInv'
  <2>1. c \notin executed /\ c \notin gated
    BY <1>3 DEF Gate, PhaseInv, Ending
  <2> QED
    BY <1>3, <2>1 DEF Gate
<1>4. ASSUME NEW c \in Call, Consume(c) PROVE NonceInv'
  <2>1. c \notin executed
    BY <1>4 DEF Consume, PhaseInv, Ending
  <2>2. Sess(c) \in Session /\ BindingOf(Act(c)) \in Binding
    BY RequestType, BindingType
  <2>3. ApprovalOf(c) \in Approval /\ ApprovalOf(c).token = req[c].token
        /\ req[c].token \in Token /\ req[c].token # NoToken
    BY <1>4, RequestType DEF Consume, PhaseInv, Request, ApprovalOf, Approval
  <2>4. CASE ConsumeRefused(Sess(c), ApprovalOf(c), BindingOf(Act(c))) /\ Deny(c)
             /\ UNCHANGED nonce
    BY <1>4, <2>1, <2>4 DEF Consume, ConsumeRefused
  <2>5. CASE /\ ConsumeOK(Sess(c), ApprovalOf(c), BindingOf(Act(c)))
             /\ nonce' = [nonce EXCEPT ![c] = req[c].token]
             /\ Goto(c, "pre")
    <3> DEFINE t == req[c].token
    <3>1. /\ uses[t] = 0
          /\ uses' = [uses EXCEPT ![t] = 1]
          /\ \E o \in origin' : /\ o.token = t
                                /\ o.session = Sess(c)
                                /\ o.binding = BindingOf(Act(c))
      BY <2>2, <2>3, <2>5, ConsumedIsNew
    <3>2. UNCHANGED <<req, gated, executed, origin>>
      BY <1>4, <2>5 DEF Consume, ConsumeOK
    <3>3. /\ uses \in [Token -> Nat] /\ nonce \in [Call -> Token \cup {NoToken}]
      BY DEF ApprovalsTypeOK
    <3>4. \A d \in Call : Real(d) => nonce[d] # t
      BY <2>3, <3>1
    <3>5. \A d \in Call : d # c => nonce'[d] = nonce[d] /\ pc'[d] = pc[d]
      BY <2>5
    <3>6. nonce'[c] = t /\ pc'[c] = "pre" /\ uses'[t] = 1
      BY <2>3, <2>5, <3>1, <3>3
    <3>7. \A d \in Call : Real(d) /\ nonce'[d] # NoToken => uses'[nonce'[d]] > 0
      BY <3>1, <3>3, <3>4, <3>5, <3>6
    <3>8. \A d, e \in Call :
              d # e /\ Real(d) /\ Real(e) /\ nonce'[d] # NoToken
                  => nonce'[d] # nonce'[e]
      BY <2>3, <3>4, <3>5, <3>6
    <3> HIDE DEF t
    <3>9. /\ nonce'[c] # NoToken
          /\ \E o \in origin' : /\ o.token = nonce'[c]
                                /\ o.session = Sess(c)
                                /\ o.binding = BindingOf(Act(c))
      BY <2>3, <3>1, <3>6 DEF t
    <3> QED
      BY <3>2, <3>5, <3>6, <3>7, <3>8, <3>9
  <2> QED
    BY <1>4, <2>4, <2>5 DEF Consume
<1>5. ASSUME NEW c \in Call, CheckPre(c) \/ ChargeBudget(c) \/ Execute(c)
      PROVE  NonceInv'
  BY <1>5 DEF CheckPre, ChargeBudget, Execute, PhaseInv, Ending
<1>6. ASSUME NEW c \in Call, Spend(c) \/ Audit(c) \/ Reply(c)
      PROVE  NonceInv'
  BY <1>6 DEF Spend, Audit, Reply
<1>7. ASSUME NEW c \in Call, MintNonce(c) PROVE NonceInv'
  <2>1. ~ Real(c)
    BY <1>7 DEF MintNonce, PhaseInv
  <2>2. /\ origin \subseteq origin'
        /\ UNCHANGED <<uses, req, gated, executed>>
        /\ nonce' = [nonce EXCEPT ![c] = minted']
        /\ pc' = [pc EXCEPT ![c] = "audit"]
    BY <1>7 DEF MintNonce, Mint
  <2> QED
    BY <2>1, <2>2
<1>8. ASSUME Restart PROVE NonceInv'
  BY <1>8 DEF Restart, InFlight, ForgetApprovals
<1>9. ASSUME OperateSwitch \/ OperateBroker \/ PassTime \/ UNCHANGED vars
      PROVE  NonceInv'
  BY <1>9 DEF OperateSwitch, OperateBroker, PassTime, vars
<1> QED
  BY <1>1, <1>2, <1>3, <1>4, <1>5, <1>6, <1>7, <1>8, <1>9
    DEF PathNext, RunStep

-----------------------------------------------------------------------------
(* A step that moves one call, charges nothing and refuses no charged call *)
(* keeps the budget's invariant.                                           *)
LEMMA UnchargedInv ==
    ASSUME BudgetInv,
           UNCHANGED <<req, charged, actions, restarts>>,
           \A c \in charged : /\ pc'[c] \in Ending \cup {"execute"}
                              /\ outcome'[c] # "denied",
           \A c \in Call : pc'[c] = "execute" \/ c \in executed' =>
               \/ pc[c] = "execute" \/ c \in executed
               \/ ~ Real(c) \/ ~ (TierOf(c) >= 1)
    PROVE  BudgetInv'
BY DEF BudgetInv, Sess, Real, TierOf, Act

(* The counter follows the set of charged calls, and neither passes the    *)
(* ceiling.                                                                *)
LEMMA BudgetStep ==
    ASSUME TypeOK, PhaseInv, BudgetInv, [PathNext]_vars
    PROVE  BudgetInv'
<1> USE DEF TypeOK, callVars, historyVars, shared, budgetVars, Goto, Deny, Ending
<1>1. ASSUME NEW c \in Call, NEW r \in Request, r.token <= minted, Enter(c, r)
      PROVE  BudgetInv'
  <2>1. c \notin executed /\ c \notin charged
    BY <1>1 DEF Enter, PhaseInv, BudgetInv
  <2>2. /\ pc' = [pc EXCEPT ![c] = "kill"]
        /\ req' = [req EXCEPT ![c] = r]
        /\ UNCHANGED <<executed, charged, outcome, actions, restarts>>
    BY <1>1 DEF Enter
  <2>3. \A d \in Call : d # c => pc'[d] = pc[d] /\ req'[d] = req[d]
    BY <2>2
  <2>4. \A s \in Session : {d \in charged' : Sess(d)' = s}
                            = {d \in charged : Sess(d) = s}
    BY <2>1, <2>2, <2>3 DEF Sess
  <2>5. pc'[c] = "kill"
    BY <2>2
  <2>6. \A d \in Call : d # c => Real(d)' = Real(d) /\ TierOf(d)' = TierOf(d)
    BY <2>3 DEF Real, TierOf, Act
  <2>7. \A s \in Session : /\ actions'[s] = Cardinality({d \in charged' : Sess(d)' = s})
                           /\ MaxActions # NoLimit => actions'[s] <= MaxActions
    BY <2>2, <2>4 DEF BudgetInv
  <2> HIDE DEF Ending
  <2>8. \A d \in charged' : /\ pc'[d] \in Ending \cup {"execute"}
                            /\ outcome'[d] # "denied"
                            /\ Real(d)' /\ TierOf(d)' >= 1
    BY <2>1, <2>2, <2>3, <2>6 DEF BudgetInv
  <2>9. \A d \in Call :
            (pc'[d] = "execute" \/ d \in executed') /\ Real(d)' /\ TierOf(d)' >= 1
                => d \in charged' \/ restarts' > 0
    BY <2>1, <2>2, <2>3, <2>5, <2>6 DEF BudgetInv
  <2> QED
    BY <2>2, <2>7, <2>8, <2>9 DEF BudgetInv
<1>2. ASSUME NEW c \in Call,
             RefuseToBuild(c) \/ CheckKill(c) \/ CheckPolicy(c) \/ Gate(c)
      PROVE  BudgetInv'
  <2>1. c \notin charged
    BY <1>2 DEF RefuseToBuild, CheckKill, CheckPolicy, Gate, BudgetInv
  <2> QED
    BY <1>2, <2>1, UnchargedInv
      DEF RefuseToBuild, CheckKill, CheckPolicy, Gate, BudgetInv
<1>3. ASSUME NEW c \in Call, Consume(c) \/ CheckPre(c) PROVE BudgetInv'
  <2>1. c \notin charged
    BY <1>3 DEF Consume, CheckPre, BudgetInv
  <2> QED
    BY <1>3, <2>1, UnchargedInv DEF Consume, CheckPre, BudgetInv
<1>4. ASSUME NEW c \in Call, ChargeBudget(c) PROVE BudgetInv'
  <2>1. c \notin charged /\ c \notin executed
    BY <1>4 DEF ChargeBudget, BudgetInv, PhaseInv
  <2>2. CASE UNCHANGED <<actions, charged>>
    <3>1. pc'[c] = "execute" => ~ Real(c) \/ ~ (TierOf(c) >= 1)
      BY <1>4, <2>1, <2>2 DEF ChargeBudget
    <3> QED
      BY <1>4, <2>1, <2>2, <3>1, UnchargedInv DEF ChargeBudget, BudgetInv
  <2>3. CASE /\ TierOf(c) >= 1 /\ Real(c)
             /\ Charge(Sess(c))
             /\ charged' = charged \cup {c}
             /\ pc' = [pc EXCEPT ![c] = "execute"]
             /\ UNCHANGED outcome
    <3> DEFINE Mine(s) == {d \in charged : Sess(d) = s}
    <3>1. UNCHANGED <<req, executed, restarts>>
      BY <1>4 DEF ChargeBudget
    <3>2. \A s \in Session :
              {d \in charged' : Sess(d)' = s} =
                  IF s = Sess(c) THEN Mine(s) \cup {c} ELSE Mine(s)
      BY <2>3, <3>1 DEF Sess
    <3>3. \A s \in Session : IsFiniteSet(Mine(s)) /\ c \notin Mine(s)
      BY <2>1, FS_Subset DEF BudgetInv
    <3>4. Sess(c) \in Session
      BY RequestType
    <3>5. Cardinality(Mine(Sess(c)) \cup {c}) = Cardinality(Mine(Sess(c))) + 1
      BY <3>3, <3>4, FS_AddElement
    <3>6. /\ actions' = [actions EXCEPT ![Sess(c)] = @ + 1]
          /\ MaxActions # NoLimit => actions[Sess(c)] + 1 <= MaxActions
      BY <2>3 DEF Charge, Affordable
    <3>7. \A s \in Session : actions[s] = Cardinality(Mine(s))
      BY DEF BudgetInv
    <3>8. \A s \in Session :
              /\ actions'[s] = Cardinality({d \in charged' : Sess(d)' = s})
              /\ MaxActions # NoLimit => actions'[s] <= MaxActions
      BY <3>2, <3>4, <3>5, <3>6, <3>7 DEF BudgetInv, BudgetTypeOK
    <3>9. IsFiniteSet(charged')
      BY <2>3, FS_AddElement DEF BudgetInv
    <3>10. outcome[c] # "denied"
      BY <1>4 DEF ChargeBudget, PhaseInv
    <3> QED
      BY <2>3, <3>1, <3>8, <3>9, <3>10 DEF BudgetInv, Real, TierOf, Act
  <2> QED
    BY <1>4, <2>2, <2>3 DEF ChargeBudget
<1>5. ASSUME NEW c \in Call, Execute(c) PROVE BudgetInv'
  BY <1>5, UnchargedInv DEF Execute, BudgetInv
<1>6. ASSUME NEW c \in Call, Spend(c) \/ MintNonce(c) \/ Audit(c) \/ Reply(c)
      PROVE  BudgetInv'
  BY <1>6, UnchargedInv DEF Spend, RecordSpend, MintNonce, Audit, Reply, BudgetInv
<1>7. ASSUME Restart PROVE BudgetInv'
  <2>1. \A s \in Session : {c \in charged' : Sess(c)' = s} = {}
    BY <1>7 DEF Restart
  <2>2. /\ IsFiniteSet(charged')
        /\ \A s \in Session :
              actions'[s] = Cardinality({c \in charged' : Sess(c)' = s})
    BY <1>7, <2>1, FS_EmptySet DEF Restart, ForgetBudgets
  <2>3. MaxActions # NoLimit => MaxActions >= 0
    BY BudgetAssumption
  <2>4. \A s \in Session : MaxActions # NoLimit => actions'[s] <= MaxActions
    BY <1>7, <2>3, BudgetAssumption DEF Restart, ForgetBudgets
  <2>5. restarts' > 0 /\ charged' = {}
    BY <1>7 DEF Restart
  <2> QED
    BY <2>2, <2>4, <2>5 DEF BudgetInv
<1>8. ASSUME OperateSwitch \/ OperateBroker \/ PassTime \/ UNCHANGED vars
      PROVE  BudgetInv'
  BY <1>8, UnchargedInv DEF OperateSwitch, OperateBroker, PassTime, vars, BudgetInv
<1> QED
  BY <1>1, <1>2, <1>3, <1>4, <1>5, <1>6, <1>7, <1>8 DEF PathNext, RunStep

-----------------------------------------------------------------------------
(* The inductive invariant of the audited path. *)
RunnerInv ==
    /\ TypeOK
    /\ ApprovalsInv
    /\ PhaseInv
    /\ LogInv
    /\ GateInv
    /\ NonceInv
    /\ BudgetInv
    /\ StopInv

(* The initial state satisfies the invariant: nothing has been called. *)
LEMMA RunnerInit == Init => RunnerInv
<1> SUFFICES ASSUME Init PROVE RunnerInv
  OBVIOUS
<1>1. TypeOK
  BY InitType
<1>2. ApprovalsInv
  BY InitInv DEF Init
<1>3. PhaseInv /\ LogInv
  BY DEF Init, PhaseInv, LogInv, Ending, Ungated
<1>4. GateInv /\ NonceInv
  BY DEF Init, GateInv, NonceInv, Cleared, Ungated
<1>5. BudgetInv
  <2>1. \A s \in Session : {c \in charged : Sess(c) = s} = {}
    BY DEF Init
  <2>2. \A s \in Session : MaxActions # NoLimit => 0 <= MaxActions
    BY BudgetAssumption
  <2> QED
    BY <2>1, <2>2, FS_EmptySet DEF Init, BudgetInit, BudgetInv
<1>6. StopInv
  BY DEF Init, StopInv
<1> QED
  BY <1>1, <1>2, <1>3, <1>4, <1>5, <1>6 DEF RunnerInv

(* Every step of the audited path preserves the invariant. *)
LEMMA RunnerStep == RunnerInv /\ [PathNext]_vars => RunnerInv'
<1> SUFFICES ASSUME RunnerInv, [PathNext]_vars PROVE RunnerInv'
  OBVIOUS
<1> USE DEF RunnerInv
<1>1. ApprovalsInv'
  BY RegistryStep
<1>2. TypeOK'
  BY <1>1, TypeStep DEF ApprovalsInv
<1>3. PhaseInv' /\ LogInv' /\ StopInv'
  BY PhaseStep, LogStep, StopStep
<1>4. GateInv' /\ NonceInv' /\ BudgetInv'
  BY GateStep, NonceStep, BudgetStep
<1> QED
  BY <1>1, <1>2, <1>3, <1>4

(* The audited path keeps its state well typed, and keeps the invariant    *)
(* from which its safety properties follow (runner.py, run).               *)
THEOREM RunnerSafe == Spec => []RunnerInv
<1>1. RunnerInv /\ [Next]_vars => [PathNext]_vars
  BY NextIsPath DEF RunnerInv, TypeOK
<1> QED
  BY <1>1, RunnerInit, RunnerStep, PTL DEF Spec

(* What the invariant says of the calls that executed. *)
LEMMA RunnerImplies ==
    RunnerInv => /\ ApprovedOnce
                 /\ GatedWhereRequired
                 /\ BudgetExact
                 /\ OneRecordPerRun
                 /\ StopHolds
<1> SUFFICES ASSUME RunnerInv
             PROVE  ApprovedOnce /\ GatedWhereRequired /\ BudgetExact
                    /\ OneRecordPerRun /\ StopHolds
  OBVIOUS
<1>1. executed \subseteq Call /\ charged \subseteq Call
  BY DEF RunnerInv, TypeOK
<1>2. ApprovedOnce
  <2> SUFFICES ASSUME NEW c \in executed, c \in gated, Real(c)
               PROVE  /\ \E o \in origin : /\ o.token = nonce[c]
                                           /\ o.session = Sess(c)
                                           /\ o.binding = BindingOf(Act(c))
                      /\ \A d \in executed : d # c /\ Real(d) => nonce[d] # nonce[c]
    BY DEF ApprovedOnce
  <2> QED
    BY <1>1 DEF RunnerInv, NonceInv
<1>3. GatedWhereRequired
  BY <1>1 DEF RunnerInv, GateInv, GatedWhereRequired
<1>4. BudgetExact
  BY <1>1 DEF RunnerInv, BudgetInv, BudgetExact
<1>5. OneRecordPerRun
  BY DEF RunnerInv, PhaseInv, LogInv, OneRecordPerRun
<1>6. StopHolds
  BY DEF RunnerInv, StopInv, StopHolds
<1> QED
  BY <1>2, <1>3, <1>4, <1>5, <1>6

(* No two real runs execute on one approval, and none on an approval for   *)
(* another action or session (runner.py, step 5).                          *)
THEOREM RunApprovedOnce == Spec => []ApprovedOnce
BY RunnerImplies, RunnerSafe, PTL

(* Nothing at T2 or above, and in a session that was handed untrusted      *)
(* content nothing at T1 or above, executes ungated (runner.py, step 5).   *)
THEOREM RunGatedWhereRequired == Spec => []GatedWhereRequired
BY RunnerImplies, RunnerSafe, PTL

(* The action ceiling is exact (contract.py, BudgetTracker.charge).        *)
THEOREM RunBudgetExact == Spec => []BudgetExact
BY RunnerImplies, RunnerSafe, PTL

(* A call that leaves run() wrote exactly one audit record, and a denied   *)
(* one never executed (runner.py, step 10).                                *)
THEOREM RunOneRecord == Spec => []OneRecordPerRun
BY RunnerImplies, RunnerSafe, PTL

(* A call that enters under a stop does not execute while it stands        *)
(* (runner.py, KillSwitch).                                                *)
THEOREM RunStopHolds == Spec => []StopHolds
BY RunnerImplies, RunnerSafe, PTL

-----------------------------------------------------------------------------
(* A client presents only tokens that were handed out. *)
TokenDrawn ==
    \A c \in Call : pc[c] \notin {"idle", "refused"} => req[c].token <= minted

(* Tokens are drawn and never undrawn, and a request is never changed. *)
LEMMA TokenDrawnStep ==
    ASSUME TypeOK, ApprovalsTypeOK', TokenDrawn, [PathNext]_vars
    PROVE  TokenDrawn'
<1> USE DEF TypeOK, TokenDrawn, callVars, historyVars, shared, approvalVars,
            Goto, Deny
<1>1. ASSUME NEW c \in Call, NEW r \in Request, r.token <= minted, Enter(c, r)
      PROVE  TokenDrawn'
  BY <1>1 DEF Enter
<1>2. ASSUME NEW c \in Call, RefuseToBuild(c) PROVE TokenDrawn'
  BY <1>2 DEF RefuseToBuild
<1>3. ASSUME NEW c \in Call, RunStep(c), UNCHANGED minted PROVE TokenDrawn'
  <2>1. req' = req /\ pc[c] \notin {"idle", "refused"}
        /\ \A d \in Call : d # c => pc'[d] = pc[d]
    BY <1>3 DEF RunStep, CheckKill, CheckPolicy, Gate, Consume, CheckPre,
                ChargeBudget, Execute, Spend, MintNonce, Audit, Reply
  <2> QED
    BY <1>3, <2>1
<1>4. ASSUME NEW c \in Call, MintNonce(c) PROVE TokenDrawn'
  <2>1. \A d \in Call : req[d].token \in Nat
    BY RequestType, ApprovalsAssumption DEF Request, Token, NoToken
  <2>2. minted \in Nat /\ minted' = minted + 1
    BY <1>4, ApprovalsAssumption DEF MintNonce, Mint, ApprovalsTypeOK
  <2> QED
    BY <1>4, <2>1, <2>2 DEF MintNonce
<1>5. ASSUME NEW c \in Call, RunStep(c) PROVE MintNonce(c) \/ UNCHANGED minted
  BY <1>5 DEF RunStep, CheckKill, CheckPolicy, Gate, Consume, ConsumeOK,
              ConsumeRefused, CheckPre, ChargeBudget, Execute, Spend, Audit, Reply
<1>6. ASSUME Restart PROVE TokenDrawn'
  BY <1>6 DEF Restart, ForgetApprovals, InFlight
<1>7. ASSUME OperateSwitch \/ OperateBroker \/ PassTime \/ UNCHANGED vars
      PROVE  TokenDrawn'
  BY <1>7 DEF OperateSwitch, OperateBroker, PassTime, vars
<1> QED
  BY <1>1, <1>2, <1>3, <1>4, <1>5, <1>6, <1>7 DEF PathNext

(* A step of the path is a step of the registry on its own, or leaves the  *)
(* registry alone.                                                         *)
LEMMA PathStepIsRegistryStep ==
    RunnerInv /\ TokenDrawn /\ [PathNext]_vars => [ApprovalsNext]_<<now, approvalVars>>
<1> SUFFICES ASSUME RunnerInv, TokenDrawn, [PathNext]_vars
             PROVE  [ApprovalsNext]_<<now, approvalVars>>
  OBVIOUS
<1> USE DEF RunnerInv
<1>1. ASSUME NEW c \in Call, Consume(c) PROVE ApprovalsNext
  <2>1. Sess(c) \in Session /\ Act(c) \in Action /\ req[c] \in Request
    BY RequestType
  <2>2. req[c].token \in 1 .. minted
    <3>1. req[c].token \in Nat /\ req[c].token # NoToken /\ req[c].token <= minted
      BY <1>1, <2>1, ApprovalsAssumption
        DEF Consume, PhaseInv, TokenDrawn, Request, Token, NoToken
    <3>2. minted \in Nat
      BY ApprovalsAssumption DEF ApprovalsInv, ApprovalsTypeOK
    <3> QED
      BY <3>1, <3>2 DEF NoToken
  <2>3. ApprovalOf(c) \in Presented
    BY <2>1, <2>2 DEF ApprovalOf, Presented, Request
  <2>4. UNCHANGED now
    BY <1>1 DEF Consume
  <2> QED
    BY <1>1, <2>1, <2>3, <2>4 DEF Consume, ApprovalsNext
<1>2. ASSUME NEW c \in Call, MintNonce(c) PROVE ApprovalsNext
  BY <1>2, RequestType DEF MintNonce, ApprovalsNext
<1>3. ASSUME Restart \/ PassTime PROVE ApprovalsNext
  BY <1>3 DEF Restart, PassTime, ApprovalsNext
<1>4. ASSUME NEW c \in Call, RunStep(c)
      PROVE  Consume(c) \/ MintNonce(c) \/ UNCHANGED <<now, approvalVars>>
  BY <1>4 DEF RunStep, CheckKill, CheckPolicy, Gate, CheckPre, ChargeBudget,
              Execute, Spend, Audit, Reply, shared
<1> QED
  BY <1>1, <1>2, <1>3, <1>4
    DEF PathNext, Enter, RefuseToBuild, OperateSwitch, OperateBroker, shared, vars

(* No call starts with a token, and every step keeps them drawn. *)
LEMMA TokenDrawnInit == Init => TokenDrawn /\ ApprovalsInit
BY DEF Init, TokenDrawn

LEMMA TokenDrawnKept == RunnerInv /\ TokenDrawn /\ [PathNext]_vars => TokenDrawn'
<1> SUFFICES ASSUME RunnerInv, TokenDrawn, [PathNext]_vars PROVE TokenDrawn'
  OBVIOUS
<1>1. ApprovalsTypeOK'
  BY RunnerStep DEF RunnerInv, TypeOK
<1> QED
  BY <1>1, TokenDrawnStep DEF RunnerInv

(* However runs, restarts and operators interleave, what they do to the    *)
(* registry is what its own specification allows, so every theorem about   *)
(* the registry holds of it inside the audited path.                       *)
THEOREM PathImplementsRegistry == Spec => ApprovalsSpec
<1>1. RunnerInv /\ [Next]_vars => [PathNext]_vars
  BY NextIsPath DEF RunnerInv, TypeOK
<1> QED
  BY <1>1, TokenDrawnInit, TokenDrawnKept, PathStepIsRegistryStep, RunnerSafe, PTL
     DEF Spec, ApprovalsSpec

(* Inside the audited path a nonce is the abstract nonce of Nonce.tla: it  *)
(* is used at most once, and one that lapsed or was used never comes back. *)
THEOREM PathImplementsNonce == Spec => ImplementsNonce
BY PathImplementsRegistry, RegistryImplementsNonce, PTL

(* On the audited path a session's registry never outgrows _MAX_PENDING,   *)
(* however many dry runs mint.                                             *)
THEOREM RunRegistryBounded == Spec => []PendingBounded
BY PathImplementsRegistry, RegistryBounded, PTL
-----------------------------------------------------------------------------
(* The safety behind the two liveness properties of run().  The order of   *)
(* its steps.                                                              *)
Rank(step) ==
    CASE step = "idle" -> 0     [] step = "kill" -> 1    [] step = "policy" -> 2
      [] step = "gate" -> 3     [] step = "consume" -> 4 [] step = "pre" -> 5
      [] step = "charge" -> 6   [] step = "execute" -> 7 [] step = "spend" -> 8
      [] step = "mint" -> 9     [] step = "audit" -> 10  [] step = "reply" -> 11
      [] step = "done" -> 12    [] step = "refused" -> 12 [] step = "lost" -> 12

(* A step of a call takes it further, and nothing takes it back. *)
ForwardStep ==
    \A c \in Call :
        \/ Rank(pc[c]) < Rank(pc'[c])
        \/ pc'[c] = pc[c] /\ ~ RunStep(c)

(* The steps of run() up to execute(). *)
BeforeExecute ==
    {"kill", "policy", "gate", "consume", "pre", "charge", "execute"}

(* An emergency stop gets past execute(), or is refused, only into a state *)
(* in which the switch is tripped.                                         *)
EmergencyStep ==
    \A c \in Call :
        (/\ Is(c, "estop")
         /\ req[c].redacts
         /\ pc[c] \in BeforeExecute
         /\ pc'[c] \notin BeforeExecute \cup {"lost"})
            => IsTripped'

(* An emergency stop is never gated, so it never waits for a nonce. *)
EstopInv ==
    \A c \in Call : Is(c, "estop") =>
        c \notin gated /\ pc[c] \notin {"consume", "mint"}

(* Each step of run() goes to a later one. *)
LEMMA RunGoesForward ==
    ASSUME TypeOK, NEW c \in Call, RunStep(c)
    PROVE  /\ Rank(pc[c]) < Rank(pc'[c])
           /\ \A d \in Call : d # c => pc'[d] = pc[d]
<1> USE DEF TypeOK, Goto, Deny, Rank, callVars
<1>1. CASE CheckKill(c) \/ CheckPolicy(c)
  BY <1>1 DEF CheckKill, CheckPolicy
<1>2. CASE Gate(c)
  BY <1>2 DEF Gate
<1>3. CASE Consume(c)
  BY <1>3 DEF Consume
<1>4. CASE CheckPre(c)
  BY <1>4 DEF CheckPre
<1>5. CASE ChargeBudget(c)
  BY <1>5 DEF ChargeBudget
<1>6. CASE Execute(c) \/ Spend(c)
  BY <1>6 DEF Execute, Spend
<1>7. CASE MintNonce(c) \/ Audit(c) \/ Reply(c)
  BY <1>7 DEF MintNonce, Audit, Reply
<1> QED
  BY <1>1, <1>2, <1>3, <1>4, <1>5, <1>6, <1>7 DEF RunStep

(* Calls only go forward. *)
LEMMA PathGoesForward ==
    ASSUME TypeOK, [PathNext]_vars, ~ UNCHANGED vars
    PROVE  ForwardStep
<1>1. ASSUME NEW c \in Call, RunStep(c) PROVE ForwardStep
  BY <1>1, RunGoesForward DEF ForwardStep
<1> SUFFICES ASSUME ~ \E c \in Call : RunStep(c) PROVE ForwardStep
  BY <1>1
<1> USE DEF TypeOK, Goto, Rank, ForwardStep
<1>2. ASSUME NEW c \in Call, NEW r \in Request, Enter(c, r) PROVE ForwardStep
  BY <1>2 DEF Enter
<1>3. ASSUME NEW c \in Call, RefuseToBuild(c) PROVE ForwardStep
  BY <1>3 DEF RefuseToBuild
<1>4. CASE Restart
  BY <1>4 DEF Restart, InFlight, Step
<1>5. CASE OperateSwitch \/ OperateBroker \/ PassTime
  BY <1>5 DEF OperateSwitch, OperateBroker, PassTime, callVars
<1> QED
  BY <1>2, <1>3, <1>4, <1>5 DEF PathNext

(* An emergency stop is T0, allowed in every mode and within every consent *)
(* ceiling, and needs no approval.                                         *)
LEMMA EstopTier ==
    ASSUME TypeOK, NEW c \in Call, Is(c, "estop")
    PROVE  /\ TierOf(c) = 0
           /\ Allowed(Act(c))
           /\ WithinConsent(Sess(c), Act(c))
           /\ ~ GateRequired(c)
<1>1. Act(c) \in Action /\ Sess(c) \in Session
  BY RequestType
<1>2. ~ Attr[Act(c)].deny /\ Classify(Act(c)) = 0
  BY <1>1, EmergencyAssumption DEF Is, Classify
<1>3. TierOf(c) = 0 /\ Allowed(Act(c)) /\ ~ RequiresApproval(Act(c))
  BY <1>2, PolicyAssumption DEF TierOf, DecisionTier, Allowed, RequiresApproval
<1>4. WithinConsent(Sess(c), Act(c))
  BY <1>1, <1>2, PolicyAssumption DEF WithinConsent, Tier, NoCeiling
<1> QED
  BY <1>3, <1>4 DEF GateRequired

(* No step gates an emergency stop. *)
LEMMA EstopStep ==
    ASSUME TypeOK, PhaseInv, EstopInv, [PathNext]_vars
    PROVE  EstopInv'
<1> USE DEF TypeOK, EstopInv, Is, Act, callVars, historyVars, Goto, Deny
<1>1. ASSUME NEW c \in Call, NEW r \in Request, Enter(c, r) PROVE EstopInv'
  BY <1>1 DEF Enter, PhaseInv, Ungated
<1>2. ASSUME NEW c \in Call, Gate(c) PROVE EstopInv'
  <2>1. Is(c, "estop") => ~ GateRequired(c)
    BY EstopTier
  <2> QED
    BY <1>2, <2>1 DEF Gate
<1>3. ASSUME NEW c \in Call, Spend(c) PROVE EstopInv'
  BY <1>3 DEF Spend
<1>4. ASSUME NEW c \in Call, RefuseToBuild(c) \/ CheckKill(c) \/ CheckPolicy(c)
      PROVE  EstopInv'
  BY <1>4 DEF RefuseToBuild, CheckKill, CheckPolicy
<1>5. ASSUME NEW c \in Call, Consume(c) \/ CheckPre(c) \/ ChargeBudget(c)
      PROVE  EstopInv'
  BY <1>5 DEF Consume, CheckPre, ChargeBudget
<1>6. ASSUME NEW c \in Call, Execute(c) \/ MintNonce(c) \/ Audit(c) \/ Reply(c)
      PROVE  EstopInv'
  BY <1>6 DEF Execute, MintNonce, Audit, Reply
<1>7. CASE Restart
  BY <1>7 DEF Restart
<1>8. CASE OperateSwitch \/ OperateBroker \/ PassTime \/ UNCHANGED vars
  BY <1>8 DEF OperateSwitch, OperateBroker, PassTime, vars
<1> QED
  BY <1>1, <1>2, <1>3, <1>4, <1>5, <1>6, <1>7, <1>8 DEF PathNext, RunStep

(* Only the kill switch itself turns an emergency stop away. *)
LEMMA EstopPasses ==
    ASSUME TypeOK, EstopInv, [PathNext]_vars
    PROVE  EmergencyStep
<1> SUFFICES ASSUME NEW c \in Call, Is(c, "estop"), req[c].redacts,
                    pc[c] \in BeforeExecute,
                    pc'[c] \notin BeforeExecute \cup {"lost"}
             PROVE  IsTripped'
  BY DEF EmergencyStep
<1>0. /\ TierOf(c) = 0 /\ ~ GateRequired(c) /\ ~ Is(c, "act")
      /\ Allowed(Act(c)) /\ WithinConsent(Sess(c), Act(c)) /\ pc[c] # "consume"
  BY EstopTier DEF EstopInv, Is
<1>1. RunStep(c)
  <2>1. ASSUME NEW d \in Call, RunStep(d) PROVE d = c
    BY <2>1, RunGoesForward
  <2>2. ~ \E d \in Call, r \in Request : Enter(d, r)
    BY DEF Enter, Goto, TypeOK, BeforeExecute
  <2>3. ~ \E d \in Call : RefuseToBuild(d)
    BY DEF RefuseToBuild, Goto, TypeOK, BeforeExecute
  <2>4. ~ Restart
    BY DEF Restart, InFlight, TypeOK, BeforeExecute
  <2>5. ~ (OperateSwitch \/ OperateBroker \/ PassTime \/ UNCHANGED vars)
    BY DEF OperateSwitch, OperateBroker, PassTime, vars, callVars
  <2> QED
    BY <2>1, <2>2, <2>3, <2>4, <2>5 DEF PathNext
<1> USE DEF Goto, Deny, TypeOK, BeforeExecute
<1>2. CASE CheckKill(c)
  BY <1>2 DEF CheckKill, shared, killVars, IsTripped
<1>3. CASE Execute(c)
  BY <1>3 DEF Execute, Trip, IsTripped
<1>4. ~ CheckPolicy(c) /\ ~ Gate(c) /\ ~ Consume(c)
  BY <1>0 DEF CheckPolicy, Gate, Consume
<1>5. ~ CheckPre(c) /\ ~ ChargeBudget(c)
  BY <1>0 DEF CheckPre, ChargeBudget
<1>6. ~ Spend(c) /\ ~ MintNonce(c) /\ ~ Audit(c) /\ ~ Reply(c)
  BY DEF Spend, MintNonce, Audit, Reply
<1> QED
  BY <1>1, <1>2, <1>3, <1>4, <1>5, <1>6 DEF RunStep

(* Before any call entered, no emergency stop was gated. *)
LEMMA EstopInit == Init => EstopInv
BY DEF Init, EstopInv

(* So the emergency stop passes, now and in every later step. *)
LEMMA EstopKept == RunnerInv /\ EstopInv /\ [PathNext]_vars => EstopInv' /\ EmergencyStep
BY EstopStep, EstopPasses DEF RunnerInv

(* run() takes a call through its steps in order, each at most once: no    *)
(* step of any thread sends a call back or repeats one of its steps        *)
(* (runner.py, run), so that a call is at most twelve steps from its end.  *)
THEOREM RunGoesOn == Spec => [][ForwardStep]_vars
<1>1. RunnerInv /\ [Next]_vars => [ForwardStep]_vars
  BY NextIsPath, PathGoesForward DEF RunnerInv, TypeOK
<1> QED
  BY <1>1, RunnerSafe, PTL DEF Spec

(* The emergency stop is always reachable (tools/emergency.py): no gate,   *)
(* latch, ceiling, budget or credential scope turns it away, in no mode    *)
(* and whatever other calls do; when run() is done with it the switch is   *)
(* tripped.                                                                *)
THEOREM EmergencyReachable == Spec => [][EmergencyStep]_vars
<1>1. RunnerInv /\ [Next]_vars => [PathNext]_vars
  BY NextIsPath DEF RunnerInv, TypeOK
<1>2. EmergencyStep => [EmergencyStep]_vars
  OBVIOUS
<1> QED
  BY <1>1, <1>2, EstopInit, EstopKept, RunnerSafe, PTL DEF Spec
=============================================================================
