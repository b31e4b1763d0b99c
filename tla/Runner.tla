------------------------------- MODULE Runner -------------------------------
(***************************************************************************)
(* The single audited path: run() of execution/runner.py, as the worker    *)
(* threads of the HTTP transport drive it through the tools, with the      *)
(* shared objects it consults.  There is one action per step of run() that *)
(* touches state another thread can see; what run() computes in between is *)
(* part of the action that follows.                                        *)
(*                                                                         *)
(* A Call is one tools/call request.  The process may stop at any point    *)
(* and start again: every in-memory object is then fresh, and the sentinel *)
(* file, the audit records and what was done to hosts survive.             *)
(***************************************************************************)
EXTENDS Approvals, Budget, KillSwitch, Credentials

CONSTANTS
    Call,           \* bound: the calls of a behaviour
    Redacts,        \* what redact_args may do on a call's arguments
    MaxGrants,      \* bound: grants the operator issues in a process
    MaxRestarts     \* bound: process restarts

ASSUME RunnerAssumption ==
    /\ Session # {} /\ Action # {}
    /\ Redacts \subseteq BOOLEAN
    /\ MaxGrants \in Nat
    /\ MaxRestarts \in Nat

(* emergency_stop passes no command, so that its probe is the name of the  *)
(* tool, and has the base tier T0 of run_audited.                          *)
ASSUME EmergencyAssumption ==
    \A a \in Action : Attr[a].kind = "estop" =>
        ~ Attr[a].deny /\ Attr[a].base_tier = 0 /\ Attr[a].command_tier = 0

VARIABLES
    pc,         \* pc[c]: the step that call c takes next
    req,        \* req[c]: its ExecutionRequest, and what was read with it
    gated,      \* the calls for which gate_required held
    outcome,    \* outcome[c]: the decision label of its audit record
    log,        \* log[c]: how many audit records call c wrote
    tainted,    \* the sessions whose SessionTaint latch is armed
    restarts    \* how often the process was restarted

(* History, read by no action. *)
VARIABLES
    nonce,      \* nonce[c]: the token call c minted or consumed
    executed,   \* the calls whose execute() ran
    charged,    \* the calls charged to a budget of this process
    carriers,   \* the calls that took in untrusted content, this process
    dirty,      \* the calls entered after such content was delivered
    stop,       \* a stop was ordered that neither the operator lifted nor
                \* a restart without a sentinel ended
    halted      \* the calls entered under a stop that still stands

callVars == <<pc, req, gated, outcome, log>>
historyVars == <<nonce, executed, charged, carriers, dirty, stop, halted>>
shared == <<now, approvalVars, budgetVars, killVars, grants, granted, tainted,
            restarts>>
vars == <<shared, callVars, historyVars>>

Step == {"idle", "kill", "policy", "gate", "consume", "pre", "charge",
         "execute", "spend", "mint", "audit", "reply", "done",
         "refused", "lost"}

Outcome == {"none", "denied", "error", "allowed"}

Request ==
    [session : Session, action : Action, dry_run : BOOLEAN,
     token : Token \cup {NoToken},
     redacts : BOOLEAN,     \* redact_args succeeds on its arguments
     scoped : BOOLEAN,      \* _broker_gated_context saw grants
     bound : Action]        \* the action id that its Approval names

(* A placeholder until the call enters. *)
NoRequest == CHOOSE r \in Request : TRUE

TypeOK ==
    /\ ApprovalsTypeOK
    /\ BudgetTypeOK
    /\ KillSwitchTypeOK
    /\ CredentialsTypeOK
    /\ pc \in [Call -> Step]
    /\ req \in [Call -> Request]
    /\ gated \subseteq Call
    /\ outcome \in [Call -> Outcome]
    /\ log \in [Call -> Nat]
    /\ tainted \subseteq Session
    /\ restarts \in Nat
    /\ nonce \in [Call -> Token \cup {NoToken}]
    /\ executed \subseteq Call
    /\ charged \subseteq Call
    /\ carriers \subseteq Call
    /\ dirty \subseteq Call
    /\ stop \in BOOLEAN
    /\ halted \subseteq Call

Init ==
    /\ ApprovalsInit
    /\ BudgetInit
    /\ KillSwitchInit
    /\ CredentialsInit
    /\ pc = [c \in Call |-> "idle"]
    /\ req = [c \in Call |-> NoRequest]
    /\ gated = {}
    /\ outcome = [c \in Call |-> "none"]
    /\ log = [c \in Call |-> 0]
    /\ tainted = {}
    /\ restarts = 0
    /\ nonce = [c \in Call |-> NoToken]
    /\ executed = {}
    /\ charged = {}
    /\ carriers = {}
    /\ dirty = {}
    /\ stop = FALSE
    /\ halted = {}

-----------------------------------------------------------------------------
Sess(c) == req[c].session
Act(c) == req[c].action
TierOf(c) == DecisionTier(Act(c))
Real(c) == ~ req[c].dry_run
Is(c, kind) == Attr[Act(c)].kind = kind
ApprovalOf(c) == [action_id |-> req[c].bound, token |-> req[c].token]

InFlight(c) == pc[c] \notin {"idle", "done", "refused", "lost"}

Goto(c, step) == pc' = [pc EXCEPT ![c] = step]

(* Mutant: the label of the audit record is not one of the decisions. *)
DenyMislabelled(c) ==
    /\ Goto(c, "audit")
    /\ outcome' = [outcome EXCEPT ![c] = "refused"]

(* Mutant: a refusal returns before the audit record. *)
DenyUnaudited(c) ==
    /\ Goto(c, "reply")
    /\ outcome' = [outcome EXCEPT ![c] = "denied"]

(* denied(): all that is left of run() is the audit record. *)
Deny(c) ==
    /\ Goto(c, "audit")
    /\ outcome' = [outcome EXCEPT ![c] = "denied"]

(* What session s has been handed: an answer that carried observed facts,  *)
(* or telemetry it ingested.                                               *)
Delivered(s) == \E d \in carriers : Sess(d) = s /\ pc[d] = "done"

-----------------------------------------------------------------------------
(* A tool handler builds its request and enters run(), which redacts the   *)
(* arguments first.  Only run_action has a dry run and an approval token   *)
(* (a dry run does not read it), and decides here whether the credential   *)
(* scope is to be enforced.                                                *)
Enter(c, r) ==
    /\ pc[c] = "idle"
    /\ Attr[r.action].kind # "act" => ~ r.dry_run
    /\ Attr[r.action].kind # "act" \/ r.dry_run => r.token = NoToken
    /\ r.scoped = (Attr[r.action].kind = "act" /\ HasGrants)
    /\ req' = [req EXCEPT ![c] = r]
    /\ Goto(c, "kill")
    /\ dirty' = IF Delivered(r.session) THEN dirty \cup {c} ELSE dirty
    /\ halted' = IF stop THEN halted \cup {c} ELSE halted
    /\ UNCHANGED <<shared, gated, outcome, log, nonce, executed,
                   charged, carriers, stop>>

(* The adapter refuses to build an argv (an unsafe host, an unknown verb): *)
(* the error leaves run_action before run() is entered.                    *)
RefuseToBuild(c) ==
    /\ pc[c] = "idle"
    /\ Goto(c, "refused")
    /\ UNCHANGED <<shared, req, gated, outcome, log, historyVars>>

(* Step 2: the kill switch, then a failed redaction. *)
CheckKill(c) ==
    /\ pc[c] = "kill"
    /\ IF IsTripped \/ ~ req[c].redacts
         THEN Deny(c)
         ELSE Goto(c, "policy") /\ UNCHANGED outcome
    /\ UNCHANGED <<shared, req, gated, log, historyVars>>

(* Steps 3, 3a and 4: policy, consent ceiling, and the taint latch. *)
CheckPolicy(c) ==
    /\ pc[c] = "policy"
    /\ IF Allowed(Act(c)) /\ WithinConsent(Sess(c), Act(c))
         THEN /\ Goto(c, "gate")
              /\ tainted' = IF Is(c, "ingest") THEN tainted \cup {Sess(c)}
                                               ELSE tainted
              /\ UNCHANGED outcome
         ELSE Deny(c) /\ UNCHANGED tainted
    /\ UNCHANGED <<now, approvalVars, budgetVars, killVars, grants, granted,
                   restarts, req, gated, log, historyVars>>

(* Mutant: the taint latch is not consulted. *)
GateRequiredUntainted(c) == RequiresApproval(Act(c))

(* Mutant: a tainted session needs an approval for everything. *)
GateRequiredAlways(c) == RequiresApproval(Act(c)) \/ Sess(c) \in tainted

(* gate_required: T2 and above, and T1 and above in a tainted session. *)
GateRequired(c) ==
    RequiresApproval(Act(c)) \/ (Sess(c) \in tainted /\ TierOf(c) >= 1)

(* Step 5: is an approval needed, and is there one to present? *)
Gate(c) ==
    /\ pc[c] = "gate"
    /\ gated' = IF GateRequired(c) THEN gated \cup {c} ELSE gated
    /\ IF GateRequired(c) /\ Real(c)
         THEN IF MultiTargetT3(Act(c)) \/ req[c].token = NoToken
                THEN Deny(c)
                ELSE Goto(c, "consume") /\ UNCHANGED outcome
         ELSE Goto(c, "pre") /\ UNCHANGED outcome
    /\ UNCHANGED <<shared, req, log, historyVars>>

(* Mutant: the nonce is validated here, and consumed by nobody. *)
ConsumeValidates(c) ==
    /\ pc[c] = "consume"
    /\ Validate(Sess(c), ApprovalOf(c), BindingOf(Act(c)))
    /\ IF Valid(Sess(c), ApprovalOf(c), BindingOf(Act(c)))
         THEN /\ nonce' = [nonce EXCEPT ![c] = req[c].token]
              /\ Goto(c, "pre")
              /\ UNCHANGED outcome
         ELSE Deny(c) /\ UNCHANGED nonce
    /\ UNCHANGED <<now, budgetVars, killVars, grants, granted, tainted,
                   restarts, req, gated, log, executed, charged,
                   carriers, dirty, stop, halted>>

(* Mutant: a run whose nonce is not valid yet waits for it. *)
ConsumeWaits(c) ==
    /\ pc[c] = "consume"
    /\ ConsumeOK(Sess(c), ApprovalOf(c), BindingOf(Act(c)))
    /\ nonce' = [nonce EXCEPT ![c] = req[c].token]
    /\ Goto(c, "pre")
    /\ UNCHANGED <<now, budgetVars, killVars, grants, granted, tainted,
                   restarts, req, gated, outcome, log, executed,
                   charged, carriers, dirty, stop, halted>>

(* Step 5: approvals.consume, under the registry's lock. *)
Consume(c) ==
    /\ pc[c] = "consume"
    /\ \/ /\ ConsumeOK(Sess(c), ApprovalOf(c), BindingOf(Act(c)))
          /\ nonce' = [nonce EXCEPT ![c] = req[c].token]
          /\ Goto(c, "pre")
          /\ UNCHANGED outcome
       \/ /\ ConsumeRefused(Sess(c), ApprovalOf(c), BindingOf(Act(c)))
          /\ Deny(c)
          /\ UNCHANGED nonce
    /\ UNCHANGED <<now, budgetVars, killVars, grants, granted, tainted,
                   restarts, req, gated, log, executed, charged,
                   carriers, dirty, stop, halted>>

(* Step 6: the HARD preconditions.  The host type and health checks of an  *)
(* adapter may fail for reasons outside the model; the credential scope is *)
(* evaluated against the grants of this moment.                            *)
CheckPre(c) ==
    /\ pc[c] = "pre"
    /\ \/ /\ req[c].scoped => Authorized(Attr[Act(c)].host, TierOf(c))
          /\ Goto(c, "charge")
          /\ UNCHANGED outcome
       \/ /\ Is(c, "act")
          /\ Deny(c)
    /\ UNCHANGED <<shared, req, gated, log, historyVars>>

(* Step 7: a T1+ real run charges one action. *)
ChargeBudget(c) ==
    /\ pc[c] = "charge"
    /\ IF TierOf(c) >= 1 /\ Real(c)
         THEN \/ /\ Charge(Sess(c))
                 /\ charged' = charged \cup {c}
                 /\ Goto(c, "execute")
                 /\ UNCHANGED outcome
              \/ /\ ~ Affordable(Sess(c))
                 /\ Deny(c)
                 /\ UNCHANGED <<budgetVars, charged>>
         ELSE /\ Goto(c, "execute")
              /\ UNCHANGED <<budgetVars, charged, outcome>>
    /\ UNCHANGED <<now, approvalVars, killVars, grants, granted, tainted,
                   restarts, req, gated, log, nonce, executed,
                   carriers, dirty, stop, halted>>

(* Step 8: execute().  It raises or returns; a read may return observed    *)
(* facts, and then arms the latch before it answers.                       *)
Execute(c) ==
    /\ pc[c] = "execute"
    /\ executed' = executed \cup {c}
    /\ \E ok, observed \in BOOLEAN :
          /\ Is(c, "estop") => ok
          /\ observed => Is(c, "read")
          /\ outcome' = [outcome EXCEPT ![c] = IF ok THEN "allowed" ELSE "error"]
          /\ tainted' = IF observed THEN tainted \cup {Sess(c)} ELSE tainted
          /\ carriers' = IF observed \/ Is(c, "ingest") THEN carriers \cup {c}
                                                        ELSE carriers
    /\ IF Is(c, "estop") THEN Trip ELSE UNCHANGED killVars
    /\ stop' = (stop \/ Is(c, "estop"))
    /\ Goto(c, "spend")
    /\ UNCHANGED <<now, approvalVars, budgetVars, grants, granted, restarts,
                   req, gated, log, nonce, charged, dirty, halted>>

(* The wall time of the execution is recorded, whatever the tier. *)
Spend(c) ==
    /\ pc[c] = "spend"
    /\ \E d \in WallCost : RecordSpend(Sess(c), d)
    /\ Goto(c, IF /\ ~ Real(c)
                  /\ c \in gated
                  /\ outcome[c] = "allowed"
                  /\ ~ MultiTargetT3(Act(c))
                 THEN "mint" ELSE "audit")
    /\ UNCHANGED <<now, approvalVars, killVars, grants, granted, tainted,
                   restarts, req, gated, outcome, log, historyVars>>

(* Step 9: a successful gated dry run mints the nonce of its real run, and *)
(* hands it to the operator's console (or loses it, if that fails).        *)
MintNonce(c) ==
    /\ pc[c] = "mint"
    /\ Mint(Sess(c), BindingOf(Act(c)))
    /\ nonce' = [nonce EXCEPT ![c] = minted']
    /\ Goto(c, "audit")
    /\ UNCHANGED <<now, budgetVars, killVars, grants, granted, tainted,
                   restarts, req, gated, outcome, log, executed,
                   charged, carriers, dirty, stop, halted>>

(* Step 10: the one audit record. *)
Audit(c) ==
    /\ pc[c] = "audit"
    /\ log' = [log EXCEPT ![c] = @ + 1]
    /\ Goto(c, "reply")
    /\ UNCHANGED <<shared, req, gated, outcome, historyVars>>

(* The handler answers the caller. *)
Reply(c) ==
    /\ pc[c] = "reply"
    /\ Goto(c, "done")
    /\ UNCHANGED <<shared, req, gated, outcome, log, historyVars>>

-----------------------------------------------------------------------------
(* Out-of-band actions of the operator on the switch.  A stop that is      *)
(* lifted no longer binds the calls that entered under it.                 *)
OperateSwitch ==
    /\ \/ Reset
       \/ \E state \in SentinelState : SetSentinel(state)
    /\ stop' = (tripped' \/ sentinel' # "absent")
    /\ halted' = IF stop' THEN halted ELSE {}
    /\ UNCHANGED <<now, approvalVars, budgetVars, grants, granted, tainted,
                   restarts, callVars, nonce, executed, charged, carriers,
                   dirty>>

(* CredentialBroker.grant and revoke, and kill_all, which trips the switch. *)
OperateBroker ==
    /\ \/ /\ granted < MaxGrants
          /\ \E scope \in Scope : Grant(scope)
          /\ UNCHANGED <<killVars, stop>>
       \/ (\E g \in grants : Revoke(g)) /\ UNCHANGED <<killVars, stop>>
       \/ HasGrants /\ RevokeAll /\ Trip /\ stop' = TRUE
    /\ UNCHANGED <<now, approvalVars, budgetVars, tainted, restarts, callVars,
                   nonce, executed, charged, carriers, dirty, halted>>

Restart ==
    /\ restarts < MaxRestarts
    /\ restarts' = restarts + 1
    /\ ForgetApprovals
    /\ ForgetBudgets
    /\ RestartSwitch
    /\ ForgetGrants
    /\ tainted' = {}
    /\ pc' = [c \in Call |-> IF InFlight(c) THEN "lost" ELSE pc[c]]
    /\ charged' = {}
    /\ carriers' = {}
    /\ stop' = (sentinel # "absent")
    /\ halted' = IF stop' THEN halted ELSE {}
    /\ UNCHANGED <<now, req, gated, outcome, log, nonce, executed,
                   dirty>>

PassTime ==
    /\ Tick
    /\ UNCHANGED <<approvalVars, budgetVars, killVars, grants, granted,
                   tainted, restarts, callVars, historyVars>>

RunStep(c) ==
    \/ CheckKill(c) \/ CheckPolicy(c) \/ Gate(c) \/ Consume(c) \/ CheckPre(c)
    \/ ChargeBudget(c) \/ Execute(c) \/ Spend(c) \/ MintNonce(c) \/ Audit(c)
    \/ Reply(c)

(* The requests a client can send now for action a: it presents no token,  *)
(* or one that was handed out.                                             *)
Incoming(a) ==
    [session : Session, action : {a}, dry_run : BOOLEAN,
     token : 0 .. minted, redacts : Redacts, scoped : BOOLEAN, bound : {a}]

Next ==
    \/ \E c \in Call, a \in Action : \E r \in Incoming(a) : Enter(c, r)
    \/ \E c \in Call : RefuseToBuild(c)
    \/ \E c \in Call : RunStep(c)
    \/ OperateSwitch
    \/ OperateBroker
    \/ Restart
    \/ PassTime

Spec == Init /\ [][Next]_vars

(* run() never blocks: its locks are held for bounded work, an actuation   *)
(* subprocess is killed at its timeout, and every thread is scheduled.     *)
FairSpec == Spec /\ \A c \in Call : WF_vars(RunStep(c))

-----------------------------------------------------------------------------
(* A real run that was gated executes only on a nonce that a dry run of    *)
(* the same session minted for exactly this action, and no two calls ever  *)
(* execute on one nonce, however threads, expiry, eviction, refused        *)
(* retries and restarts interleave (SEC-2, BL-072, BL-104).                *)
ApprovedOnce ==
    \A c \in executed : c \in gated /\ Real(c) =>
        /\ \E o \in origin : /\ o.token = nonce[c]
                             /\ o.session = Sess(c)
                             /\ o.binding = BindingOf(Act(c))
        /\ \A d \in executed : d # c /\ Real(d) => nonce[d] # nonce[c]

(* Once untrusted content has been delivered to a session, no call it      *)
(* sends later changes a host unless it was gated; and T2 and above never  *)
(* executes ungated (SEC-4, SEC-6, BL-083).                                *)
GatedWhereRequired ==
    \A c \in executed :
        TierOf(c) >= 2 \/ (TierOf(c) >= 1 /\ c \in dirty) => c \in gated

(* The action ceiling is exact: the calls of a session that were executed  *)
(* for real at T1 or above in this process number at most MaxActions, they *)
(* are all counted, and a refused call is not (BL-074, BL-110).            *)
BudgetExact ==
    /\ \A s \in Session :
          LET mine == {c \in charged : Sess(c) = s} IN
          /\ actions[s] = Cardinality(mine)
          /\ MaxActions # NoLimit => Cardinality(mine) <= MaxActions
    /\ \A c \in charged : outcome[c] # "denied" /\ Real(c) /\ TierOf(c) >= 1
    /\ \A c \in executed \ charged :
          Real(c) /\ TierOf(c) >= 1 => restarts > 0

(* A call that enters under a stop does not execute before the operator    *)
(* lifts it: the stop holds if its sentinel cannot be written or read, and *)
(* across a restart if the sentinel is there (SEC-8, BL-075).              *)
StopHolds == halted \cap executed = {}

(* A call that has left run() wrote exactly one audit record, and wrote it *)
(* after it executed; a denied call never executed (SEC-2).                *)
OneRecordPerRun ==
    \A c \in Call :
        /\ pc[c] = "reply" => log[c] = 1
        /\ log[c] <= 1
        /\ outcome[c] = "denied" => c \notin executed

(* Every call that enters run() is audited, unless the process stops. *)
EveryRunAudited ==
    \A c \in Call : pc[c] = "kill" ~> (log[c] = 1 \/ pc[c] = "lost")

(* An emergency stop that is sent takes hold, tainted session, exhausted   *)
(* budget or not (tools/emergency.py: "must always be reachable").         *)
EmergencyStopTakesHold ==
    \A c \in Call :
        (pc[c] = "kill" /\ Is(c, "estop") /\ req[c].redacts)
            ~> (IsTripped \/ pc[c] = "lost")

=============================================================================
