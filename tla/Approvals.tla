----------------------------- MODULE Approvals -----------------------------
(***************************************************************************)
(* ApprovalRegistry (execution/contract.py): the single-use, TTL-bound     *)
(* nonces that a gated dry run mints and the matching real run consumes.   *)
(* One registry per session; every operation holds the registry's lock and *)
(* is one step.                                                            *)
(*                                                                         *)
(* A token is the number of the mint that drew it: secrets.token_urlsafe   *)
(* never repeats and is never guessed.                                     *)
(***************************************************************************)
EXTENDS Policy, FiniteSets

CONSTANTS
    TTL,            \* PRAXIS_APPROVAL_TTL_SECONDS, in clock ticks
    MaxPending,     \* ApprovalRegistry._MAX_PENDING
    MaxMints,       \* bound: how many nonces are drawn in a behaviour
    MaxTime         \* bound: how far the clock runs

ASSUME ApprovalsAssumption ==
    /\ TTL \in Nat \ {0}
    /\ MaxPending \in Nat \ {0}
    /\ MaxMints \in Nat
    /\ MaxTime \in Nat

Token == 1 .. MaxMints

NoToken == 0

(* What a nonce is bound to, and what a real run must present again. *)
Binding ==
    [action_id : Action, target : Target, tier : Tier, patterns_version : Nat]

BindingOf(a) ==
    [action_id |-> a, target |-> Attr[a].target, tier |-> DecisionTier(a),
     patterns_version |-> PATTERNS_VERSION]

PendingApproval == [token : Token, binding : Binding, expires_at : Nat]

Approval == [action_id : Action, token : Token]

VARIABLES
    now,        \* the monotonic clock
    pending,    \* pending[s]: ApprovalRegistry._pending
    consumed,   \* consumed[s]: ApprovalRegistry._consumed, token and expiry
    minted,     \* history: how many tokens have been drawn
    origin,     \* history: who minted each token, for what, until when
    uses,       \* history: how often each token passed consume
    burns       \* history: where, for what and when it passed

approvalVars == <<pending, consumed, minted, origin, uses, burns>>

ApprovalsTypeOK ==
    /\ now \in Nat
    /\ pending \in [Session -> SUBSET PendingApproval]
    /\ consumed \in [Session -> SUBSET [token : Token, expires_at : Nat]]
    /\ minted \in 0 .. MaxMints
    /\ origin \in SUBSET [token : Token, session : Session,
                          binding : Binding, expires_at : Nat]
    /\ uses \in [Token -> Nat]
    /\ burns \in SUBSET [token : Token, session : Session,
                         binding : Binding, at : Nat]

ApprovalsInit ==
    /\ now = 0
    /\ pending = [s \in Session |-> {}]
    /\ consumed = [s \in Session |-> {}]
    /\ minted = 0
    /\ origin = {}
    /\ uses = [t \in Token |-> 0]
    /\ burns = {}

-----------------------------------------------------------------------------
(* The order in which _purge evicts: earliest expiry first, and among      *)
(* equals the one inserted first (tokens are numbered in mint order).      *)
Younger(p, q) ==
    \/ p.expires_at > q.expires_at
    \/ p.expires_at = q.expires_at /\ p.token > q.token

(* Mutant: the limit is checked after the insertion. *)
MakeRoomLate(P) ==
    {p \in P : Cardinality({q \in P : Younger(q, p)}) < MaxPending}

(* The entries left when the oldest are dropped until there is room.       *)
MakeRoom(P) ==
    {p \in P : Cardinality({q \in P : Younger(q, p)}) < MaxPending - 1}

(* _purge: expired entries go, then the oldest ones above the limit. *)
Purged(s) == MakeRoom({p \in pending[s] : now <= p.expires_at})

PurgedConsumed(s) == {u \in consumed[s] : now <= u.expires_at}

Mint(s, b) ==
    LET t == minted + 1 IN
    /\ minted < MaxMints
    /\ minted' = t
    /\ pending' = [pending EXCEPT ![s] =
          Purged(s) \cup {[token |-> t, binding |-> b, expires_at |-> now + TTL]}]
    /\ consumed' = [consumed EXCEPT ![s] = PurgedConsumed(s)]
    /\ origin' = origin \cup {[token |-> t, session |-> s, binding |-> b,
                               expires_at |-> now + TTL]}
    /\ UNCHANGED <<uses, burns>>

(* The pending entry the presented approval reaches: it names this action, *)
(* its token is not known as used, and is pending.                         *)
Found(s, a, b) ==
    {p \in pending[s] :
        /\ a.action_id = b.action_id
        /\ \A u \in consumed[s] : u.token # a.token
        /\ p.token = a.token}
(* Mutant: what the nonce is bound to is not compared. *)
ValidUnbound(s, a, b) == \E p \in Found(s, a, b) : now <= p.expires_at


Valid(s, a, b) ==
    \E p \in Found(s, a, b) : now <= p.expires_at /\ p.binding = b

(* What a refused check leaves: an expired entry it met is deleted. *)
AfterRefusal(s, a, b) ==
    pending[s] \ {p \in Found(s, a, b) : now > p.expires_at}
(* Mutant: the nonce is checked, and burned by nobody. *)
ConsumeOKUnburned(s, a, b) ==
    /\ Valid(s, a, b)
    /\ uses' = [uses EXCEPT ![a.token] = @ + 1]
    /\ burns' = burns \cup {[token |-> a.token, session |-> s, binding |-> b,
                             at |-> now]}
    /\ UNCHANGED <<pending, consumed, minted, origin>>


ConsumeOK(s, a, b) ==
    /\ Valid(s, a, b)
    /\ pending' = [pending EXCEPT ![s] = @ \ Found(s, a, b)]
    /\ consumed' = [consumed EXCEPT ![s] = @ \cup
          {[token |-> p.token, expires_at |-> p.expires_at] :
              p \in Found(s, a, b)}]
    /\ uses' = [uses EXCEPT ![a.token] = @ + 1]
    /\ burns' = burns \cup {[token |-> a.token, session |-> s, binding |-> b,
                             at |-> now]}
    /\ UNCHANGED <<minted, origin>>

ConsumeRefused(s, a, b) ==
    /\ ~ Valid(s, a, b)
    /\ pending' = [pending EXCEPT ![s] = AfterRefusal(s, a, b)]
    /\ UNCHANGED <<consumed, minted, origin, uses, burns>>

(* validate: the same check, which burns nothing. *)
Validate(s, a, b) ==
    /\ pending' = [pending EXCEPT ![s] =
          IF Valid(s, a, b) THEN @ ELSE AfterRefusal(s, a, b)]
    /\ UNCHANGED <<consumed, minted, origin, uses, burns>>

(* Mutant: nonces are persisted, and a restart reloads the unused ones. *)
ForgetApprovalsReloads ==
    /\ pending' = [s \in Session |-> MakeRoom(
          {[token |-> o.token, binding |-> o.binding, expires_at |-> o.expires_at] :
              o \in {x \in origin : x.session = s /\ uses[x.token] = 0}})]
    /\ consumed' = [s \in Session |-> {}]
    /\ UNCHANGED <<minted, origin, uses, burns>>

(* A server restart: the registries are in-memory only. *)
ForgetApprovals ==
    /\ pending' = [s \in Session |-> {}]
    /\ consumed' = [s \in Session |-> {}]
    /\ UNCHANGED <<minted, origin, uses, burns>>

Tick ==
    /\ now < MaxTime
    /\ now' = now + 1

-----------------------------------------------------------------------------
(* The registry on its own: callers mint and present any drawn token, for  *)
(* any action, in any order.                                               *)
Presented == [action_id : Action, token : 1 .. minted]

ApprovalsNext ==
    \/ /\ UNCHANGED now
       /\ \/ \E s \in Session, x \in Action : Mint(s, BindingOf(x))
          \/ \E s \in Session, x \in Action, a \in Presented :
                \/ ConsumeOK(s, a, BindingOf(x))
                \/ ConsumeRefused(s, a, BindingOf(x))
                \/ Validate(s, a, BindingOf(x))
          \/ ForgetApprovals
    \/ Tick /\ UNCHANGED approvalVars

ApprovalsSpec == ApprovalsInit /\ [][ApprovalsNext]_<<now, approvalVars>>

-----------------------------------------------------------------------------
(* No nonce passes consume twice, whatever is purged, evicted, forgotten   *)
(* or presented again in between (contract.py: "It expires after           *)
(* ttl_seconds and is single-use").                                        *)
SingleUse == \A t \in Token : uses[t] <= 1

(* A registry never holds more than _MAX_PENDING nonces. *)
PendingBounded == \A s \in Session : Cardinality(pending[s]) <= MaxPending

(* consume accepts a token only in the session it was minted in, for       *)
(* exactly the action, target, tier and ruleset it was minted for, and     *)
(* never after its deadline.                                               *)
HonouredAsMinted ==
    \A u \in burns : \E o \in origin :
        /\ o.token = u.token
        /\ o.session = u.session
        /\ o.binding = u.binding
        /\ u.at <= o.expires_at

(* What a token is to a caller: live while it is pending, used for good. *)
TokenStatus(t) ==
    IF t > minted THEN "fresh"
    ELSE IF uses[t] > 0 THEN "used"
    ELSE IF \E s \in Session : \E p \in pending[s] : p.token = t THEN "live"
    ELSE "void"

Abstract == INSTANCE Nonce WITH status <- [t \in Token |-> TokenStatus(t)]

(* The registry implements the abstract nonce: whatever _purge drops,      *)
(* consume burns or a restart forgets, no nonce is used twice or comes     *)
(* back (contract.py, ApprovalRegistry).                                   *)
ImplementsNonce == Abstract!Spec
=============================================================================
