-------------------------- MODULE ApprovalsProofs --------------------------
(***************************************************************************)
(* Proofs about the approval registry, for every set of sessions and       *)
(* actions, every TTL and every limit.                                     *)
(***************************************************************************)
EXTENDS Approvals, FiniteSetTheorems, WellFoundedInduction, TLAPS

(* Every pending nonce is one that this session drew, with its binding and *)
(* its deadline.                                                           *)
PendingIsOwn ==
    \A s \in Session : \A p \in pending[s] :
        [token |-> p.token, session |-> s, binding |-> p.binding,
         expires_at |-> p.expires_at] \in origin

OriginDrawn == \A o \in origin : o.token <= minted

OriginUnique == \A o1, o2 \in origin : o1.token = o2.token => o1 = o2

PendingUnused == \A s \in Session : \A p \in pending[s] : uses[p.token] = 0

UndrawnUnused == \A t \in Token : t > minted => uses[t] = 0

(* The inductive invariant: a token is in at most one registry, and only   *)
(* unused ones are there, so the check under the lock is enough.           *)
ApprovalsInv ==
    /\ ApprovalsTypeOK
    /\ PendingIsOwn
    /\ OriginDrawn
    /\ OriginUnique
    /\ PendingUnused
    /\ UndrawnUnused
    /\ SingleUse
    /\ HonouredAsMinted

-----------------------------------------------------------------------------
(* The tier and the binding of an action are well formed. *)
LEMMA BindingType ==
    ASSUME NEW x \in Action
    PROVE  BindingOf(x) \in Binding
<1>1. Attr[x] \in Attribute
  BY PolicyAssumption
<1>2. DecisionTier(x) \in Tier
  BY <1>1 DEF DecisionTier, Classify, Attribute, Tier
<1>3. Attr[x].target \in Target
  BY <1>1 DEF Attribute
<1> QED
  BY <1>2, <1>3 DEF BindingOf, Binding, PATTERNS_VERSION

(* The initial state satisfies the invariant. *)
LEMMA InitInv == ApprovalsInit => ApprovalsInv
<1> SUFFICES ASSUME ApprovalsInit PROVE ApprovalsInv
  OBVIOUS
<1> USE ApprovalsAssumption DEF ApprovalsInit
<1>1. ApprovalsTypeOK
  BY DEF ApprovalsTypeOK, Token
<1>2. PendingIsOwn /\ OriginDrawn /\ OriginUnique /\ PendingUnused
  BY DEF PendingIsOwn, OriginDrawn, OriginUnique, PendingUnused
<1>3. UndrawnUnused /\ SingleUse
  BY DEF UndrawnUnused, SingleUse
<1>4. HonouredAsMinted
  BY DEF HonouredAsMinted
<1> QED
  BY <1>1, <1>2, <1>3, <1>4 DEF ApprovalsInv

(* Minting preserves the invariant: the token is new. *)
LEMMA MintInv ==
    ASSUME ApprovalsInv, UNCHANGED now,
           NEW s \in Session, NEW b \in Binding, Mint(s, b)
    PROVE  ApprovalsInv'
<1> USE ApprovalsAssumption DEF ApprovalsInv
<1> DEFINE t == minted + 1
           fresh == [token |-> t, binding |-> b, expires_at |-> now + TTL]
           drawn == [token |-> t, session |-> s, binding |-> b,
                     expires_at |-> now + TTL]
<1>1. /\ minted \in Nat /\ now \in Nat /\ TTL \in Nat /\ t \in Token
      /\ t > minted /\ minted' = t
  BY DEF Mint, ApprovalsTypeOK, Token
<1>2. /\ pending' = [pending EXCEPT ![s] = Purged(s) \cup {fresh}]
      /\ origin' = origin \cup {drawn}
      /\ consumed' = [consumed EXCEPT ![s] = PurgedConsumed(s)]
      /\ uses' = uses /\ burns' = burns
  BY DEF Mint
<1>3. Purged(s) \subseteq pending[s] /\ PurgedConsumed(s) \subseteq consumed[s]
  BY DEF Purged, MakeRoom, PurgedConsumed
<1>4. fresh \in PendingApproval
  BY <1>1 DEF PendingApproval
<1>5. ApprovalsTypeOK'
  <2>1. pending' \in [Session -> SUBSET PendingApproval]
    BY <1>2, <1>3, <1>4 DEF ApprovalsTypeOK
  <2>2. consumed' \in [Session -> SUBSET [token : Token, expires_at : Nat]]
    BY <1>2, <1>3 DEF ApprovalsTypeOK
  <2>3. origin' \in SUBSET [token : Token, session : Session,
                            binding : Binding, expires_at : Nat]
    BY <1>1, <1>2 DEF ApprovalsTypeOK
  <2>4. minted' \in 0 .. MaxMints
    BY <1>1 DEF Token
  <2> QED
    BY <1>1, <1>2, <2>1, <2>2, <2>3, <2>4 DEF ApprovalsTypeOK
<1>6. \A r \in Session : \A p \in pending'[r] :
          p \in pending[r] \/ (r = s /\ p = fresh)
  BY <1>2, <1>3 DEF ApprovalsTypeOK
<1>7. PendingIsOwn'
  <2> SUFFICES ASSUME NEW r \in Session, NEW p \in pending'[r]
               PROVE  [token |-> p.token, session |-> r, binding |-> p.binding,
                       expires_at |-> p.expires_at] \in origin'
    BY DEF PendingIsOwn
  <2>1. CASE p \in pending[r]
    BY <1>2, <2>1 DEF PendingIsOwn
  <2>2. CASE r = s /\ p = fresh
    BY <1>2, <2>2
  <2> QED
    BY <1>6, <2>1, <2>2
<1>8. OriginDrawn'
  BY <1>1, <1>2 DEF OriginDrawn, ApprovalsTypeOK, Token
<1>9. OriginUnique'
  <2>1. \A o \in origin : o.token # t
    BY <1>1 DEF OriginDrawn, ApprovalsTypeOK, Token
  <2> QED
    BY <1>2, <2>1 DEF OriginUnique
<1>10. PendingUnused'
  <2>1. uses[t] = 0
    BY <1>1 DEF UndrawnUnused
  <2> QED
    BY <1>2, <1>6, <2>1 DEF PendingUnused
<1>11. UndrawnUnused' /\ SingleUse'
  BY <1>1, <1>2 DEF UndrawnUnused, SingleUse, Token
<1>12. HonouredAsMinted'
  BY <1>2 DEF HonouredAsMinted
<1> QED
  BY <1>5, <1>7, <1>8, <1>9, <1>10, <1>11, <1>12

(* A step that only drops pending nonces preserves the invariant. *)
LEMMA ShrinkInv ==
    ASSUME ApprovalsInv,
           now' \in Nat,
           pending' \in [Session -> SUBSET PendingApproval],
           \A s \in Session : pending'[s] \subseteq pending[s],
           consumed' \in [Session -> SUBSET [token : Token, expires_at : Nat]],
           UNCHANGED <<minted, origin, uses, burns>>
    PROVE  ApprovalsInv'
<1> USE DEF ApprovalsInv
<1>1. ApprovalsTypeOK'
  BY DEF ApprovalsTypeOK
<1>2. PendingIsOwn' /\ PendingUnused'
  BY DEF PendingIsOwn, PendingUnused
<1>3. OriginDrawn' /\ OriginUnique' /\ UndrawnUnused' /\ SingleUse'
  BY DEF OriginDrawn, OriginUnique, UndrawnUnused, SingleUse
<1>4. HonouredAsMinted'
  BY DEF HonouredAsMinted
<1> QED
  BY <1>1, <1>2, <1>3, <1>4

(* Consuming preserves the invariant: the token is in this registry only,  *)
(* unused, and leaves it in the same step.                                 *)
LEMMA ConsumeInv ==
    ASSUME ApprovalsInv, UNCHANGED now,
           NEW s \in Session, NEW b \in Binding, NEW a \in Approval,
           ConsumeOK(s, a, b)
    PROVE  ApprovalsInv'
<1> USE DEF ApprovalsInv
<1>1. PICK p \in pending[s] :
          /\ p \in Found(s, a, b)
          /\ p.token = a.token
          /\ now <= p.expires_at
          /\ p.binding = b
  BY DEF ConsumeOK, Valid, Found
<1>2. /\ pending' = [pending EXCEPT ![s] = pending[s] \ Found(s, a, b)]
      /\ uses' = [uses EXCEPT ![a.token] = uses[a.token] + 1]
      /\ burns' = burns \cup {[token |-> a.token, session |-> s,
                               binding |-> b, at |-> now]}
      /\ UNCHANGED <<minted, origin>>
  BY DEF ConsumeOK
<1>3. a.token \in Token /\ uses[a.token] = 0 /\ now \in Nat
  BY <1>1 DEF Approval, PendingUnused, ApprovalsTypeOK
<1>4. [token |-> a.token, session |-> s, binding |-> b,
       expires_at |-> p.expires_at] \in origin
  BY <1>1 DEF PendingIsOwn
<1>5. a.token <= minted
  BY <1>4 DEF OriginDrawn
<1>6. \A r \in Session : \A q \in pending'[r] :
          q \in pending[r] /\ q.token # a.token
  <2> SUFFICES ASSUME NEW r \in Session, NEW q \in pending'[r]
               PROVE  q \in pending[r] /\ q.token # a.token
    OBVIOUS
  <2>1. q \in pending[r]
    BY <1>2 DEF ApprovalsTypeOK
  <2>2. CASE r = s
    <3>1. q \notin Found(s, a, b)
      BY <1>2, <2>2 DEF ApprovalsTypeOK
    <3>2. /\ a.action_id = b.action_id
          /\ \A u \in consumed[s] : u.token # a.token
      BY <1>1 DEF Found
    <3> QED
      BY <2>1, <2>2, <3>1, <3>2 DEF Found
  <2>3. CASE r # s
    <3>1. [token |-> q.token, session |-> r, binding |-> q.binding,
           expires_at |-> q.expires_at] \in origin
      BY <2>1 DEF PendingIsOwn
    <3>2. ASSUME q.token = a.token PROVE FALSE
      <4>1. [token |-> q.token, session |-> r, binding |-> q.binding,
             expires_at |-> q.expires_at]
            = [token |-> a.token, session |-> s, binding |-> b,
               expires_at |-> p.expires_at]
        BY <1>4, <3>1, <3>2 DEF OriginUnique
      <4> QED
        BY <2>3, <4>1
    <3> QED
      BY <2>1, <3>2
  <2> QED
    BY <2>2, <2>3
<1>7. ApprovalsTypeOK'
  <2>1. pending' \in [Session -> SUBSET PendingApproval]
    BY <1>2 DEF ApprovalsTypeOK
  <2>2. consumed' \in [Session -> SUBSET [token : Token, expires_at : Nat]]
    <3>1. \A q \in Found(s, a, b) : q \in PendingApproval
      BY DEF Found, ApprovalsTypeOK
    <3>2. {[token |-> q.token, expires_at |-> q.expires_at] :
              q \in Found(s, a, b)}
          \subseteq [token : Token, expires_at : Nat]
      BY <3>1 DEF PendingApproval
    <3> QED
      BY <3>2 DEF ConsumeOK, ApprovalsTypeOK
  <2>3. uses' \in [Token -> Nat]
    BY <1>2, <1>3 DEF ApprovalsTypeOK
  <2>4. burns' \in SUBSET [token : Token, session : Session,
                           binding : Binding, at : Nat]
    BY <1>2, <1>3 DEF ApprovalsTypeOK
  <2> QED
    BY <1>2, <2>1, <2>2, <2>3, <2>4 DEF ApprovalsTypeOK
<1>8. PendingIsOwn' /\ OriginDrawn' /\ OriginUnique'
  BY <1>2, <1>6 DEF PendingIsOwn, OriginDrawn, OriginUnique
<1>9. PendingUnused'
  <2>1. \A r \in Session : \A q \in pending[r] : q.token \in Token
    BY DEF ApprovalsTypeOK, PendingApproval
  <2> QED
    BY <1>2, <1>3, <1>6, <2>1 DEF PendingUnused, ApprovalsTypeOK
<1>10. UndrawnUnused' /\ SingleUse'
  BY <1>2, <1>3, <1>5 DEF UndrawnUnused, SingleUse, ApprovalsTypeOK, Token
<1>11. HonouredAsMinted'
  <2>1. \E o \in origin : /\ o.token = a.token /\ o.session = s
                          /\ o.binding = b /\ now <= o.expires_at
    BY <1>1, <1>4
  <2> QED
    BY <1>2, <2>1 DEF HonouredAsMinted
<1> QED
  BY <1>7, <1>8, <1>9, <1>10, <1>11

-----------------------------------------------------------------------------
(* Every step preserves the invariant. *)
LEMMA NextInv ==
    ApprovalsInv /\ [ApprovalsNext]_<<now, approvalVars>> => ApprovalsInv'
<1> SUFFICES ASSUME ApprovalsInv, [ApprovalsNext]_<<now, approvalVars>>
             PROVE  ApprovalsInv'
  OBVIOUS
<1> USE DEF approvalVars
<1>0. /\ now \in Nat
      /\ pending \in [Session -> SUBSET PendingApproval]
      /\ consumed \in [Session -> SUBSET [token : Token, expires_at : Nat]]
  BY DEF ApprovalsInv, ApprovalsTypeOK
<1>1. ASSUME NEW s \in Session, NEW x \in Action, UNCHANGED now,
             Mint(s, BindingOf(x))
      PROVE  ApprovalsInv'
  BY <1>1, BindingType, MintInv
<1>2. ASSUME NEW s \in Session, NEW x \in Action, NEW a \in Presented,
             UNCHANGED now, ConsumeOK(s, a, BindingOf(x))
      PROVE  ApprovalsInv'
  <2>1. minted \in 0 .. MaxMints
    BY DEF ApprovalsInv, ApprovalsTypeOK
  <2>2. 1 .. minted \subseteq Token
    BY <2>1, ApprovalsAssumption DEF Token
  <2>3. a \in Approval
    BY <2>2 DEF Presented, Approval
  <2> QED
    BY <1>2, <2>3, BindingType, ConsumeInv
<1>3. ASSUME NEW s \in Session, NEW x \in Action, NEW a \in Presented,
             UNCHANGED now,
             ConsumeRefused(s, a, BindingOf(x)) \/ Validate(s, a, BindingOf(x))
      PROVE  ApprovalsInv'
  <2>1. AfterRefusal(s, a, BindingOf(x)) \subseteq pending[s]
    BY DEF AfterRefusal
  <2>2. /\ pending' \in [Session -> SUBSET PendingApproval]
        /\ \A r \in Session : pending'[r] \subseteq pending[r]
        /\ UNCHANGED <<consumed, minted, origin, uses, burns>>
    BY <1>0, <1>3, <2>1 DEF ConsumeRefused, Validate
  <2> QED
    BY <1>0, <1>3, <2>2, ShrinkInv
<1>4. ASSUME UNCHANGED now, ForgetApprovals
      PROVE  ApprovalsInv'
  BY <1>0, <1>4, ShrinkInv DEF ForgetApprovals
<1>5. ASSUME Tick, UNCHANGED approvalVars
      PROVE  ApprovalsInv'
  BY <1>0, <1>5, ShrinkInv DEF Tick
<1>6. ASSUME UNCHANGED <<now, approvalVars>>
      PROVE  ApprovalsInv'
  BY <1>0, <1>6, ShrinkInv
<1> QED
  BY <1>1, <1>2, <1>3, <1>4, <1>5, <1>6 DEF ApprovalsNext

(* The registry's state is well typed and its invariant holds. *)
THEOREM ApprovalsSafe == ApprovalsSpec => []ApprovalsInv
<1>1. ApprovalsInit => ApprovalsInv
  BY InitInv
<1>2. ApprovalsInv /\ [ApprovalsNext]_<<now, approvalVars>> => ApprovalsInv'
  BY NextInv
<1> QED
  BY <1>1, <1>2, PTL DEF ApprovalsSpec

(* No nonce passes consume twice (contract.py, consume). *)
THEOREM NonceSingleUse == ApprovalsSpec => []SingleUse
<1>1. ApprovalsInv => SingleUse
  BY DEF ApprovalsInv
<1> QED
  BY <1>1, ApprovalsSafe, PTL

(* consume honours a nonce only in its session, for its binding and before *)
(* its deadline (contract.py, _validate_locked).                           *)
THEOREM NonceHonouredAsMinted == ApprovalsSpec => []HonouredAsMinted
<1>1. ApprovalsInv => HonouredAsMinted
  BY DEF ApprovalsInv
<1> QED
  BY <1>1, ApprovalsSafe, PTL

-----------------------------------------------------------------------------
(* The registry refines the abstract nonce.                                *)
Live(t) == \E s \in Session : \E p \in pending[s] : p.token = t

(* A step in which nonces only lapse is a lapse of the abstract nonce. *)
LEMMA LapseRefines ==
    ASSUME ApprovalsInv,
           \A s \in Session : pending'[s] \subseteq pending[s],
           UNCHANGED <<minted, uses>>
    PROVE  Abstract!Next
<1> DEFINE V == {t \in Token : TokenStatus(t) = "live" /\ ~ Live(t)'}
           st == [t \in Token |-> TokenStatus(t)]
<1>1. \A t \in Token : Live(t)' => Live(t)
  BY DEF Live
<1>2. \A t \in Token :
          TokenStatus(t)' = IF t \in V THEN "void" ELSE TokenStatus(t)
  BY <1>1 DEF TokenStatus, Live
<1>3. st' = [t \in Token |-> IF t \in V THEN "void"
                             ELSE IF t \in {} THEN "live" ELSE st[t]]
  BY <1>2
<1>4. Abstract!LapseAndDraw(V, {})
  BY <1>3 DEF Abstract!LapseAndDraw
<1>5. V \in SUBSET Token /\ {} \in SUBSET Token
  OBVIOUS
<1> QED
  BY <1>4, <1>5 DEF Abstract!Next

(* A mint draws one fresh nonce, and those that were purged lapse. *)
LEMMA MintRefines ==
    ASSUME ApprovalsInv, NEW s \in Session, NEW b \in Binding, Mint(s, b)
    PROVE  Abstract!Next
<1> USE ApprovalsAssumption
<1>0. PICK new \in Token : new = minted + 1
  BY DEF Mint, ApprovalsInv, ApprovalsTypeOK, Token
<1> DEFINE V == {t \in Token : TokenStatus(t) = "live" /\ ~ Live(t)'}
           D == {new}
           st == [t \in Token |-> TokenStatus(t)]
<1>1. /\ minted \in Nat /\ minted' = new /\ new > minted /\ uses' = uses
      /\ pending \in [Session -> SUBSET PendingApproval]
      /\ uses \in [Token -> Nat]
  BY <1>0 DEF Mint, ApprovalsInv, ApprovalsTypeOK, Token
<1>2. uses[new] = 0
  BY <1>1 DEF ApprovalsInv, UndrawnUnused
<1>3. Live(new)'
  <2>1. [token |-> new, binding |-> b, expires_at |-> now + TTL] \in pending'[s]
    BY <1>0, <1>1 DEF Mint
  <2> QED
    BY <2>1 DEF Live
<1>4. \A t \in Token \ D : Live(t)' => Live(t)
  <2>1. Purged(s) \subseteq pending[s]
    BY DEF Purged, MakeRoom
  <2>2. pending' = [pending EXCEPT ![s] = Purged(s) \cup
            {[token |-> new, binding |-> b, expires_at |-> now + TTL]}]
    BY <1>0 DEF Mint
  <2>3. \A r \in Session : \A p \in pending'[r] :
            p \in pending[r] \/ p.token = new
    BY <1>1, <2>1, <2>2
  <2> QED
    BY <2>3 DEF Live
<1>5. \A t \in Token :
          TokenStatus(t)' = IF t \in V THEN "void"
                            ELSE IF t \in D THEN "live" ELSE TokenStatus(t)
  <2> SUFFICES ASSUME NEW t \in Token
               PROVE  TokenStatus(t)' = IF t \in V THEN "void"
                                        ELSE IF t \in D THEN "live"
                                        ELSE TokenStatus(t)
    OBVIOUS
  <2>1. CASE t = new
    <3>0. ~ (new > minted') /\ ~ (uses'[new] > 0)
      BY <1>1, <1>2 DEF Token
    <3>1. TokenStatus(new)' = "live"
      BY <1>3, <3>0 DEF TokenStatus, Live
    <3>2. TokenStatus(new) = "fresh"
      BY <1>1 DEF TokenStatus
    <3> QED
      BY <2>1, <3>1, <3>2
  <2>2. CASE t # new
    <3>1. t > minted' <=> t > minted
      BY <1>0, <1>1, <2>2 DEF Token
    <3> QED
      BY <1>1, <1>4, <2>2, <3>1 DEF TokenStatus, Live
  <2> QED
    BY <2>1, <2>2
<1>6. st' = [t \in Token |-> IF t \in V THEN "void"
                             ELSE IF t \in D THEN "live" ELSE st[t]]
  BY <1>5
<1>7. st[new] = "fresh"
  BY <1>1 DEF TokenStatus
<1>8. Abstract!LapseAndDraw(V, D)
  BY <1>1, <1>6, <1>7 DEF Abstract!LapseAndDraw
<1>9. V \in SUBSET Token /\ D \in SUBSET Token
  BY <1>1
<1> QED
  BY <1>8, <1>9 DEF Abstract!Next

(* A consume is the use of a live nonce. *)
LEMMA ConsumeRefines ==
    ASSUME ApprovalsInv,
           NEW s \in Session, NEW b \in Binding, NEW a \in Approval,
           ConsumeOK(s, a, b)
    PROVE  Abstract!Next
<1> DEFINE u == a.token
           st == [t \in Token |-> TokenStatus(t)]
<1>1. PICK p \in pending[s] : p.token = u
  BY DEF ConsumeOK, Valid, Found
<1>2. /\ u \in Token /\ uses[u] = 0 /\ u <= minted /\ minted \in Nat
      /\ uses \in [Token -> Nat]
      /\ pending \in [Session -> SUBSET PendingApproval]
  <2>1. uses[u] = 0
    BY <1>1 DEF ApprovalsInv, PendingUnused
  <2>2. u <= minted
    BY <1>1 DEF ApprovalsInv, PendingIsOwn, OriginDrawn
  <2> QED
    BY <2>1, <2>2 DEF ApprovalsInv, ApprovalsTypeOK, Approval
<1>3. /\ pending' = [pending EXCEPT ![s] = pending[s] \ Found(s, a, b)]
      /\ uses' = [uses EXCEPT ![u] = uses[u] + 1]
      /\ minted' = minted
  BY DEF ConsumeOK
<1>4. st[u] = "live"
  BY <1>1, <1>2 DEF TokenStatus, Token
<1>5. TokenStatus(u)' = "used"
  BY <1>2, <1>3 DEF TokenStatus, Token
<1>6. \A t \in Token \ {u} : Live(t)' <=> Live(t)
  <2>1. \A q \in Found(s, a, b) : q.token = u
    BY DEF Found
  <2>2. \A r \in Session : \A q : q.token # u =>
            (q \in pending'[r] <=> q \in pending[r])
    BY <1>2, <1>3, <2>1
  <2> QED
    BY <2>2 DEF Live
<1>7. \A t \in Token \ {u} : TokenStatus(t)' = TokenStatus(t)
  BY <1>2, <1>3, <1>6 DEF TokenStatus, Live
<1>8. st' = [st EXCEPT ![u] = "used"]
  BY <1>2, <1>5, <1>7
<1>9. Abstract!Use(u)
  BY <1>3, <1>4, <1>8 DEF Abstract!Use
<1> QED
  BY <1>2, <1>9 DEF Abstract!Next

(* The registry implements the abstract nonce of Nonce.tla: no nonce is    *)
(* used twice or comes back (contract.py, ApprovalRegistry).               *)
THEOREM RegistryImplementsNonce == ApprovalsSpec => ImplementsNonce
<1> DEFINE st == [t \in Token |-> TokenStatus(t)]
<1>1. ApprovalsInit => Abstract!Init
  <2> SUFFICES ASSUME ApprovalsInit PROVE Abstract!Init
    OBVIOUS
  <2>1. \A t \in Token : TokenStatus(t) = "fresh"
    BY ApprovalsAssumption DEF ApprovalsInit, TokenStatus, Token
  <2> QED
    BY <2>1 DEF ApprovalsInit, Abstract!Init
<1>2. ApprovalsInv /\ [ApprovalsNext]_<<now, approvalVars>>
        => [Abstract!Next]_<<st, uses>>
  <2> SUFFICES ASSUME ApprovalsInv, [ApprovalsNext]_<<now, approvalVars>>
               PROVE  [Abstract!Next]_<<st, uses>>
    OBVIOUS
  <2>0. pending \in [Session -> SUBSET PendingApproval]
    BY DEF ApprovalsInv, ApprovalsTypeOK
  <2>1. ASSUME NEW s \in Session, NEW x \in Action, Mint(s, BindingOf(x))
        PROVE  Abstract!Next
    BY <2>1, BindingType, MintRefines
  <2>2. ASSUME NEW s \in Session, NEW x \in Action, NEW a \in Presented,
               ConsumeOK(s, a, BindingOf(x))
        PROVE  Abstract!Next
    <3>1. minted \in 0 .. MaxMints
      BY DEF ApprovalsInv, ApprovalsTypeOK
    <3>2. 1 .. minted \subseteq Token
      BY <3>1, ApprovalsAssumption DEF Token
    <3>3. a \in Approval
      BY <3>2 DEF Presented, Approval
    <3> QED
      BY <2>2, <3>3, BindingType, ConsumeRefines
  <2>3. ASSUME NEW s \in Session, NEW x \in Action, NEW a \in Presented,
               ConsumeRefused(s, a, BindingOf(x)) \/ Validate(s, a, BindingOf(x))
        PROVE  Abstract!Next
    <3>1. AfterRefusal(s, a, BindingOf(x)) \subseteq pending[s]
      BY DEF AfterRefusal
    <3>2. /\ \A r \in Session : pending'[r] \subseteq pending[r]
          /\ UNCHANGED <<minted, uses>>
      BY <2>0, <2>3, <3>1 DEF ConsumeRefused, Validate
    <3> QED
      BY <3>2, LapseRefines
  <2>4. ASSUME ForgetApprovals PROVE Abstract!Next
    <3>1. /\ \A r \in Session : pending'[r] \subseteq pending[r]
          /\ UNCHANGED <<minted, uses>>
      BY <2>4 DEF ForgetApprovals
    <3> QED
      BY <3>1, LapseRefines
  <2>5. ASSUME UNCHANGED approvalVars PROVE UNCHANGED <<st, uses>>
    <3>1. \A t \in Token : TokenStatus(t)' = TokenStatus(t)
      BY <2>5 DEF TokenStatus, approvalVars
    <3> QED
      BY <2>5, <3>1 DEF approvalVars
  <2> QED
    BY <2>1, <2>2, <2>3, <2>4, <2>5 DEF ApprovalsNext, Tick
<1> QED
  BY <1>1, <1>2, ApprovalsSafe, PTL
    DEF ApprovalsSpec, ImplementsNonce, Abstract!Spec

-----------------------------------------------------------------------------
(* The limit.  The registries are finite, which the induction carries. *)
BoundInv == \A s \in Session : IsFiniteSet(pending[s])

(* Every set of numbers has a smallest. *)
LEMMA Smallest ==
    ASSUME NEW S, S \subseteq Nat, S # {}
    PROVE  \E m \in S : \A n \in S : m <= n
<1>1. PICK m \in S : \A n \in S : ~ (<<n, m>> \in OpToRel(<, Nat))
  BY NatLessThanWellFounded, WFMin
<1>2. ASSUME NEW n \in S PROVE m <= n
  <2>1. m \in Nat /\ n \in Nat
    OBVIOUS
  <2>2. ~ (<<n, m>> \in {ss \in Nat \X Nat : ss[1] < ss[2]})
    BY <1>1 DEF OpToRel
  <2>3. ~ (n < m)
    BY <2>1, <2>2, Z3
  <2> QED
    BY <2>1, <2>3
<1> QED
  BY <1>1, <1>2

(* _purge leaves room for one more: of the entries kept, the first in the  *)
(* order of eviction has all the others after it.                          *)
LEMMA RoomMade ==
    ASSUME NEW P, P \subseteq PendingApproval, IsFiniteSet(P),
           \A p, q \in P : p.token = q.token => p = q
    PROVE  /\ MakeRoom(P) \subseteq P /\ IsFiniteSet(MakeRoom(P))
           /\ Cardinality(MakeRoom(P)) <= MaxPending - 1
<1> DEFINE K == MakeRoom(P)
<1>1. K \subseteq P
  BY DEF MakeRoom
<1>2. IsFiniteSet(K) /\ Cardinality(K) \in Nat
  BY <1>1, FS_Subset, FS_CardinalityType
<1>3. \A p \in K : p.token \in Nat /\ p.expires_at \in Nat
  BY <1>1 DEF PendingApproval, Token
<1>4. CASE K = {}
  BY <1>1, <1>2, <1>4, FS_EmptySet, ApprovalsAssumption
<1>5. CASE K # {}
  <2>1. PICK n \in {p.expires_at : p \in K} : \A x \in {p.expires_at : p \in K} : n <= x
    <3> DEFINE E == {p.expires_at : p \in K}
    <3>1. E \subseteq Nat /\ E # {}
      BY <1>3, <1>5
    <3> HIDE DEF E
    <3>2. \E n \in E : \A x \in E : n <= x
      BY <3>1, Smallest
    <3> QED
      BY <3>2 DEF E
  <2> DEFINE F == {p.token : p \in {p \in K : p.expires_at = n}}
  <2>2. PICK k \in F : \A x \in F : k <= x
    <3>1. F \subseteq Nat /\ F # {}
      BY <1>3, <2>1
    <3> HIDE DEF F
    <3> QED
      BY <3>1, Smallest
  <2>3. PICK f \in K : f.expires_at = n /\ f.token = k
    BY <2>2
  <2> DEFINE after == {q \in P : Younger(q, f)}
             rest == K \ {f}
  <2>4. rest \subseteq after
    <3> SUFFICES ASSUME NEW q \in K, q # f PROVE Younger(q, f)
      BY <1>1
    <3>1. n <= q.expires_at
      BY <2>1
    <3>2. q.expires_at = n => k <= q.token
      BY <2>2
    <3>3. q.token # k
      BY <1>1, <2>3
    <3> QED
      BY <1>3, <2>3, <3>1, <3>2, <3>3 DEF Younger
  <2>5. Cardinality(after) < MaxPending - 1
    BY <2>3 DEF MakeRoom
  <2>6. IsFiniteSet(after) /\ Cardinality(after) \in Nat
    BY FS_Subset, FS_CardinalityType
  <2> HIDE DEF K
  <2>7. Cardinality(rest) = Cardinality(K) - 1
    BY <1>2, <2>3, FS_RemoveElement
  <2>8. Cardinality(rest) <= Cardinality(after)
    <3> HIDE DEF rest, after
    <3> QED
      BY <2>4, <2>6, FS_Subset
  <2> HIDE DEF rest, after
  <2> QED
    BY <1>1, <1>2, <2>5, <2>6, <2>7, <2>8, ApprovalsAssumption DEF K
<1> QED
  BY <1>4, <1>5

(* The limit survives every step. *)
LEMMA BoundStep ==
    ASSUME ApprovalsInv, BoundInv, PendingBounded,
           ApprovalsNext \/ UNCHANGED <<now, approvalVars>>
    PROVE  BoundInv' /\ PendingBounded'
<1> USE ApprovalsAssumption
<1>1. /\ pending \in [Session -> SUBSET PendingApproval]
      /\ \A s \in Session : \A p, q \in pending[s] : p.token = q.token => p = q
  <2>1. pending \in [Session -> SUBSET PendingApproval]
    BY DEF ApprovalsInv, ApprovalsTypeOK
  <2>2. ASSUME NEW s \in Session, NEW p \in pending[s], NEW q \in pending[s],
               p.token = q.token
        PROVE  p = q
    <3>1. [token |-> p.token, session |-> s, binding |-> p.binding,
           expires_at |-> p.expires_at]
          = [token |-> q.token, session |-> s, binding |-> q.binding,
             expires_at |-> q.expires_at]
      BY <2>2 DEF ApprovalsInv, PendingIsOwn, OriginUnique
    <3>2. p \in PendingApproval /\ q \in PendingApproval
      BY <2>1
    <3> QED
      BY <3>1, <3>2 DEF PendingApproval
  <2> QED
    BY <2>1, <2>2
<1>2. ASSUME \A s \in Session : pending'[s] \subseteq pending[s]
      PROVE  BoundInv' /\ PendingBounded'
  <2> SUFFICES ASSUME NEW s \in Session
               PROVE  IsFiniteSet(pending'[s]) /\ Cardinality(pending'[s]) <= MaxPending
    BY DEF BoundInv, PendingBounded
  <2>1. PICK A, B : A = pending'[s] /\ B = pending[s]
    OBVIOUS
  <2>2. IsFiniteSet(B) /\ Cardinality(B) <= MaxPending /\ A \subseteq B
    BY <1>2, <2>1 DEF BoundInv, PendingBounded
  <2>3. /\ IsFiniteSet(A) /\ Cardinality(A) <= Cardinality(B)
        /\ Cardinality(A) \in Nat /\ Cardinality(B) \in Nat
    BY <2>2, FS_Subset, FS_CardinalityType
  <2> QED
    BY <2>1, <2>2, <2>3
<1>3. ASSUME NEW s \in Session, NEW x \in Action, Mint(s, BindingOf(x))
      PROVE  BoundInv' /\ PendingBounded'
  <2> DEFINE P == {p \in pending[s] : now <= p.expires_at}
             fresh == [token |-> minted + 1, binding |-> BindingOf(x),
                       expires_at |-> now + TTL]
  <2>1. P \subseteq PendingApproval /\ \A p, q \in P : p.token = q.token => p = q
    BY <1>1
  <2>2. IsFiniteSet(P)
    BY FS_Subset DEF BoundInv
  <2>3. IsFiniteSet(MakeRoom(P)) /\ Cardinality(MakeRoom(P)) <= MaxPending - 1
    <3> HIDE DEF P
    <3> QED
      BY <2>1, <2>2, RoomMade
  <2>4. pending' = [pending EXCEPT ![s] = MakeRoom(P) \cup {fresh}]
    BY <1>3 DEF Mint, Purged
  <2>5. /\ IsFiniteSet(MakeRoom(P) \cup {fresh})
        /\ Cardinality(MakeRoom(P) \cup {fresh}) <= MaxPending
    <3> HIDE DEF P, fresh
    <3>1. /\ IsFiniteSet(MakeRoom(P) \cup {fresh})
          /\ \/ Cardinality(MakeRoom(P) \cup {fresh}) = Cardinality(MakeRoom(P))
             \/ Cardinality(MakeRoom(P) \cup {fresh}) = Cardinality(MakeRoom(P)) + 1
      BY <2>3, FS_AddElement
    <3>2. Cardinality(MakeRoom(P)) \in Nat
      BY <2>3, FS_CardinalityType
    <3> QED
      BY <2>3, <3>1, <3>2
  <2> HIDE DEF P, fresh
  <2> QED
    BY <1>1, <2>4, <2>5 DEF BoundInv, PendingBounded
<1>4. ASSUME NEW s \in Session, NEW x \in Action, NEW a \in Presented,
             \/ ConsumeOK(s, a, BindingOf(x))
             \/ ConsumeRefused(s, a, BindingOf(x))
             \/ Validate(s, a, BindingOf(x))
      PROVE  \A r \in Session : pending'[r] \subseteq pending[r]
  BY <1>1, <1>4 DEF ConsumeOK, ConsumeRefused, Validate, AfterRefusal
<1>5. ASSUME ForgetApprovals PROVE \A r \in Session : pending'[r] \subseteq pending[r]
  BY <1>5 DEF ForgetApprovals
<1>6. ASSUME UNCHANGED approvalVars PROVE \A r \in Session : pending'[r] \subseteq pending[r]
  BY <1>6 DEF approvalVars
<1> QED
  BY <1>2, <1>3, <1>4, <1>5, <1>6 DEF ApprovalsNext

(* A registry never holds more than _MAX_PENDING nonces: _purge makes room *)
(* before mint inserts, and nothing else inserts.                          *)
THEOREM RegistryBounded == ApprovalsSpec => []PendingBounded
<1>1. ApprovalsInit => BoundInv /\ PendingBounded
  BY FS_EmptySet, ApprovalsAssumption DEF ApprovalsInit, BoundInv, PendingBounded
<1>2. ASSUME ApprovalsInv, BoundInv, PendingBounded, [ApprovalsNext]_<<now, approvalVars>>
      PROVE  BoundInv' /\ PendingBounded'
  BY <1>2, BoundStep
<1> QED
  BY <1>1, <1>2, ApprovalsSafe, PTL DEF ApprovalsSpec
=============================================================================
