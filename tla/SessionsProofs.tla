--------------------------- MODULE SessionsProofs ---------------------------
(***************************************************************************)
(* Proofs about the HTTP sessions, for every number of handler threads and *)
(* messages, every TTL and every size of the session table.                *)
(***************************************************************************)
EXTENDS Sessions, FiniteSetTheorems, WellFoundedInduction, TLAPS

(* The table: a session has a context of its own, with the ceiling its     *)
(* client asked for, and is idle exactly if it was ever found idle.        *)
TableInv ==
    /\ lapsed \subseteq 1 .. created
    /\ \A s \in DOMAIN sessions :
          /\ sessions[s].ctx = SessionContext(s, consent[s])
          /\ sessions[s].last_seen = served[s]
          /\ served[s] <= now
          /\ s \in lapsed <=> Idle(s)

(* The threads: a message that is looked up or dispatched was not refused, *)
(* the id looked up has been drawn, and the context is that of the id.     *)
ThreadInv ==
    \A t \in Thread :
        /\ pc[t] \in {"get", "dispatch"} => msg[t].http = "ok"
        /\ pc[t] = "refuse" => msg[t].http # "ok"
        /\ pc[t] = "dispatch" =>
              /\ session_id[t] \in 1 .. created
              /\ ctx[t] = SessionContext(session_id[t], consent[session_id[t]])

(* What a session owns is about that session. *)
LedgerInv ==
    \A s \in Id :
        /\ s \in taint <=> s \in exposed
        /\ spent[s] = acted[s]
        /\ \A p \in pending[s] : p.token <= minted /\ minter[p.token] = s

(* What ran was approved by its own session, within its consent. *)
RanInv ==
    \A r \in ran :
        /\ r.session <= created
        /\ r.token # NoToken => r.token <= minted /\ minter[r.token] = r.session
        /\ TierOf(r.tool) <= consent[r.session]
        /\ r.token = NoToken => TierOf(r.tool) < 2

(* A stop trips the switch that every context refers to. *)
StopInv == stop => Base \in tripped

SessionsInv ==
    /\ SessionsTypeOK
    /\ TableInv
    /\ ThreadInv
    /\ LedgerInv
    /\ RanInv
    /\ StopInv

-----------------------------------------------------------------------------
(* Every set of numbers has a smallest. *)
LEMMA Smallest ==
    ASSUME NEW S, S \subseteq Nat, S # {}
    PROVE  \E m \in S : \A n \in S : m <= n
<1>1. PICK m \in S : \A n \in S : ~ (<<n, m>> \in OpToRel(<, Nat))
  BY NatLessThanWellFounded, WFMin
<1>2. ASSUME NEW n \in S PROVE m <= n
  <2>1. m \in Nat /\ n \in Nat
    OBVIOUS
  <2>2. ~ (<<n, m>> \in {ss \in Nat \X Nat : ss[1] < ss[2]})
    BY <1>1 DEF OpToRel
  <2>3. ~ (n < m)
    BY <2>1, <2>2, Z3
  <2> QED
    BY <2>1, <2>3
<1> QED
  BY <1>1, <1>2

(* What the messages carry. *)
LEMMA MessageFields ==
    ASSUME NEW m \in Message
    PROVE  /\ m.header \in Id \cup {NoId}
           /\ m.token \in Token \cup {NoToken}
           /\ m.method = "initialize" => m.ceiling \in ConsentParam
           /\ m.method = "tools/call" => m.tool \in Tool
           /\ m.http = "ok" \/ m = NoMessage
<1>1. CASE m = NoMessage
  BY <1>1 DEF NoMessage
<1>2. CASE m \in Initialize
  <2>1. PICK r \in BOOLEAN, p \in ConsentParam : m = InitializeWith(r, p)
    BY <1>2 DEF Initialize
  <2> QED
    BY <2>1 DEF InitializeWith, NoMessage
<1>3. ASSUME NEW s, NEW x, NEW n
      PROVE  /\ CallOf(s, x, n).http = "ok" /\ CallOf(s, x, n).method = "tools/call"
             /\ CallOf(s, x, n).header = s /\ CallOf(s, x, n).tool = x
             /\ CallOf(s, x, n).token = n
  BY DEF CallOf, NoMessage
<1>4. ASSUME NEW s, NEW x
      PROVE  /\ DryRunOf(s, x).http = "ok" /\ DryRunOf(s, x).method = "tools/call"
             /\ DryRunOf(s, x).header = s /\ DryRunOf(s, x).tool = x
             /\ DryRunOf(s, x).token = NoToken
  BY DEF DryRunOf, NoMessage
<1>5. CASE m \in ReadCall
  <2>1. PICK s \in Id, x \in ReadTool : m = CallOf(s, x, NoToken)
    BY <1>5 DEF ReadCall
  <2> QED
    BY <1>3, <2>1 DEF ReadTool
<1>6. CASE m \in DryRun
  <2>1. PICK s \in Id, x \in Tool \ ReadTool : m = DryRunOf(s, x)
    BY <1>6 DEF DryRun
  <2> QED
    BY <1>4, <2>1
<1>7. CASE m \in RealRun
  <2>1. PICK s \in Id, x \in Tool \ ReadTool, n \in Token \cup {NoToken} :
            m = CallOf(s, x, n)
    BY <1>7 DEF RealRun
  <2> QED
    BY <1>3, <2>1
<1>8. CASE m \in Notification
  <2>1. PICK d \in DryRun : m = [d EXCEPT !.request = FALSE, !.dry_run = FALSE]
    BY <1>8 DEF Notification
  <2>2. PICK s \in Id, x \in Tool \ ReadTool : d = DryRunOf(s, x)
    BY <2>1 DEF DryRun
  <2> QED
    BY <2>1, <2>2 DEF DryRunOf, NoMessage
<1>9. CASE m \in OtherMethod
  BY <1>9 DEF OtherMethod, NoMessage
<1> QED
  BY <1>1, <1>2, <1>5, <1>6, <1>7, <1>8, <1>9 DEF Message

(* A parameter gives a ceiling. *)
LEMMA CeilingType ==
    ASSUME NEW p \in ConsentParam PROVE ParseCeiling(p) \in 0 .. NoCeiling
BY SessionsAssumption DEF ParseCeiling, NoCeiling

(* A session's context is one. *)
LEMMA ContextType ==
    ASSUME NEW s \in Id, NEW c \in 0 .. NoCeiling
    PROVE  /\ SessionContext(s, c) \in Context
           /\ SessionContext(s, c).taint = s /\ SessionContext(s, c).approvals = s
           /\ SessionContext(s, c).budget = s /\ SessionContext(s, c).ceiling = c
           /\ SessionContext(s, c).kill_switch = Base
BY DEF SessionContext, Context, Owner

-----------------------------------------------------------------------------
(* Eviction leaves room for one more session: the least recently seen of   *)
(* those kept has all the others after it.                                 *)
LEMMA KeptFew ==
    ASSUME SessionsTypeOK
    PROVE  /\ Kept \subseteq DOMAIN sessions
           /\ IsFiniteSet(DOMAIN sessions) /\ IsFiniteSet(Kept)
           /\ Cardinality(Kept) <= MaxSessions - 1
<1>1. /\ DOMAIN sessions \subseteq 1 .. created /\ created \in Nat
      /\ MaxSessions \in Nat /\ MaxSessions > 0
  BY SessionsAssumption DEF SessionsTypeOK
<1>2. IsFiniteSet(DOMAIN sessions)
  <2>1. IsFiniteSet(1 .. created)
    BY <1>1, FS_Interval
  <2> QED
    BY <1>1, <2>1, FS_Subset
<1>3. Kept \subseteq Fresh /\ Fresh \subseteq DOMAIN sessions
  BY DEF Kept, Fresh
<1>4. IsFiniteSet(Kept) /\ IsFiniteSet(Fresh)
  BY <1>2, <1>3, FS_Subset
<1>5. \A s \in Kept : s \in Nat /\ sessions[s].last_seen \in Nat
  <2> TAKE s \in Kept
  <2>1. s \in DOMAIN sessions
    BY <1>3
  <2>2. sessions[s] \in [ctx : Context, ceiling : 0 .. NoCeiling, last_seen : Nat]
    BY <2>1 DEF SessionsTypeOK
  <2> QED
    BY <1>1, <2>1, <2>2
<1>6. CASE Kept = {}
  BY <1>1, <1>2, <1>6, FS_EmptySet
<1>7. CASE Kept # {}
  <2> DEFINE seen == {sessions[s].last_seen : s \in Kept}
  <2>1. PICK n \in seen : \A x \in seen : n <= x
    <3>1. seen \subseteq Nat /\ seen # {}
      BY <1>5, <1>7
    <3> HIDE DEF seen
    <3> QED
      BY <3>1, Smallest
  <2> DEFINE first == {s \in Kept : sessions[s].last_seen = n}
  <2>2. PICK m \in first : \A s \in first : m <= s
    <3>1. first \subseteq Nat /\ first # {}
      BY <1>5, <2>1
    <3> HIDE DEF first
    <3> QED
      BY <3>1, Smallest
  <2>3. \A s \in Kept \ {m} : SeenAfter(s, m)
    <3> TAKE s \in Kept \ {m}
    <3>1. sessions[m].last_seen <= sessions[s].last_seen
      BY <2>1, <2>2
    <3>2. sessions[s].last_seen = sessions[m].last_seen => m <= s
      BY <2>2
    <3> QED
      BY <1>5, <2>2, <3>1, <3>2 DEF SeenAfter
  <2> DEFINE after == {u \in Fresh : SeenAfter(u, m)}
             rest == Kept \ {m}
  <2>4. m \in Kept /\ Cardinality(after) < MaxSessions - 1
    BY <2>2 DEF Kept
  <2>5. rest \subseteq after
    BY <1>3, <2>3
  <2>6. IsFiniteSet(after) /\ Cardinality(after) \in Nat
    BY <1>4, FS_Subset, FS_CardinalityType
  <2>7. Cardinality(rest) = Cardinality(Kept) - 1
    BY <1>4, <2>4, FS_RemoveElement
  <2>8. Cardinality(rest) <= Cardinality(after)
    <3> HIDE DEF rest, after
    <3> QED
      BY <2>5, <2>6, FS_Subset
  <2>9. Cardinality(Kept) \in Nat
    BY <1>4, FS_CardinalityType
  <2> HIDE DEF rest, after
  <2>10. Cardinality(Kept) <= MaxSessions - 1
    BY <1>1, <2>4, <2>6, <2>7, <2>8, <2>9
  <2> QED
    BY <1>2, <1>3, <1>4, <2>10
<1> QED
  BY <1>6, <1>7

(* What create does to the table. *)
LEMMA CreateTable ==
    ASSUME SessionsTypeOK, NEW c \in 0 .. NoCeiling, Create(c)
    PROVE  /\ created' = created + 1 /\ created' \in Id
           /\ DOMAIN sessions' = Kept \cup {created'}
           /\ Cardinality(DOMAIN sessions') <= MaxSessions
           /\ created' \notin DOMAIN sessions
           /\ \A u \in Kept : sessions'[u] = sessions[u]
           /\ sessions'[created'] = [ctx |-> SessionContext(created', c),
                                     ceiling |-> c, last_seen |-> now]
           /\ consent' = [consent EXCEPT ![created'] = c]
           /\ served' = [served EXCEPT ![created'] = now]
<1>1. /\ created' = created + 1 /\ created \in Nat /\ created < MaxIds /\ MaxIds \in Nat
      /\ DOMAIN sessions \subseteq 1 .. created
  BY SessionsAssumption DEF Create, SessionsTypeOK
<1>2. created' \in Id /\ created' \notin DOMAIN sessions
  BY <1>1 DEF Id
<1>3. Kept \subseteq DOMAIN sessions /\ IsFiniteSet(Kept) /\ Cardinality(Kept) <= MaxSessions - 1
  BY KeptFew
<1>4. sessions' = [u \in Kept \cup {created'} |->
                      IF u = created'
                        THEN [ctx |-> SessionContext(created', c), ceiling |-> c,
                              last_seen |-> now]
                        ELSE sessions[u]]
  BY <1>1 DEF Create
<1>5. DOMAIN sessions' = Kept \cup {created'}
  BY <1>4
<1>6. Cardinality(DOMAIN sessions') <= MaxSessions
  <2>1. Cardinality(Kept \cup {created'}) = Cardinality(Kept) + 1
    <3>1. PICK s : s = created'
      OBVIOUS
    <3>2. s \notin Kept
      BY <1>2, <1>3, <3>1
    <3> QED
      BY <1>3, <3>1, <3>2, FS_AddElement
  <2> QED
    BY <1>3, <1>5, <2>1, FS_CardinalityType, SessionsAssumption
<1>7. \A u \in Kept : sessions'[u] = sessions[u]
  BY <1>2, <1>3, <1>4
<1> QED
  BY <1>1, <1>2, <1>4, <1>5, <1>6, <1>7 DEF Create

(* A dispatching thread works on the objects of the session it looked up,  *)
(* and on the kill switch of the process.                                  *)
LEMMA DispatchContext ==
    ASSUME SessionsTypeOK, ThreadInv, NEW t \in Thread, pc[t] = "dispatch"
    PROVE  /\ session_id[t] \in Id /\ session_id[t] <= created
           /\ ctx[t].taint = session_id[t] /\ ctx[t].approvals = session_id[t]
           /\ ctx[t].budget = session_id[t] /\ ctx[t].kill_switch = Base
           /\ ctx[t].ceiling = consent[session_id[t]]
           /\ msg[t].method = "tools/call" => msg[t].tool \in Tool
           /\ msg[t].token \in Token \cup {NoToken}
<1>1. /\ session_id[t] \in 1 .. created
      /\ ctx[t] = SessionContext(session_id[t], consent[session_id[t]])
  BY DEF ThreadInv
<1>2. session_id[t] \in Id /\ session_id[t] <= created
  BY <1>1, SessionsAssumption DEF SessionsTypeOK, Id
<1>3. consent[session_id[t]] \in 0 .. NoCeiling
  BY <1>2 DEF SessionsTypeOK
<1>4. /\ ctx[t].taint = session_id[t] /\ ctx[t].approvals = session_id[t]
      /\ ctx[t].budget = session_id[t] /\ ctx[t].kill_switch = Base
      /\ ctx[t].ceiling = consent[session_id[t]]
  <2>1. PICK s, c : s = session_id[t] /\ c = consent[session_id[t]]
    OBVIOUS
  <2> QED
    BY <1>1, <1>2, <1>3, <2>1, ContextType
<1>5. msg[t] \in Message
  BY DEF SessionsTypeOK
<1>6. /\ msg[t].method = "tools/call" => msg[t].tool \in Tool
      /\ msg[t].token \in Token \cup {NoToken}
  <2>1. PICK m : m = msg[t]
    OBVIOUS
  <2> QED
    BY <1>5, <2>1, MessageFields
<1> QED
  BY <1>2, <1>4, <1>6

-----------------------------------------------------------------------------
(* The types. *)
LEMMA TypeStep ==
    ASSUME SessionsInv, [Next]_vars
    PROVE  SessionsTypeOK'
<1> USE SessionsAssumption
<1>1. SessionsTypeOK /\ ThreadInv
  BY DEF SessionsInv
<1>2. NoContext \in Context /\ NoMessage \in Message
  BY DEF NoContext, Context, Owner, NoCeiling, Message
<1>3. ASSUME NEW t \in Thread, NEW m \in Message, Turnaway(t, m) PROVE SessionsTypeOK'
  BY <1>1, <1>3 DEF SessionsTypeOK, Turnaway, contextVars, historyVars
<1>4. ASSUME NEW t \in Thread, NEW m \in Message, Post(t, m) PROVE SessionsTypeOK'
  <2>1. m.header \in Id \cup {NoId}
    BY MessageFields
  <2>2. CASE Initializes(m)
    <3>1. PICK c \in 0 .. NoCeiling : Create(c) /\ c = ParseCeiling(m.ceiling)
      <4>1. m.ceiling \in ConsentParam
        BY <2>2, MessageFields DEF Initializes
      <4> QED
        BY <1>4, <2>2, <4>1, CeilingType DEF Post
    <3>2. /\ created' = created + 1 /\ created' \in Id
          /\ DOMAIN sessions' = Kept \cup {created'}
          /\ Cardinality(DOMAIN sessions') <= MaxSessions
          /\ \A u \in Kept : sessions'[u] = sessions[u]
          /\ sessions'[created'] = [ctx |-> SessionContext(created', c),
                                    ceiling |-> c, last_seen |-> now]
          /\ consent' = [consent EXCEPT ![created'] = c]
          /\ served' = [served EXCEPT ![created'] = now]
      BY <1>1, <3>1, CreateTable
    <3>3. Kept \subseteq DOMAIN sessions
      BY <1>1, KeptFew
    <3>4. SessionContext(created', c) \in Context
      <4>1. PICK s : s = created'
        OBVIOUS
      <4> QED
        BY <3>2, <4>1, ContextType
    <3>5. \A s \in DOMAIN sessions' :
              sessions'[s] \in [ctx : Context, ceiling : 0 .. NoCeiling, last_seen : Nat]
      <4>1. now \in Nat
        BY <1>1 DEF SessionsTypeOK
      <4>2. \A s \in DOMAIN sessions :
              sessions[s] \in [ctx : Context, ceiling : 0 .. NoCeiling, last_seen : Nat]
        BY <1>1 DEF SessionsTypeOK
      <4> QED
        BY <3>2, <3>3, <3>4, <4>1, <4>2
    <3>6. created' \in 0 .. MaxIds /\ DOMAIN sessions' \subseteq 1 .. created'
      BY <1>1, <3>2, <3>3 DEF SessionsTypeOK, Id
    <3> QED
      BY <1>1, <1>4, <2>2, <3>2, <3>5, <3>6 DEF SessionsTypeOK, Post, contextVars
  <2>3. CASE ~ Initializes(m)
    BY <1>1, <1>4, <2>1, <2>3 DEF SessionsTypeOK, Post, contextVars
  <2> QED
    BY <2>2, <2>3
<1>5. ASSUME NEW t \in Thread, Refuse(t) PROVE SessionsTypeOK'
  BY <1>1, <1>2, <1>5 DEF SessionsTypeOK, Refuse, Answered, contextVars, historyVars
<1>6. ASSUME NEW t \in Thread, Found(t) PROVE SessionsTypeOK'
  <2>1. /\ session_id[t] \in DOMAIN sessions
        /\ sessions' = [sessions EXCEPT ![session_id[t]].last_seen = now]
    BY <1>6 DEF Found
  <2>2. DOMAIN sessions' = DOMAIN sessions
    BY <2>1
  <2>3. /\ sessions[session_id[t]].ctx \in Context
        /\ \A s \in DOMAIN sessions' :
              sessions'[s] \in [ctx : Context, ceiling : 0 .. NoCeiling, last_seen : Nat]
    BY <1>1, <2>1, <2>2 DEF SessionsTypeOK
  <2>4. session_id[t] \in Id
    BY <1>1, <2>1 DEF SessionsTypeOK, Id
  <2> QED
    BY <1>1, <1>6, <2>2, <2>3, <2>4 DEF SessionsTypeOK, Found, contextVars
<1>7. ASSUME NEW t \in Thread, NotFound(t) PROVE SessionsTypeOK'
  <2>1. sessions' = [u \in DOMAIN sessions \ {session_id[t]} |-> sessions[u]]
    BY <1>7 DEF NotFound, Drop
  <2>2. DOMAIN sessions' \subseteq DOMAIN sessions
    BY <2>1
  <2>3. Cardinality(DOMAIN sessions') <= MaxSessions
    <3>1. /\ IsFiniteSet(DOMAIN sessions) /\ Cardinality(DOMAIN sessions) <= MaxSessions
      BY <1>1, KeptFew DEF SessionsTypeOK
    <3>2. PICK A, B : A = DOMAIN sessions' /\ B = DOMAIN sessions
      OBVIOUS
    <3>3. Cardinality(A) <= Cardinality(B) /\ Cardinality(A) \in Nat /\ Cardinality(B) \in Nat
      BY <2>2, <3>1, <3>2, FS_Subset, FS_CardinalityType
    <3> QED
      BY <3>1, <3>2, <3>3
  <2>4. \A s \in DOMAIN sessions' :
            sessions'[s] \in [ctx : Context, ceiling : 0 .. NoCeiling, last_seen : Nat]
    BY <1>1, <2>1 DEF SessionsTypeOK
  <2> QED
    BY <1>1, <1>2, <1>7, <2>2, <2>3, <2>4
       DEF SessionsTypeOK, NotFound, Answered, contextVars, historyVars
<1>8. ASSUME NEW t \in Thread, Dispatch(t) PROVE SessionsTypeOK'
  <2>1. pc[t] = "dispatch" /\ Answered(t) /\
        UNCHANGED <<now, sessions, created, posts, consent, served, lapsed>>
    BY <1>8 DEF Dispatch
  <2>2. /\ session_id[t] \in Id /\ session_id[t] \in Owner
        /\ ctx[t].taint = session_id[t] /\ ctx[t].approvals = session_id[t]
        /\ ctx[t].budget = session_id[t] /\ ctx[t].kill_switch = Base
        /\ msg[t].method = "tools/call" => msg[t].tool \in Tool
        /\ msg[t].token \in Token \cup {NoToken}
    BY <1>1, <2>1, DispatchContext DEF Owner
  <2>3. /\ now' \in Nat /\ created' \in 0 .. MaxIds /\ posts' \in 0 .. MaxPosts
        /\ DOMAIN sessions' \subseteq 1 .. created'
        /\ Cardinality(DOMAIN sessions') <= MaxSessions
        /\ \A s \in DOMAIN sessions' :
              sessions'[s] \in [ctx : Context, ceiling : 0 .. NoCeiling, last_seen : Nat]
        /\ pc' \in [Thread -> {"idle", "refuse", "get", "dispatch"}]
        /\ msg' \in [Thread -> Message]
        /\ session_id' \in [Thread -> Id \cup {NoId}]
        /\ ctx' \in [Thread -> Context]
        /\ consent' \in [Id -> 0 .. NoCeiling]
        /\ served' \in [Id -> Nat]
        /\ lapsed' \subseteq Id
    BY <1>1, <1>2, <2>1 DEF SessionsTypeOK, Answered
  <2>4. /\ taint' \subseteq Owner /\ tripped' \subseteq Owner
        /\ pending' \in [Owner -> SUBSET [token : Token, tool : Tool]]
        /\ spent' \in [Owner -> 0 .. MaxActions]
        /\ minted' \in 0 .. MaxMints
        /\ observed' \in BOOLEAN
        /\ exposed' \subseteq Id
        /\ minter' \in [Token -> Id \cup {NoId}]
        /\ acted' \in [Id -> Nat]
        /\ ran' \subseteq [session : Id, tool : Tool, token : Token \cup {NoToken}]
        /\ stop' \in BOOLEAN
    <3>1. CASE NoCall(t)
      BY <1>1, <3>1 DEF SessionsTypeOK, NoCall, contextVars
    <3>2. CASE Refused(t)
      BY <1>1, <2>2, <3>2 DEF SessionsTypeOK, Refused
    <3>3. CASE Ingest(t)
      BY <1>1, <2>2, <3>3 DEF SessionsTypeOK, Ingest, Expose
    <3>4. CASE Query(t)
      BY <1>1, <2>2, <3>4 DEF SessionsTypeOK, Query, Expose
    <3>5. CASE EmergencyStop(t)
      BY <1>1, <2>2, <3>5 DEF SessionsTypeOK, EmergencyStop, Owner
    <3>6. CASE Preview(t)
      <4>1. /\ taint' \subseteq Owner /\ tripped' \subseteq Owner
            /\ spent' \in [Owner -> 0 .. MaxActions]
            /\ observed' \in BOOLEAN
            /\ exposed' \subseteq Id
            /\ acted' \in [Id -> Nat]
            /\ ran' \subseteq [session : Id, tool : Tool, token : Token \cup {NoToken}]
            /\ stop' \in BOOLEAN
        BY <1>1, <3>6 DEF SessionsTypeOK, Preview
      <4>2. msg[t].tool \in Tool
        BY <2>2, <3>6 DEF Preview, Calls
      <4>3. /\ minted' \in 0 .. MaxMints
            /\ pending' \in [Owner -> SUBSET [token : Token, tool : Tool]]
            /\ minter' \in [Token -> Id \cup {NoId}]
        <5>1. CASE Gated(t)
          <6>1. /\ minted' = minted + 1 /\ minted < MaxMints
                /\ pending' = [pending EXCEPT ![session_id[t]] =
                      @ \cup {[token |-> minted', tool |-> msg[t].tool]}]
                /\ minter' = [minter EXCEPT ![minted'] = session_id[t]]
            BY <2>2, <3>6, <5>1 DEF Preview
          <6>2. minted' \in 0 .. MaxMints /\ minted' \in Token
            BY <1>1, <6>1 DEF SessionsTypeOK, Token
          <6> QED
            BY <1>1, <2>2, <4>2, <6>1, <6>2 DEF SessionsTypeOK
        <5>2. CASE ~ Gated(t)
          BY <1>1, <3>6, <5>2 DEF SessionsTypeOK, Preview
        <5> QED
          BY <5>1, <5>2
      <4> QED
        BY <4>1, <4>3
    <3>7. CASE Act(t)
      <4>1. /\ taint' \subseteq Owner /\ tripped' \subseteq Owner
            /\ minted' \in 0 .. MaxMints
            /\ observed' \in BOOLEAN
            /\ exposed' \subseteq Id
            /\ minter' \in [Token -> Id \cup {NoId}]
            /\ stop' \in BOOLEAN
        BY <1>1, <3>7 DEF SessionsTypeOK, Act
      <4>2. pending' \in [Owner -> SUBSET [token : Token, tool : Tool]]
        BY <1>1, <2>2, <3>7 DEF SessionsTypeOK, Act
      <4>3. spent' \in [Owner -> 0 .. MaxActions] /\ acted' \in [Id -> Nat]
        BY <1>1, <2>2, <3>7 DEF SessionsTypeOK, Act
      <4>4. ran' \subseteq [session : Id, tool : Tool, token : Token \cup {NoToken}]
        <5>1. PICK k \in Token \cup {NoToken} :
                  ran' = ran \cup {[session |-> session_id[t], tool |-> msg[t].tool,
                                    token |-> k]}
          BY <2>2, <3>7 DEF Act
        <5>2. msg[t].tool \in Tool
          BY <2>2, <3>7 DEF Act, Calls
        <5> QED
          BY <1>1, <2>2, <5>1, <5>2 DEF SessionsTypeOK
      <4> QED
        BY <4>1, <4>2, <4>3, <4>4
    <3> QED
      BY <1>8, <3>1, <3>2, <3>3, <3>4, <3>5, <3>6, <3>7 DEF Dispatch
  <2> QED
    BY <2>3, <2>4 DEF SessionsTypeOK
<1>9. CASE Tick
  <2>1. DOMAIN sessions \subseteq Id
    BY <1>1 DEF SessionsTypeOK, Id
  <2>2. lapsed' \subseteq Id /\ now' \in Nat
    BY <1>1, <1>9, <2>1 DEF SessionsTypeOK, Tick
  <2> QED
    BY <1>1, <1>9, <2>2 DEF SessionsTypeOK, Tick, contextVars, threadVars
<1>10. CASE UNCHANGED vars
  BY <1>1, <1>10 DEF SessionsTypeOK, vars, contextVars, threadVars, historyVars
<1> QED
  BY <1>3, <1>4, <1>5, <1>6, <1>7, <1>8, <1>9, <1>10 DEF Next, Handle, Ready

(* What the creation of a session by an initialize does. *)
LEMMA PostCreates ==
    ASSUME SessionsTypeOK, NEW t \in Thread, NEW m \in Message, Post(t, m),
           Initializes(m)
    PROVE  \E c \in 0 .. NoCeiling :
              /\ Create(c)
              /\ created' = created + 1 /\ created' \in Id
              /\ DOMAIN sessions' = Kept \cup {created'}
              /\ Kept \subseteq DOMAIN sessions
              /\ created' \notin DOMAIN sessions
              /\ \A u \in Kept : sessions'[u] = sessions[u]
              /\ sessions'[created'] = [ctx |-> SessionContext(created', c),
                                        ceiling |-> c, last_seen |-> now]
              /\ consent' = [consent EXCEPT ![created'] = c]
              /\ served' = [served EXCEPT ![created'] = now]
<1>1. m.ceiling \in ConsentParam
  BY MessageFields DEF Initializes
<1>2. PICK c \in 0 .. NoCeiling : Create(c)
  BY <1>1, CeilingType DEF Post
<1>3. Kept \subseteq DOMAIN sessions
  BY KeptFew
<1> QED
  BY <1>2, <1>3, CreateTable

(* The table. *)
LEMMA TableStep ==
    ASSUME SessionsInv, [Next]_vars
    PROVE  TableInv'
<1> USE SessionsAssumption
<1>1. SessionsTypeOK /\ TableInv
  BY DEF SessionsInv
<1>2. CASE UNCHANGED <<now, sessions, created, consent, served, lapsed>>
  BY <1>1, <1>2 DEF TableInv, Idle
<1>3. ASSUME NEW t \in Thread, NEW m \in Message, Post(t, m) PROVE TableInv'
  <2>1. CASE Initializes(m)
    <3>1. PICK c \in 0 .. NoCeiling :
              /\ created' = created + 1 /\ created' \in Id
              /\ DOMAIN sessions' = Kept \cup {created'}
              /\ Kept \subseteq DOMAIN sessions
              /\ created' \notin DOMAIN sessions
              /\ \A u \in Kept : sessions'[u] = sessions[u]
              /\ sessions'[created'] = [ctx |-> SessionContext(created', c),
                                        ceiling |-> c, last_seen |-> now]
              /\ consent' = [consent EXCEPT ![created'] = c]
              /\ served' = [served EXCEPT ![created'] = now]
      BY <1>1, <1>3, <2>1, PostCreates
    <3>2. now' = now /\ lapsed' = lapsed /\ now \in Nat
      BY <1>1, <1>3 DEF Post, SessionsTypeOK
    <3>3. lapsed' \subseteq 1 .. created' /\ created' \notin lapsed
      BY <1>1, <3>1, <3>2 DEF TableInv, SessionsTypeOK
    <3>4. consent'[created'] = c /\ served'[created'] = now
      BY <1>1, <3>1 DEF SessionsTypeOK
    <3>5. ASSUME NEW u \in Kept
          PROVE  /\ sessions'[u].ctx = SessionContext(u, consent'[u])
                 /\ sessions'[u].last_seen = served'[u]
                 /\ served'[u] <= now'
                 /\ u \in lapsed' <=> now' - sessions'[u].last_seen > SessionTTL
      <4>1. u \in DOMAIN sessions /\ u # created' /\ u \in Id
        <5>1. u \in DOMAIN sessions /\ u # created'
          BY <3>1
        <5>2. DOMAIN sessions \subseteq Id
          BY <1>1 DEF SessionsTypeOK, Id
        <5> QED
          BY <5>1, <5>2
      <4>2. consent'[u] = consent[u] /\ served'[u] = served[u] /\ sessions'[u] = sessions[u]
        BY <1>1, <3>1, <4>1 DEF SessionsTypeOK
      <4>3. /\ sessions[u].ctx = SessionContext(u, consent[u])
            /\ sessions[u].last_seen = served[u] /\ served[u] <= now
            /\ u \in lapsed <=> now - sessions[u].last_seen > SessionTTL
        BY <1>1, <4>1 DEF TableInv, Idle
      <4> QED
        BY <3>2, <4>2, <4>3
    <3>6. ~ (now' - sessions'[created'].last_seen > SessionTTL)
      BY <3>1, <3>2
    <3> QED
      BY <3>1, <3>2, <3>3, <3>4, <3>5, <3>6 DEF TableInv, Idle
  <2>2. CASE ~ Initializes(m)
    BY <1>2, <1>3, <2>2 DEF Post
  <2> QED
    BY <2>1, <2>2
<1>4. ASSUME NEW t \in Thread, Found(t) PROVE TableInv'
  <2>1. /\ session_id[t] \in DOMAIN sessions
        /\ ~ Idle(session_id[t])
        /\ sessions' = [sessions EXCEPT ![session_id[t]].last_seen = now]
        /\ served' = [served EXCEPT ![session_id[t]] = now]
        /\ now' = now /\ consent' = consent /\ lapsed' = lapsed /\ created' = created
    BY <1>4 DEF Found
  <2>2. PICK s : s = session_id[t]
    OBVIOUS
  <2>3. s \in Id /\ now \in Nat
    BY <1>1, <2>1, <2>2 DEF SessionsTypeOK, Id
  <2>4. /\ DOMAIN sessions' = DOMAIN sessions
        /\ sessions'[s].ctx = sessions[s].ctx /\ sessions'[s].last_seen = now
        /\ served'[s] = now
    BY <1>1, <2>1, <2>2, <2>3 DEF SessionsTypeOK
  <2>5. \A u \in DOMAIN sessions : u # s => sessions'[u] = sessions[u] /\ served'[u] = served[u]
    BY <1>1, <2>1, <2>2 DEF SessionsTypeOK
  <2>6. ~ (now' - sessions'[s].last_seen > SessionTTL) /\ s \notin lapsed'
    BY <1>1, <2>1, <2>2, <2>3, <2>4 DEF TableInv
  <2> QED
    BY <1>1, <2>1, <2>2, <2>3, <2>4, <2>5, <2>6 DEF TableInv, Idle
<1>5. ASSUME NEW t \in Thread, NotFound(t) PROVE TableInv'
  <2>1. /\ sessions' = [u \in DOMAIN sessions \ {session_id[t]} |-> sessions[u]]
        /\ UNCHANGED <<now, created, consent, served, lapsed>>
    BY <1>5 DEF NotFound, Drop, historyVars
  <2> QED
    BY <1>1, <2>1 DEF TableInv, Idle
<1>6. CASE Tick
  <2>1. /\ now' = now + 1 /\ now \in Nat
        /\ lapsed' = lapsed \cup {s \in DOMAIN sessions : now' - served[s] > SessionTTL}
        /\ UNCHANGED <<sessions, created, consent, served>>
    BY <1>1, <1>6 DEF Tick, SessionsTypeOK
  <2>2. lapsed' \subseteq 1 .. created'
    BY <1>1, <2>1 DEF TableInv, SessionsTypeOK
  <2>3. ASSUME NEW s \in DOMAIN sessions'
        PROVE  /\ sessions'[s].ctx = SessionContext(s, consent'[s])
               /\ sessions'[s].last_seen = served'[s]
               /\ served'[s] <= now'
               /\ s \in lapsed' <=> now' - sessions'[s].last_seen > SessionTTL
    <3>1. /\ s \in DOMAIN sessions /\ served[s] \in Nat
          /\ sessions[s].last_seen = served[s] /\ served[s] <= now
          /\ sessions[s].ctx = SessionContext(s, consent[s])
          /\ s \in lapsed <=> now - served[s] > SessionTTL
      BY <1>1, <2>1 DEF TableInv, SessionsTypeOK, Idle, Id
    <3>2. s \in lapsed' <=> (s \in lapsed \/ now' - served[s] > SessionTTL)
      BY <2>1, <3>1
    <3> QED
      BY <2>1, <3>1, <3>2
  <2> QED
    BY <2>2, <2>3 DEF TableInv, Idle
<1>7. ASSUME NEW t \in Thread, NEW m \in Message, Turnaway(t, m) PROVE TableInv'
  BY <1>2, <1>7 DEF Turnaway, historyVars
<1>8. ASSUME NEW t \in Thread, Refuse(t) PROVE TableInv'
  BY <1>2, <1>8 DEF Refuse, historyVars
<1>9. ASSUME NEW t \in Thread, Dispatch(t) PROVE TableInv'
  BY <1>2, <1>9 DEF Dispatch
<1>10. CASE UNCHANGED vars
  BY <1>2, <1>10 DEF vars, historyVars
<1> QED
  BY <1>3, <1>4, <1>5, <1>6, <1>7, <1>8, <1>9, <1>10 DEF Next, Handle, Ready

(* The threads. *)
LEMMA ThreadStep ==
    ASSUME SessionsInv, [Next]_vars
    PROVE  ThreadInv'
<1> USE SessionsAssumption
<1>1. SessionsTypeOK /\ TableInv /\ ThreadInv
  BY DEF SessionsInv
<1>2. ASSUME NEW t \in Thread, NEW m \in Message, Turnaway(t, m) PROVE ThreadInv'
  BY <1>1, <1>2 DEF ThreadInv, SessionsTypeOK, Turnaway, historyVars
<1>3. ASSUME NEW t \in Thread, NEW m \in Message, Post(t, m) PROVE ThreadInv'
  <2>1. /\ m.http = "ok" /\ pc' = [pc EXCEPT ![t] = "get"]
        /\ msg' = [msg EXCEPT ![t] = m] /\ ctx' = ctx
    BY <1>3 DEF Post
  <2>2. pc'[t] = "get" /\ msg'[t].http = "ok"
    BY <1>1, <2>1 DEF SessionsTypeOK
  <2>3. ASSUME NEW u \in Thread, u # t
        PROVE  /\ pc'[u] = pc[u] /\ msg'[u] = msg[u] /\ ctx'[u] = ctx[u]
               /\ session_id'[u] = session_id[u]
    BY <1>1, <1>3, <2>1, <2>3 DEF SessionsTypeOK, Post
  <2>4. /\ created' \in Nat /\ created <= created' /\ created \in Nat
        /\ \A s \in 1 .. created : consent'[s] = consent[s]
    <3>1. CASE Initializes(m)
      <4>1. PICK c \in 0 .. NoCeiling :
                /\ created' = created + 1 /\ created' \in Id
                /\ consent' = [consent EXCEPT ![created'] = c]
        BY <1>1, <1>3, <3>1, PostCreates
      <4> QED
        BY <1>1, <4>1 DEF SessionsTypeOK, Id
    <3>2. CASE ~ Initializes(m)
      BY <1>1, <1>3, <3>2 DEF Post, SessionsTypeOK
    <3> QED
      BY <3>1, <3>2
  <2>5. ASSUME NEW u \in Thread, u # t, pc'[u] = "dispatch"
        PROVE  /\ session_id'[u] \in 1 .. created'
               /\ ctx'[u] = SessionContext(session_id'[u], consent'[session_id'[u]])
    <3>1. /\ session_id[u] \in 1 .. created
          /\ ctx[u] = SessionContext(session_id[u], consent[session_id[u]])
      BY <1>1, <2>3, <2>5 DEF ThreadInv
    <3> QED
      BY <2>3, <2>4, <2>5, <3>1
  <2> QED
    BY <1>1, <2>2, <2>3, <2>5 DEF ThreadInv
<1>4. ASSUME NEW t \in Thread, Found(t) PROVE ThreadInv'
  <2>1. /\ pc[t] = "get" /\ session_id[t] \in DOMAIN sessions
        /\ ctx' = [ctx EXCEPT ![t] = sessions[session_id[t]].ctx]
        /\ pc' = [pc EXCEPT ![t] = "dispatch"]
        /\ UNCHANGED <<created, msg, session_id, consent>>
    BY <1>4 DEF Found
  <2>2. /\ session_id[t] \in 1 .. created
        /\ sessions[session_id[t]].ctx = SessionContext(session_id[t], consent[session_id[t]])
    BY <1>1, <2>1 DEF TableInv, SessionsTypeOK
  <2> QED
    BY <1>1, <2>1, <2>2 DEF ThreadInv, SessionsTypeOK
<1>5. ASSUME NEW t \in Thread, Answered(t), UNCHANGED <<created, consent>>
      PROVE  ThreadInv'
  BY <1>1, <1>5 DEF ThreadInv, SessionsTypeOK, Answered
<1>6. ASSUME NEW t \in Thread, NotFound(t) PROVE ThreadInv'
  BY <1>5, <1>6 DEF NotFound, historyVars
<1>7. ASSUME NEW t \in Thread, Refuse(t) PROVE ThreadInv'
  BY <1>5, <1>7 DEF Refuse, historyVars
<1>8. ASSUME NEW t \in Thread, Dispatch(t) PROVE ThreadInv'
  BY <1>5, <1>8 DEF Dispatch
<1>9. CASE Tick
  BY <1>1, <1>9 DEF ThreadInv, Tick, threadVars
<1>10. CASE UNCHANGED vars
  BY <1>1, <1>10 DEF ThreadInv, vars, threadVars, historyVars
<1> QED
  BY <1>2, <1>3, <1>4, <1>6, <1>7, <1>8, <1>9, <1>10 DEF Next, Handle, Ready

(* Only a dispatch touches what the sessions own or what ran. *)
LEMMA OnlyDispatchActs ==
    ASSUME Next \/ UNCHANGED vars
    PROVE  \/ \E t \in Thread : Dispatch(t)
           \/ UNCHANGED <<taint, pending, spent, tripped, minted, observed,
                          exposed, minter, acted, ran, stop>>
<1>1. ASSUME NEW t \in Thread, NEW m \in Message, Turnaway(t, m) \/ Post(t, m)
      PROVE  UNCHANGED <<taint, pending, spent, tripped, minted, observed,
                         exposed, minter, acted, ran, stop>>
  BY <1>1 DEF Turnaway, Post, contextVars, historyVars
<1>2. ASSUME NEW t \in Thread, Refuse(t) \/ Found(t) \/ NotFound(t)
      PROVE  UNCHANGED <<taint, pending, spent, tripped, minted, observed,
                         exposed, minter, acted, ran, stop>>
  BY <1>2 DEF Refuse, Found, NotFound, contextVars, historyVars
<1>3. ASSUME Tick \/ UNCHANGED vars
      PROVE  UNCHANGED <<taint, pending, spent, tripped, minted, observed,
                         exposed, minter, acted, ran, stop>>
  BY <1>3 DEF Tick, vars, contextVars, historyVars
<1> QED
  BY <1>1, <1>2, <1>3 DEF Next, Handle, Ready

(* What the sessions own. *)
LEMMA LedgerStep ==
    ASSUME SessionsInv, [Next]_vars
    PROVE  LedgerInv'
<1> USE SessionsAssumption
<1>1. SessionsTypeOK /\ ThreadInv /\ LedgerInv
  BY DEF SessionsInv
<1>2. CASE UNCHANGED <<taint, pending, spent, tripped, minted, observed,
                       exposed, minter, acted, ran, stop>>
  BY <1>1, <1>2 DEF LedgerInv
<1>3. ASSUME NEW t \in Thread, Dispatch(t) PROVE LedgerInv'
  <2>1. pc[t] = "dispatch"
    BY <1>3 DEF Dispatch
  <2>2. PICK s \in Id : s = session_id[t]
    BY <1>1, <2>1, DispatchContext
  <2>3. /\ ctx[t].taint = s /\ ctx[t].approvals = s
        /\ ctx[t].budget = s /\ ctx[t].kill_switch = Base /\ s \in Owner
    BY <1>1, <2>1, <2>2, DispatchContext DEF Owner
  <2>4. CASE NoCall(t)
    BY <1>2, <2>4 DEF NoCall, contextVars
  <2>5. CASE Refused(t)
    <3>1. /\ \A u \in Owner : pending'[u] \subseteq pending[u]
          /\ UNCHANGED <<taint, spent, minted, exposed, minter, acted>>
      BY <1>1, <2>3, <2>5 DEF Refused, SessionsTypeOK
    <3> QED
      BY <1>1, <3>1 DEF LedgerInv, Owner
  <2>6. CASE Ingest(t)
    BY <1>1, <2>2, <2>3, <2>6 DEF LedgerInv, Ingest, Expose
  <2>7. CASE Query(t)
    BY <1>1, <2>2, <2>3, <2>7 DEF LedgerInv, Query, Expose
  <2>8. CASE EmergencyStop(t)
    BY <1>1, <2>8 DEF LedgerInv, EmergencyStop
  <2>9. CASE Preview(t)
    <3>1. UNCHANGED <<taint, exposed, spent, acted>>
      BY <2>9 DEF Preview
    <3>2. CASE Gated(t)
      <4>1. /\ minted' = minted + 1 /\ minted < MaxMints
            /\ pending' = [pending EXCEPT ![s] =
                  @ \cup {[token |-> minted', tool |-> msg[t].tool]}]
            /\ minter' = [minter EXCEPT ![minted'] = s]
        BY <2>2, <2>3, <2>9, <3>2 DEF Preview
      <4>2. minted \in Nat /\ minted' \in Token /\ minter'[minted'] = s
        BY <1>1, <4>1 DEF SessionsTypeOK, Token
      <4>3. ASSUME NEW u \in Id, NEW p \in pending[u]
            PROVE  p.token <= minted' /\ minter'[p.token] = u
        <5>1. p \in [token : Token, tool : Tool]
          BY <1>1 DEF SessionsTypeOK, Owner
        <5>2. p.token \in Token /\ p.token <= minted /\ minter[p.token] = u
          BY <1>1, <5>1 DEF LedgerInv
        <5> QED
          BY <1>1, <4>1, <4>2, <5>2 DEF SessionsTypeOK, Token
      <4>4. ASSUME NEW u \in Id, NEW p \in pending'[u]
            PROVE  p.token <= minted' /\ minter'[p.token] = u
        <5>1. p \in pending[u] \/ (u = s /\ p.token = minted')
          BY <1>1, <2>3, <4>1 DEF SessionsTypeOK, Owner
        <5> QED
          BY <4>2, <4>3, <5>1 DEF Token
      <4> QED
        BY <1>1, <3>1, <4>4 DEF LedgerInv
    <3>3. CASE ~ Gated(t)
      BY <1>1, <2>9, <3>3 DEF LedgerInv, Preview
    <3> QED
      BY <3>2, <3>3
  <2>10. CASE Act(t)
    <3>1. /\ \A u \in Owner : pending'[u] \subseteq pending[u]
          /\ UNCHANGED <<taint, minted, exposed, minter>>
      BY <1>1, <2>3, <2>10 DEF Act, SessionsTypeOK
    <3>2. /\ spent' = [spent EXCEPT ![s] = @ + 1]
          /\ acted' = [acted EXCEPT ![s] = @ + 1]
      BY <2>2, <2>3, <2>10 DEF Act
    <3>3. \A u \in Id : spent'[u] = acted'[u]
      BY <1>1, <2>3, <3>2 DEF LedgerInv, SessionsTypeOK, Owner
    <3> QED
      BY <1>1, <3>1, <3>3 DEF LedgerInv, Owner
  <2> QED
    BY <1>3, <2>4, <2>5, <2>6, <2>7, <2>8, <2>9, <2>10 DEF Dispatch
<1> QED
  BY <1>2, <1>3, OnlyDispatchActs

(* What ran. *)
LEMMA RanStep ==
    ASSUME SessionsInv, [Next]_vars
    PROVE  RanInv'
<1> USE SessionsAssumption
<1>1. SessionsTypeOK /\ ThreadInv /\ LedgerInv /\ RanInv
  BY DEF SessionsInv
<1>2. ASSUME UNCHANGED <<ran, minted, minter>>,
             created' \in Nat, created <= created',
             \A s \in 1 .. created : consent'[s] = consent[s]
      PROVE  RanInv'
  <2>1. \A r \in ran : r.session \in 1 .. created
    BY <1>1 DEF RanInv, SessionsTypeOK, Id
  <2> QED
    BY <1>1, <1>2, <2>1 DEF RanInv, SessionsTypeOK
<1>3. ASSUME UNCHANGED <<ran, minted, minter, created, consent>> PROVE RanInv'
  BY <1>1, <1>3 DEF RanInv
<1>4. ASSUME NEW t \in Thread, NEW m \in Message, Post(t, m) PROVE RanInv'
  <2>1. UNCHANGED <<ran, minted, minter>>
    BY <1>4 DEF Post, contextVars
  <2>2. CASE Initializes(m)
    <3>1. PICK c \in 0 .. NoCeiling :
              /\ created' = created + 1 /\ created' \in Id
              /\ consent' = [consent EXCEPT ![created'] = c]
      BY <1>1, <1>4, <2>2, PostCreates
    <3>2. /\ created' \in Nat /\ created <= created'
          /\ \A s \in 1 .. created : consent'[s] = consent[s]
      BY <1>1, <3>1 DEF SessionsTypeOK, Id
    <3> QED
      BY <1>2, <2>1, <3>2
  <2>3. CASE ~ Initializes(m)
    BY <1>3, <1>4, <2>1, <2>3 DEF Post
  <2> QED
    BY <2>2, <2>3
<1>5. ASSUME NEW t \in Thread, Dispatch(t) PROVE RanInv'
  <2>1. pc[t] = "dispatch" /\ UNCHANGED <<created, consent>>
    BY <1>5 DEF Dispatch
  <2>2. PICK s \in Id : s = session_id[t]
    BY <1>1, <2>1, DispatchContext
  <2>3. /\ ctx[t].taint = s /\ ctx[t].approvals = s /\ s <= created
        /\ ctx[t].ceiling = consent[s] /\ s \in Owner
        /\ msg[t].method = "tools/call" => msg[t].tool \in Tool
    BY <1>1, <2>1, <2>2, DispatchContext DEF Owner
  <2>4. CASE NoCall(t) \/ Refused(t) \/ Ingest(t) \/ Query(t) \/ EmergencyStop(t)
    BY <1>3, <2>1, <2>4 DEF NoCall, Refused, Ingest, Query, EmergencyStop, contextVars
  <2>5. CASE Preview(t)
    <3>1. CASE Gated(t)
      <4>1. /\ ran' = ran /\ minted' = minted + 1 /\ minted < MaxMints
            /\ minter' = [minter EXCEPT ![minted'] = s]
        BY <2>2, <2>5, <3>1 DEF Preview
      <4>2. ASSUME NEW r \in ran, r.token # NoToken
            PROVE  r.token <= minted' /\ minter'[r.token] = r.session
        <5>1. r.token \in Token /\ r.token <= minted /\ minter[r.token] = r.session
          BY <1>1, <4>2 DEF SessionsTypeOK, RanInv
        <5> QED
          BY <1>1, <4>1, <5>1 DEF SessionsTypeOK, Token
      <4> QED
        BY <1>1, <2>1, <4>1, <4>2 DEF RanInv
    <3>2. CASE ~ Gated(t)
      BY <1>3, <2>1, <2>5, <3>2 DEF Preview
    <3> QED
      BY <3>1, <3>2
  <2>6. CASE Act(t)
    <3>1. UNCHANGED <<minted, minter>>
      BY <2>6 DEF Act
    <3>2. TierOf(msg[t].tool) <= consent[s] /\ msg[t].tool \in Tool
      BY <2>3, <2>6 DEF Act, Permitted, Calls
    <3> DEFINE k == IF Gated(t) THEN msg[t].token ELSE NoToken
               new == [session |-> s, tool |-> msg[t].tool, token |-> k]
    <3>3. ran' = ran \cup {new}
      BY <2>2, <2>6 DEF Act
    <3>4. CASE Gated(t)
      <4>1. k = msg[t].token
        BY <3>4
      <4>2. Presented(t) \in pending[s]
        BY <2>3, <2>6, <3>4 DEF Act
      <4>3. k \in Token /\ k <= minted /\ minter[k] = s
        BY <1>1, <2>3, <4>1, <4>2 DEF SessionsTypeOK, LedgerInv, Presented
      <4>4. k # NoToken
        BY <4>3 DEF Token, NoToken
      <4> HIDE DEF k
      <4> QED
        BY <1>1, <2>1, <2>3, <3>1, <3>2, <3>3, <4>3, <4>4 DEF RanInv
    <3>5. CASE ~ Gated(t)
      <4>1. k = NoToken
        BY <3>5
      <4>2. TierOf(msg[t].tool) < 2
        <5>1. TierOf(msg[t].tool) \in Nat
          BY DEF TierOf
        <5> QED
          BY <3>5, <5>1 DEF Gated
      <4> HIDE DEF k
      <4> QED
        BY <1>1, <2>1, <2>3, <3>1, <3>2, <3>3, <4>1, <4>2 DEF RanInv
    <3> QED
      BY <3>4, <3>5
  <2> QED
    BY <1>5, <2>4, <2>5, <2>6 DEF Dispatch
<1>6. ASSUME NEW t \in Thread, NEW m \in Message, Turnaway(t, m) PROVE RanInv'
  BY <1>3, <1>6 DEF Turnaway, contextVars, historyVars
<1>7. ASSUME NEW t \in Thread, Refuse(t) \/ Found(t) \/ NotFound(t) PROVE RanInv'
  BY <1>3, <1>7 DEF Refuse, Found, NotFound, contextVars, historyVars
<1>8. ASSUME Tick \/ UNCHANGED vars PROVE RanInv'
  BY <1>3, <1>8 DEF Tick, vars, contextVars, historyVars
<1> QED
  BY <1>4, <1>5, <1>6, <1>7, <1>8 DEF Next, Handle, Ready

(* The stop. *)
LEMMA StopStep ==
    ASSUME SessionsInv, [Next]_vars
    PROVE  StopInv'
<1>1. SessionsTypeOK /\ ThreadInv /\ StopInv
  BY DEF SessionsInv
<1>2. ASSUME NEW t \in Thread, Dispatch(t) PROVE StopInv'
  <2>1. ctx[t].kill_switch = Base
    BY <1>1, <1>2, DispatchContext DEF Dispatch
  <2> QED
    BY <1>1, <1>2, <2>1
       DEF StopInv, Dispatch, NoCall, Refused, Ingest, Query, EmergencyStop, Preview,
           Act, contextVars
<1> QED
  BY <1>1, <1>2, OnlyDispatchActs DEF StopInv

-----------------------------------------------------------------------------
(* The server starts in the invariant. *)
LEMMA SessionsInit ==
    ASSUME Init
    PROVE  SessionsInv
<1> USE SessionsAssumption
<1>1. DOMAIN sessions = {}
  BY DEF Init
<1>2. Cardinality(DOMAIN sessions) <= MaxSessions
  BY <1>1, FS_EmptySet
<1>3. NoContext \in Context /\ NoMessage \in Message
  BY DEF NoContext, Context, Owner, NoCeiling, Message
<1>4. SessionsTypeOK
  <2>1. /\ now \in Nat /\ created \in 0 .. MaxIds /\ posts \in 0 .. MaxPosts
        /\ DOMAIN sessions \subseteq 1 .. created
        /\ minted \in 0 .. MaxMints
        /\ spent \in [Owner -> 0 .. MaxActions] /\ acted \in [Id -> Nat]
        /\ served \in [Id -> Nat] /\ consent \in [Id -> 0 .. NoCeiling]
    BY <1>1 DEF Init, NoCeiling
  <2>2. /\ taint \subseteq Owner /\ tripped \subseteq Owner
        /\ pending \in [Owner -> SUBSET [token : Token, tool : Tool]]
        /\ observed \in BOOLEAN /\ stop \in BOOLEAN
        /\ lapsed \subseteq Id /\ exposed \subseteq Id
        /\ minter \in [Token -> Id \cup {NoId}]
        /\ ran \subseteq [session : Id, tool : Tool, token : Token \cup {NoToken}]
    BY DEF Init
  <2>3. /\ pc \in [Thread -> {"idle", "refuse", "get", "dispatch"}]
        /\ msg \in [Thread -> Message]
        /\ session_id \in [Thread -> Id \cup {NoId}]
        /\ ctx \in [Thread -> Context]
    BY <1>3 DEF Init
  <2> QED
    BY <1>1, <1>2, <2>1, <2>2, <2>3 DEF SessionsTypeOK
<1>5. TableInv /\ ThreadInv
  BY <1>1 DEF TableInv, ThreadInv, Init
<1>6. RanInv /\ StopInv
  BY DEF RanInv, StopInv, Init
<1>7. LedgerInv
  <2>1. \A s \in Id : spent[s] = 0 /\ acted[s] = 0 /\ pending[s] = {}
    BY DEF Init, Owner
  <2> QED
    BY <2>1 DEF LedgerInv, Init
<1> QED
  BY <1>4, <1>5, <1>6, <1>7 DEF SessionsInv

(* Every step preserves it. *)
LEMMA SessionsStep ==
    ASSUME SessionsInv, [Next]_vars
    PROVE  SessionsInv'
BY TypeStep, TableStep, ThreadStep, LedgerStep, RanStep, StopStep DEF SessionsInv

(* The invariant of the session table, its threads and what each session   *)
(* owns holds whatever SessionManager and the handlers do.                 *)
THEOREM SessionsSafe == Spec => []SessionsInv
<1>1. Init => SessionsInv
  BY SessionsInit
<1>2. SessionsInv /\ [Next]_vars => SessionsInv'
  BY SessionsStep
<1> QED
  BY <1>1, <1>2, PTL DEF Spec

(* The table never holds more than max_sessions sessions, and every field  *)
(* of the handlers keeps its type.                                         *)
THEOREM SessionsTyped == Spec => []SessionsTypeOK
<1>1. SessionsInv => SessionsTypeOK
  BY DEF SessionsInv
<1> QED
  BY <1>1, SessionsSafe, PTL

(* One client never affects another: session_context gives each session a  *)
(* latch, a registry and a budget that only its own calls touch.           *)
THEOREM SessionsIsolated == Spec => []Isolated
<1>1. ASSUME SessionsInv PROVE Isolated
  <2>1. SessionsTypeOK /\ TableInv /\ LedgerInv /\ RanInv
    BY <1>1 DEF SessionsInv
  <2>2. ASSUME NEW s \in DOMAIN sessions
        PROVE  /\ sessions[s].ctx.taint \in taint <=> s \in exposed
               /\ spent[sessions[s].ctx.budget] = acted[s]
    <3>1. s \in Id
      BY <2>1, SessionsAssumption DEF SessionsTypeOK, Id
    <3>2. sessions[s].ctx = SessionContext(s, consent[s])
      BY <2>1 DEF TableInv
    <3>3. sessions[s].ctx.taint = s /\ sessions[s].ctx.budget = s
      BY <3>2 DEF SessionContext
    <3> QED
      BY <2>1, <3>1, <3>3 DEF LedgerInv
  <2> QED
    BY <2>1, <2>2 DEF Isolated, RanInv
<1> QED
  BY <1>1, SessionsSafe, PTL

(* A stop that one client orders halts every client, because every context *)
(* holds the kill switch of the process.                                   *)
THEOREM StopHaltsAll == Spec => StopIsGlobal
<1>1. ASSUME SessionsInv, [Next]_vars
      PROVE  [stop => ran' = ran /\ acted' = acted]_vars
  <2>1. SUFFICES ASSUME stop PROVE ran' = ran /\ acted' = acted
    OBVIOUS
  <2>2. SessionsTypeOK /\ ThreadInv /\ Base \in tripped
    BY <1>1, <2>1 DEF SessionsInv, StopInv
  <2>3. ASSUME NEW t \in Thread, Dispatch(t) PROVE ran' = ran /\ acted' = acted
    <3>1. ctx[t].kill_switch = Base
      BY <2>2, <2>3, DispatchContext DEF Dispatch
    <3>2. ~ Act(t)
      BY <2>2, <3>1 DEF Act, Permitted
    <3> QED
      BY <2>3, <3>2
         DEF Dispatch, NoCall, Refused, Ingest, Query, EmergencyStop, Preview
  <2> QED
    BY <1>1, <2>3, OnlyDispatchActs
<1> QED
  BY <1>1, SessionsSafe, PTL DEF Spec, StopIsGlobal

(* A lookup by get is the only way from a request to a dispatch. *)
LEMMA DispatchWasFound ==
    ASSUME SessionsTypeOK, Next \/ UNCHANGED vars,
           NEW t \in Thread, pc[t] = "get", pc'[t] = "dispatch"
    PROVE  Found(t)
<1>1. pc \in [Thread -> {"idle", "refuse", "get", "dispatch"}]
  BY DEF SessionsTypeOK
<1>2. ASSUME NEW u \in Thread, NEW m \in Message, Turnaway(u, m) \/ Post(u, m)
      PROVE  FALSE
  BY <1>1, <1>2 DEF Turnaway, Post
<1>3. ASSUME NEW u \in Thread, Refuse(u) \/ NotFound(u) \/ Dispatch(u)
      PROVE  FALSE
  BY <1>1, <1>3 DEF Refuse, NotFound, Dispatch, Answered
<1>4. ~ Tick /\ ~ UNCHANGED vars
  BY DEF Tick, vars, threadVars
<1>5. PICK u \in Thread : Found(u)
  BY <1>2, <1>3, <1>4 DEF Next, Handle, Ready
<1>6. pc' = [pc EXCEPT ![u] = "dispatch"]
  BY <1>5 DEF Found
<1> QED
  BY <1>1, <1>5, <1>6

(* SessionManager.get never hands out a session that was once idle past    *)
(* its TTL or has left the table: last_seen is the only clock, and the     *)
(* entry is dropped or refused before it is ever refreshed.                *)
THEOREM LapsedNeverRevived == Spec => NeverRevived
<1>1. ASSUME SessionsInv, [Next]_vars
      PROVE  \A t \in Thread :
                 pc[t] = "get" /\ pc'[t] = "dispatch" =>
                     /\ session_id[t] \in DOMAIN sessions
                     /\ session_id[t] \notin lapsed
  <2> SUFFICES ASSUME NEW t \in Thread, pc[t] = "get", pc'[t] = "dispatch"
               PROVE  session_id[t] \in DOMAIN sessions /\ session_id[t] \notin lapsed
    OBVIOUS
  <2>1. Found(t)
    BY <1>1, DispatchWasFound DEF SessionsInv
  <2>2. session_id[t] \in DOMAIN sessions /\ ~ Idle(session_id[t])
    BY <2>1 DEF Found
  <2> QED
    BY <1>1, <2>2 DEF SessionsInv, TableInv
<1> QED
  BY <1>1, SessionsSafe, PTL DEF Spec, NeverRevived

(* What create evicts was idle, or was seen no later than any session that *)
(* stays, in a table that was full.                                        *)
LEMMA EvictedWasOldest ==
    ASSUME SessionsTypeOK, NEW s \in DOMAIN sessions, s \notin Kept, ~ Idle(s)
    PROVE  /\ Cardinality(DOMAIN sessions) >= MaxSessions
           /\ \A u \in Kept : sessions[u].last_seen >= sessions[s].last_seen
<1> USE SessionsAssumption
<1> DEFINE After(u) == {v \in Fresh : SeenAfter(v, u)}
<1>1. IsFiniteSet(DOMAIN sessions) /\ Fresh \subseteq DOMAIN sessions /\ s \in Fresh
  BY KeptFew DEF Fresh
<1>2. \A u \in DOMAIN sessions : u \in Nat /\ sessions[u].last_seen \in Nat
  BY DEF SessionsTypeOK
<1>3. \A u : IsFiniteSet(After(u)) /\ Cardinality(After(u)) \in Nat
  <2> TAKE u
  <2>1. After(u) \subseteq DOMAIN sessions
    BY <1>1
  <2> HIDE DEF After
  <2> QED
    BY <1>1, <2>1, FS_Subset, FS_CardinalityType
<1>4. Cardinality(After(s)) >= MaxSessions - 1
  <2>1. ~ (Cardinality(After(s)) < MaxSessions - 1)
    BY <1>1 DEF Kept
  <2> HIDE DEF After
  <2> QED
    BY <1>3, <2>1
<1>5. Cardinality(DOMAIN sessions) >= MaxSessions
  <2>1. s \notin After(s) /\ After(s) \cup {s} \subseteq DOMAIN sessions
    BY <1>1, <1>2 DEF SeenAfter
  <2> HIDE DEF After
  <2>2. Cardinality(After(s) \cup {s}) = Cardinality(After(s)) + 1
    BY <1>3, <2>1, FS_AddElement
  <2>3. Cardinality(After(s) \cup {s}) <= Cardinality(DOMAIN sessions)
    BY <1>1, <2>1, FS_Subset
  <2>4. Cardinality(DOMAIN sessions) \in Nat
    BY <1>1, FS_CardinalityType
  <2> QED
    BY <1>3, <1>4, <2>2, <2>3, <2>4
<1>6. ASSUME NEW u \in Kept, ~ (sessions[u].last_seen >= sessions[s].last_seen)
      PROVE  FALSE
  <2>1. u \in Fresh /\ Cardinality(After(u)) < MaxSessions - 1
    BY DEF Kept
  <2>2. sessions[u].last_seen < sessions[s].last_seen
    BY <1>1, <1>2, <1>6, <2>1
  <2>3. After(s) \subseteq After(u)
    BY <1>1, <1>2, <2>1, <2>2 DEF SeenAfter
  <2> HIDE DEF After
  <2>4. Cardinality(After(s)) <= Cardinality(After(u))
    BY <1>3, <2>3, FS_Subset
  <2> QED
    BY <1>3, <1>4, <2>1, <2>4
<1> QED
  BY <1>5, <1>6

(* A session leaves the table only idle, or as the least recently served   *)
(* of a full table, by the TTL and LRU rules of _evict_locked and get.     *)
THEOREM EvictsIdleOrOldest == Spec => LeavesIdleOrOldest
<1> DEFINE Fair(s) ==
        \/ now - served[s] > SessionTTL
        \/ /\ Cardinality(DOMAIN sessions) >= MaxSessions
           /\ \A u \in DOMAIN sessions \cap DOMAIN sessions' :
                 served[u] >= served[s]
<1>1. ASSUME SessionsInv, [Next]_vars
      PROVE  \A s \in DOMAIN sessions \ DOMAIN sessions' : Fair(s)
  <2> SUFFICES ASSUME NEW s \in DOMAIN sessions \ DOMAIN sessions' PROVE Fair(s)
    OBVIOUS
  <2>1. /\ SessionsTypeOK
        /\ \A u \in DOMAIN sessions : sessions[u].last_seen = served[u]
    BY <1>1 DEF SessionsInv, TableInv
  <2>2. ASSUME Idle(s) PROVE Fair(s)
    BY <2>1, <2>2 DEF Idle
  <2>3. ASSUME NEW t \in Thread, NEW m \in Message, Post(t, m) PROVE Fair(s)
    <3>1. Initializes(m)
      BY <2>3 DEF Post
    <3>2. PICK c \in 0 .. NoCeiling :
              /\ created' = created + 1 /\ created' \in Id
              /\ DOMAIN sessions' = Kept \cup {created'}
              /\ Kept \subseteq DOMAIN sessions
              /\ created' \notin DOMAIN sessions
      BY <2>1, <2>3, <3>1, PostCreates
    <3>3. CASE ~ Idle(s)
      <4>1. /\ Cardinality(DOMAIN sessions) >= MaxSessions
            /\ \A u \in Kept : sessions[u].last_seen >= sessions[s].last_seen
        BY <2>1, <3>2, <3>3, EvictedWasOldest
      <4>2. \A u \in DOMAIN sessions \cap DOMAIN sessions' : u \in Kept
        BY <3>2
      <4> QED
        BY <2>1, <4>1, <4>2
    <3> QED
      BY <2>2, <3>3
  <2>4. ASSUME NEW t \in Thread, NotFound(t) PROVE Fair(s)
    <3>1. DOMAIN sessions' = DOMAIN sessions \ {session_id[t]}
      BY <2>4 DEF NotFound, Drop
    <3>2. s = session_id[t]
      BY <3>1
    <3> QED
      BY <2>2, <2>4, <3>2 DEF NotFound
  <2>5. ASSUME NEW t \in Thread, NEW m \in Message, Turnaway(t, m) PROVE FALSE
    BY <2>5 DEF Turnaway
  <2>6. ASSUME NEW t \in Thread, Refuse(t) \/ Found(t) \/ Dispatch(t) PROVE FALSE
    <3>1. DOMAIN sessions' = DOMAIN sessions
      BY <2>6 DEF Refuse, Found, Dispatch
    <3> QED
      BY <3>1
  <2>7. ~ Tick /\ ~ UNCHANGED vars
    BY DEF Tick, vars
  <2> QED
    BY <1>1, <2>3, <2>4, <2>5, <2>6, <2>7 DEF Next, Handle, Ready
<1> QED
  BY <1>1, SessionsSafe, PTL DEF Spec, LeavesIdleOrOldest

(* A notification, or a request that do_POST refuses, mints and evicts no  *)
(* session and reaches no context; a notification refreshes the session it *)
(* names, or deletes it if it is idle (http_server.py, _dispatch and get). *)
THEOREM NotificationsTouchOne == Spec => NotificationsOnlyTouch
<1> DEFINE Taken(t) == IF pc[t] = "idle" THEN msg'[t] ELSE msg[t]
           Names(t) == session_id[t]
           Touches(t) ==
              /\ UNCHANGED <<created, contextVars, acted, ran, stop>>
              /\ DOMAIN sessions' \in
                    {DOMAIN sessions, DOMAIN sessions \ ({Names(t)} \cap lapsed)}
              /\ \A u \in DOMAIN sessions' :
                    \/ sessions'[u] = sessions[u]
                    \/ /\ u = Names(t) /\ Names(t) \notin lapsed /\ Taken(t).http = "ok"
                       /\ sessions'[u] = [sessions[u] EXCEPT !.last_seen = now]
<1>1. ASSUME SessionsInv, [Next]_vars
      PROVE  \A t \in Thread :
                 pc'[t] # pc[t] /\ (~ Taken(t).request \/ Taken(t).http # "ok")
                     => Touches(t)
  <2> SUFFICES ASSUME NEW t \in Thread, pc'[t] # pc[t],
                      ~ Taken(t).request \/ Taken(t).http # "ok"
               PROVE  Touches(t)
    OBVIOUS
  <2>1. SessionsTypeOK /\ ThreadInv /\ TableInv
    BY <1>1 DEF SessionsInv
  <2>2. /\ pc \in [Thread -> {"idle", "refuse", "get", "dispatch"}]
        /\ msg \in [Thread -> Message]
    BY <2>1 DEF SessionsTypeOK
  <2>3. ASSUME NEW u \in Thread, NEW m \in Message, Turnaway(u, m) PROVE Touches(t)
    BY <2>3 DEF Turnaway, historyVars
  <2>4. ASSUME NEW u \in Thread, NEW m \in Message, Post(u, m) PROVE Touches(t)
    <3>1. u = t /\ pc[t] = "idle" /\ msg'[t] = m /\ m.http = "ok"
      BY <2>2, <2>4 DEF Post
    <3>2. ~ Initializes(m)
      BY <3>1 DEF Initializes
    <3> QED
      BY <2>4, <3>2 DEF Post
  <2>5. ASSUME NEW u \in Thread, Refuse(u) PROVE Touches(t)
    BY <2>5 DEF Refuse, historyVars
  <2>6. ASSUME NEW u \in Thread, Found(u) PROVE Touches(t)
    <3>1. u = t /\ pc[t] = "get"
      BY <2>2, <2>6 DEF Found
    <3> DEFINE s == session_id[t]
    <3>2. /\ s \in DOMAIN sessions /\ ~ Idle(s)
          /\ sessions' = [sessions EXCEPT ![s].last_seen = now]
      BY <2>6, <3>1 DEF Found
    <3>3. s \notin lapsed /\ Taken(t).http = "ok"
      BY <2>1, <3>1, <3>2 DEF TableInv, ThreadInv
    <3>4. /\ DOMAIN sessions' = DOMAIN sessions
          /\ \A v \in DOMAIN sessions' :
                \/ sessions'[v] = sessions[v]
                \/ v = s /\ sessions'[v] = [sessions[v] EXCEPT !.last_seen = now]
      BY <3>2
    <3>5. UNCHANGED <<created, contextVars, acted, ran, stop>>
      BY <2>6 DEF Found
    <3> QED
      BY <3>3, <3>4, <3>5
  <2>7. ASSUME NEW u \in Thread, NotFound(u) PROVE Touches(t)
    <3>1. u = t
      BY <2>2, <2>7 DEF NotFound, Answered
    <3> DEFINE s == session_id[t]
    <3>2. /\ DOMAIN sessions' = DOMAIN sessions \ {s}
          /\ \A v \in DOMAIN sessions' : sessions'[v] = sessions[v]
      BY <2>7, <3>1 DEF NotFound, Drop
    <3>3. s \in DOMAIN sessions => s \in lapsed
      BY <2>1, <2>7, <3>1 DEF NotFound, TableInv
    <3>4. UNCHANGED <<created, contextVars, acted, ran, stop>>
      BY <2>7 DEF NotFound, historyVars
    <3>5. DOMAIN sessions' \in {DOMAIN sessions, DOMAIN sessions \ ({s} \cap lapsed)}
      <4>1. CASE s \in lapsed
        <5>1. {s} \cap lapsed = {s}
          BY <4>1
        <5> QED
          BY <3>2, <5>1
      <4>2. CASE s \notin lapsed
        BY <3>2, <3>3, <4>2
      <4> QED
        BY <4>1, <4>2
    <3> QED
      BY <3>2, <3>4, <3>5
  <2>8. ASSUME NEW u \in Thread, Dispatch(u) PROVE Touches(t)
    <3>1. u = t /\ pc[t] = "dispatch"
      BY <2>2, <2>8 DEF Dispatch, Answered
    <3>2. ~ msg[t].request
      BY <2>1, <3>1 DEF ThreadInv
    <3>3. NoCall(t)
      BY <2>8, <3>1, <3>2
         DEF Dispatch, Refused, Ingest, Query, EmergencyStop, Preview, Act, Calls
    <3> QED
      BY <2>8, <3>3 DEF Dispatch, NoCall
  <2>9. ~ Tick /\ ~ UNCHANGED vars
    BY DEF Tick, vars, threadVars
  <2> HIDE DEF Touches
  <2> QED
    BY <1>1, <2>3, <2>4, <2>5, <2>6, <2>7, <2>8, <2>9 DEF Next, Handle, Ready
<1> QED
  BY <1>1, SessionsSafe, PTL DEF Spec, NotificationsOnlyTouch
=============================================================================
