------------------------------ MODULE Sessions ------------------------------
(***************************************************************************)
(* The HTTP transport (http_server.py): the handler threads, the           *)
(* SessionManager they share, and the per-session contexts it hands out.   *)
(* do_POST takes the manager's lock twice for an initialize (create, then  *)
(* get) and once for any other message, and dispatches after releasing it, *)
(* so other threads create and evict sessions in between.                  *)
(*                                                                         *)
(* A context refers to objects by the session that owns them; the process  *)
(* owns Base.  Module Runner has run() step by step; here a dispatched     *)
(* tool call is one step, with the parts of run() that tell sessions       *)
(* apart: the kill switch, consent, taint, nonces and budget.              *)
(***************************************************************************)
EXTENDS Naturals, FiniteSets

CONSTANTS
    Thread,             \* the handler threads of ThreadingHTTPServer
    MaxSessions,        \* SessionManager.max_sessions
    SessionTTL,         \* SessionManager.ttl_seconds, in clock ticks
    Tool,               \* the tools that are called
    MaxActions,         \* PRAXIS_MAX_ACTIONS
    ConsentParam,       \* what initialize may carry as consentCeiling
    MaxIds,             \* bound: sessions created in a behaviour
    MaxPosts,           \* bound: messages the handlers take up
    MaxMints,           \* bound: nonces minted in a behaviour
    MaxTime             \* bound: how far the clock runs

ASSUME SessionsAssumption ==
    /\ MaxSessions \in Nat \ {0}
    /\ ConsentParam \subseteq {"absent", "malformed", "T0", "T1", "T2", "T3"}
    /\ SessionTTL \in Nat
    /\ Tool \subseteq {"query", "ingest", "stop", "touch", "restart"}
    /\ MaxActions \in Nat
    /\ MaxIds \in Nat /\ MaxPosts \in Nat /\ MaxMints \in Nat /\ MaxTime \in Nat

Id == 1 .. MaxIds       \* secrets.token_urlsafe(24), in the order drawn
NoId == 0
Base == 0
Owner == Id \cup {Base}
Token == 1 .. MaxMints
NoToken == 0

(* The tier a tool is classified at. *)
TierOf(tool) == CASE tool = "touch" -> 1 [] tool = "restart" -> 2 [] OTHER -> 0

NoCeiling == 4          \* None: above every tier

(* What the handler finds out about a request before it looks at the       *)
(* message: "ok", or that it answers at once (a GET, no bearer token, no   *)
(* or a bad or too large Content-Length, no JSON, no object).              *)
Http == {"ok", "refused"}

NoMessage ==
    [http |-> "refused", request |-> FALSE, method |-> "other",
     ceiling |-> "absent", header |-> NoId, tool |-> "query",
     dry_run |-> FALSE, token |-> NoToken]

(* The messages, with a default in the fields that their handling does not *)
(* look at.  A notification is a message without an id.                    *)
InitializeWith(r, p) ==
    [NoMessage EXCEPT !.http = "ok", !.request = r, !.method = "initialize",
                      !.ceiling = p]

CallOf(s, x, n) ==
    [NoMessage EXCEPT !.http = "ok", !.request = TRUE, !.method = "tools/call",
                      !.header = s, !.tool = x, !.token = n]

DryRunOf(s, x) ==
    [NoMessage EXCEPT !.http = "ok", !.request = TRUE, !.method = "tools/call",
                      !.header = s, !.tool = x, !.dry_run = TRUE]

ReadTool == {x \in Tool : TierOf(x) = 0}

Initialize == {InitializeWith(r, p) : r \in BOOLEAN, p \in ConsentParam}

ReadCall == {CallOf(s, x, NoToken) : s \in Id, x \in ReadTool}

DryRun == {DryRunOf(s, x) : s \in Id, x \in Tool \ ReadTool}

RealRun ==
    {CallOf(s, x, n) :
        s \in Id, x \in Tool \ ReadTool, n \in Token \cup {NoToken}}

(* A real run without an id; one that would need no nonce stands for all.  *)
Notification ==
    {[m EXCEPT !.request = FALSE, !.dry_run = FALSE] :
        m \in {d \in DryRun : TierOf(d.tool) = 1}}

OtherMethod ==
    {[NoMessage EXCEPT !.http = "ok", !.request = TRUE, !.header = s] :
        s \in Id \cup {NoId}}

Message == Initialize \cup ReadCall \cup DryRun \cup RealRun \cup Notification
           \cup OtherMethod \cup {NoMessage}

Context ==
    [taint : Owner, approvals : Owner, budget : Owner, kill_switch : Owner,
     ceiling : 0 .. NoCeiling]

NoContext ==
    [taint |-> Base, approvals |-> Base, budget |-> Base, kill_switch |-> Base,
     ceiling |-> 0]

VARIABLES
    now,            \* the monotonic clock
    sessions,       \* SessionManager._sessions, keyed by id
    created,        \* how many session ids have been drawn
    posts,          \* how many messages have been taken up
    taint,          \* the owners whose taint latch is armed
    pending,        \* pending[o]: the nonces of o's approval registry
    spent,          \* spent[o]: actions charged to o's budget
    tripped,        \* the owners whose kill switch is tripped
    minted,         \* how many nonces have been drawn
    observed,       \* the shared store holds observed facts
    pc,             \* pc[t]: what thread t does next
    msg,            \* msg[t]: the message it handles
    session_id,     \* session_id[t]: the id it looks up
    ctx             \* ctx[t]: the context it was given

(* History, read by no action. *)
VARIABLES
    consent,        \* consent[s]: the ceiling the client of s asked for
    served,         \* served[s]: when s was created or last looked up
    lapsed,         \* the sessions once found idle past the TTL
    exposed,        \* the sessions that took in untrusted content
    minter,         \* minter[n]: the session whose dry run minted n
    acted,          \* acted[s]: real actions of s
    ran,            \* the real actions that ran, with their nonce
    stop            \* an emergency stop has been answered

contextVars == <<taint, pending, spent, tripped, minted, observed>>
historyVars == <<consent, served, lapsed, exposed, minter, acted, ran, stop>>
threadVars == <<pc, msg, session_id, ctx>>
vars == <<now, sessions, created, posts, contextVars, threadVars, historyVars>>

SessionsTypeOK ==
    /\ now \in Nat
    /\ created \in 0 .. MaxIds
    /\ posts \in 0 .. MaxPosts
    /\ DOMAIN sessions \subseteq 1 .. created
    /\ Cardinality(DOMAIN sessions) <= MaxSessions
    /\ \A s \in DOMAIN sessions :
          sessions[s] \in [ctx : Context, ceiling : 0 .. NoCeiling,
                           last_seen : Nat]
    /\ taint \subseteq Owner /\ tripped \subseteq Owner
    /\ pending \in [Owner -> SUBSET [token : Token, tool : Tool]]
    /\ spent \in [Owner -> 0 .. MaxActions]
    /\ minted \in 0 .. MaxMints
    /\ observed \in BOOLEAN
    /\ pc \in [Thread -> {"idle", "refuse", "get", "dispatch"}]
    /\ msg \in [Thread -> Message]
    /\ session_id \in [Thread -> Id \cup {NoId}]
    /\ ctx \in [Thread -> Context]
    /\ consent \in [Id -> 0 .. NoCeiling]
    /\ served \in [Id -> Nat]
    /\ lapsed \subseteq Id /\ exposed \subseteq Id
    /\ minter \in [Token -> Id \cup {NoId}]
    /\ acted \in [Id -> Nat]
    /\ ran \subseteq [session : Id, tool : Tool, token : Token \cup {NoToken}]
    /\ stop \in BOOLEAN

Init ==
    /\ now = 0
    /\ sessions = [s \in {} |-> NoContext]
    /\ created = 0
    /\ posts = 0
    /\ taint = {} /\ tripped = {}
    /\ pending = [o \in Owner |-> {}]
    /\ spent = [o \in Owner |-> 0]
    /\ minted = 0
    /\ observed = FALSE
    /\ pc = [t \in Thread |-> "idle"]
    /\ msg = [t \in Thread |-> NoMessage]
    /\ session_id = [t \in Thread |-> NoId]
    /\ ctx = [t \in Thread |-> NoContext]
    /\ consent = [s \in Id |-> NoCeiling]
    /\ served = [s \in Id |-> 0]
    /\ lapsed = {} /\ exposed = {}
    /\ minter = [n \in Token |-> NoId]
    /\ acted = [s \in Id |-> 0]
    /\ ran = {}
    /\ stop = FALSE

-----------------------------------------------------------------------------
(* A parameter that is absent asks for no ceiling, one that is malformed   *)
(* gets the lowest.                                                        *)
ParseCeiling(param) ==
    CASE param = "absent" -> NoCeiling
      [] param = "malformed" -> 0
      [] param = "T0" -> 0
      [] param = "T1" -> 1
      [] param = "T2" -> 2
      [] param = "T3" -> 3

(* Mutant: the sessions share the approval registry of the process. *)
SessionContextSharing(s, ceiling) ==
    [taint |-> s, approvals |-> Base, budget |-> s, kill_switch |-> Base,
     ceiling |-> ceiling]

(* Mutant: each session has a kill switch of its own. *)
SessionContextOwnSwitch(s, ceiling) ==
    [taint |-> s, approvals |-> s, budget |-> s, kill_switch |-> s,
     ceiling |-> ceiling]

(* session_context: a taint latch, registry and budget of its own, and the *)
(* kill switch of the process.                                             *)
SessionContext(s, ceiling) ==
    [taint |-> s, approvals |-> s, budget |-> s, kill_switch |-> Base,
     ceiling |-> ceiling]

Idle(s) == now - sessions[s].last_seen > SessionTTL

Fresh == {s \in DOMAIN sessions : ~ Idle(s)}

(* The order in which sessions are dropped: least recently seen first, and *)
(* among equals the one created first.                                     *)
SeenAfter(u, s) ==
    \/ sessions[u].last_seen > sessions[s].last_seen
    \/ sessions[u].last_seen = sessions[s].last_seen /\ u > s

(* Mutant: one session too many is kept. *)
KeptOneMore ==
    {s \in Fresh : Cardinality({u \in Fresh : SeenAfter(u, s)}) < MaxSessions}

(* _evict_locked: what is left when the idle ones are gone, and then the   *)
(* oldest until there is room for one more.                                *)
Kept ==
    {s \in Fresh : Cardinality({u \in Fresh : SeenAfter(u, s)}) < MaxSessions - 1}

(* SessionManager.create. *)
Create(ceiling) ==
    LET s == created + 1
        new == [ctx |-> SessionContext(s, ceiling), ceiling |-> ceiling,
                last_seen |-> now]
    IN
    /\ created < MaxIds
    /\ created' = s
    /\ sessions' = [u \in Kept \cup {s} |-> IF u = s THEN new ELSE sessions[u]]
    /\ consent' = [consent EXCEPT ![s] = ceiling]
    /\ served' = [served EXCEPT ![s] = now]

Drop(s) == [u \in DOMAIN sessions \ {s} |-> sessions[u]]

-----------------------------------------------------------------------------
(* Mutant: a notification that says initialize mints a session. *)
InitializesAnyway(m) == m.method = "initialize"

(* Only a request, never a notification, initializes. *)
Initializes(m) == m.request /\ m.method = "initialize"

(* The thread has answered, and is free. *)
Answered(t) ==
    /\ pc' = [pc EXCEPT ![t] = "idle"]
    /\ msg' = [msg EXCEPT ![t] = NoMessage]
    /\ session_id' = [session_id EXCEPT ![t] = NoId]
    /\ ctx' = [ctx EXCEPT ![t] = NoContext]

(* do_GET, and the early returns of do_POST: 405, 401, 411 or 400, 413,    *)
(* and the errors for what is not JSON or not an object.                   *)
Turnaway(t, m) ==
    /\ pc[t] = "idle"
    /\ m.http # "ok"
    /\ posts < MaxPosts
    /\ posts' = posts + 1
    /\ pc' = [pc EXCEPT ![t] = "refuse"]
    /\ msg' = [msg EXCEPT ![t] = m]
    /\ UNCHANGED <<now, sessions, created, contextVars, session_id, ctx,
                   historyVars>>

Refuse(t) ==
    /\ pc[t] = "refuse"
    /\ Answered(t)
    /\ UNCHANGED <<now, sessions, created, posts, contextVars, historyVars>>

(* do_POST and _dispatch, up to the lookup.  An id or a nonce that a       *)
(* client presents has been drawn.                                         *)
Post(t, m) ==
    /\ pc[t] = "idle"
    /\ m.http = "ok"
    /\ posts < MaxPosts
    /\ posts' = posts + 1
    /\ m.header <= created
    /\ m.token <= minted
    /\ IF Initializes(m)
         THEN /\ Create(ParseCeiling(m.ceiling))
              /\ session_id' = [session_id EXCEPT ![t] = created']
         ELSE /\ session_id' = [session_id EXCEPT ![t] = m.header]
              /\ UNCHANGED <<sessions, created, consent, served>>
    /\ pc' = [pc EXCEPT ![t] = "get"]
    /\ msg' = [msg EXCEPT ![t] = m]
    /\ UNCHANGED <<now, contextVars, ctx, lapsed, exposed, minter, acted,
                   ran, stop>>

(* Mutant: the idle timeout is left to create. *)
FoundIdle(t) ==
    LET s == session_id[t] IN
    /\ pc[t] = "get"
    /\ s \in DOMAIN sessions
    /\ sessions' = [sessions EXCEPT ![s].last_seen = now]
    /\ served' = [served EXCEPT ![s] = now]
    /\ ctx' = [ctx EXCEPT ![t] = sessions[s].ctx]
    /\ pc' = [pc EXCEPT ![t] = "dispatch"]
    /\ UNCHANGED <<now, created, posts, contextVars, msg, session_id, consent, lapsed,
                   exposed, minter, acted, ran, stop>>

(* Mutant: a lookup does not count as activity. *)
FoundUnrefreshed(t) ==
    LET s == session_id[t] IN
    /\ pc[t] = "get"
    /\ s \in DOMAIN sessions
    /\ ~ Idle(s)
    /\ served' = [served EXCEPT ![s] = now]
    /\ ctx' = [ctx EXCEPT ![t] = sessions[s].ctx]
    /\ pc' = [pc EXCEPT ![t] = "dispatch"]
    /\ UNCHANGED <<now, sessions, created, posts, contextVars, msg, session_id, consent, lapsed,
                   exposed, minter, acted, ran, stop>>

(* SessionManager.get: the session is there and not idle. *)
Found(t) ==
    LET s == session_id[t] IN
    /\ pc[t] = "get"
    /\ s \in DOMAIN sessions
    /\ ~ Idle(s)
    /\ sessions' = [sessions EXCEPT ![s].last_seen = now]
    /\ served' = [served EXCEPT ![s] = now]
    /\ ctx' = [ctx EXCEPT ![t] = sessions[s].ctx]
    /\ pc' = [pc EXCEPT ![t] = "dispatch"]
    /\ UNCHANGED <<now, created, posts, contextVars, msg, session_id, consent, lapsed,
                   exposed, minter, acted, ran, stop>>

(* SessionManager.get finds nothing: an idle session is deleted, and the   *)
(* answer is 404 (202 to a notification).                                  *)
NotFound(t) ==
    LET s == session_id[t] IN
    /\ pc[t] = "get"
    /\ s \in DOMAIN sessions => Idle(s)
    /\ sessions' = Drop(s)
    /\ Answered(t)
    /\ UNCHANGED <<now, created, posts, contextVars, historyVars>>

-----------------------------------------------------------------------------
(* mcp_handle: what is not a tools/call request changes nothing. *)
NoCall(t) ==
    /\ ~ msg[t].request \/ msg[t].method # "tools/call"
    /\ UNCHANGED <<contextVars, exposed, minter, acted, ran, stop>>

Calls(t, tool) ==
    msg[t].request /\ msg[t].method = "tools/call" /\ msg[t].tool = tool

(* The first steps of run(): kill switch and consent ceiling. *)
Permitted(t) ==
    /\ ctx[t].kill_switch \notin tripped
    /\ TierOf(msg[t].tool) <= ctx[t].ceiling

(* gate_required: does a real run need a nonce, and a dry run mint one? *)
Gated(t) ==
    LET tier == TierOf(msg[t].tool) IN
    tier >= 2 \/ (tier >= 1 /\ ctx[t].taint \in taint)

(* The nonce a real run presents, as its registry would hold it. *)
Presented(t) == [token |-> msg[t].token, tool |-> msg[t].tool]

(* A call that run() refuses: not permitted, without a valid nonce, over   *)
(* budget, or for a reason that module Runner spells out (redaction, deny  *)
(* rules, preconditions).  A gated real run may lose its nonce to it: the  *)
(* nonce had expired, or the refusal came after it was consumed.           *)
Refused(t) ==
    /\ msg[t].request /\ msg[t].method = "tools/call"
    /\ \/ UNCHANGED pending
       \/ /\ Permitted(t) /\ Gated(t) /\ ~ msg[t].dry_run
          /\ pending' = [pending EXCEPT ![ctx[t].approvals] = @ \ {Presented(t)}]
    /\ UNCHANGED <<taint, spent, tripped, minted, observed, exposed, minter,
                   acted, ran, stop>>

Expose(t) ==
    /\ taint' = taint \cup {ctx[t].taint}
    /\ exposed' = exposed \cup {session_id[t]}

(* The latch is armed before the collector parses, which may find nothing. *)
Ingest(t) ==
    /\ Calls(t, "ingest") /\ Permitted(t)
    /\ Expose(t)
    /\ observed' \in {observed, TRUE}
    /\ UNCHANGED <<pending, spent, tripped, minted, minter, acted, ran, stop>>

(* query_facts: the store is shared, and so is what others ingested; the   *)
(* filters of the query may select none of it.                             *)
Query(t) ==
    /\ Calls(t, "query") /\ Permitted(t)
    /\ \/ observed /\ Expose(t)
       \/ UNCHANGED <<taint, exposed>>
    /\ UNCHANGED <<pending, spent, tripped, minted, observed, minter, acted,
                   ran, stop>>

EmergencyStop(t) ==
    /\ Calls(t, "stop") /\ Permitted(t)
    /\ tripped' = tripped \cup {ctx[t].kill_switch}
    /\ stop' = TRUE
    /\ UNCHANGED <<taint, pending, spent, minted, observed, exposed, minter,
                   acted, ran>>

(* A dry run; if it is gated it mints a nonce. *)
Preview(t) ==
    /\ Calls(t, msg[t].tool) /\ TierOf(msg[t].tool) > 0 /\ Permitted(t)
    /\ msg[t].dry_run
    /\ IF Gated(t)
         THEN /\ minted < MaxMints
              /\ minted' = minted + 1
              /\ pending' = [pending EXCEPT ![ctx[t].approvals] =
                    @ \cup {[token |-> minted', tool |-> msg[t].tool]}]
              /\ minter' = [minter EXCEPT ![minted'] = session_id[t]]
         ELSE UNCHANGED <<minted, pending, minter>>
    /\ UNCHANGED <<taint, spent, tripped, observed, exposed, acted, ran, stop>>

(* A real run: it consumes its nonce if it is gated, and is charged. *)
Act(t) ==
    LET c == ctx[t] IN
    /\ Calls(t, msg[t].tool) /\ TierOf(msg[t].tool) > 0 /\ Permitted(t)
    /\ ~ msg[t].dry_run
    /\ IF Gated(t)
         THEN /\ Presented(t) \in pending[c.approvals]
              /\ pending' = [pending EXCEPT ![c.approvals] = @ \ {Presented(t)}]
         ELSE UNCHANGED pending
    /\ spent[c.budget] < MaxActions
    /\ spent' = [spent EXCEPT ![c.budget] = @ + 1]
    /\ acted' = [acted EXCEPT ![session_id[t]] = @ + 1]
    /\ ran' = ran \cup {[session |-> session_id[t], tool |-> msg[t].tool,
                         token |-> IF Gated(t) THEN msg[t].token ELSE NoToken]}
    /\ UNCHANGED <<taint, tripped, minted, observed, exposed, minter, stop>>

(* server.dispatch on the context that get returned, whatever became of    *)
(* the session since; then the answer.                                     *)
Dispatch(t) ==
    /\ pc[t] = "dispatch"
    /\ \/ NoCall(t)
       \/ Refused(t)
       \/ Ingest(t)
       \/ Query(t)
       \/ EmergencyStop(t)
       \/ Preview(t)
       \/ Act(t)
    /\ Answered(t)
    /\ UNCHANGED <<now, sessions, created, posts, consent, served, lapsed>>

Tick ==
    /\ now < MaxTime
    /\ now' = now + 1
    /\ lapsed' = lapsed \cup
          {s \in DOMAIN sessions : now' - served[s] > SessionTTL}
    /\ UNCHANGED <<sessions, created, posts, contextVars, threadVars, consent, served,
                   exposed, minter, acted, ran, stop>>

Handle(t) == Refuse(t) \/ Found(t) \/ NotFound(t) \/ Dispatch(t)

(* The threads that can be given a request. *)
Ready == {t \in Thread : pc[t] = "idle"}

Next ==
    \/ \E t \in Ready, m \in Message : Turnaway(t, m) \/ Post(t, m)
    \/ \E t \in Thread : Handle(t)
    \/ Tick

Spec == Init /\ [][Next]_vars

-----------------------------------------------------------------------------
(* One client never affects another: a session's latch is armed exactly if *)
(* it took in untrusted content itself, be it from the shared store; its   *)
(* budget is charged for its own actions only; and what ran for it was     *)
(* approved by a nonce one of its own dry runs minted, and lies within the *)
(* ceiling its own client consented to (BL-104, BL-045).                   *)
Isolated ==
    /\ \A s \in DOMAIN sessions :
          LET c == sessions[s].ctx IN
          /\ c.taint \in taint <=> s \in exposed
          /\ spent[c.budget] = acted[s]
    /\ \A r \in ran :
          /\ r.token # NoToken => minter[r.token] = r.session
          /\ TierOf(r.tool) <= consent[r.session]
          /\ r.token = NoToken => TierOf(r.tool) < 2

(* A stop that one client orders halts every client: no call dispatched    *)
(* after it acts, its context looked up before the stop or not.  (What a   *)
(* call past its check may still do is StopHolds of module Runner.)        *)
StopIsGlobal == [][stop => ran' = ran /\ acted' = acted]_vars

(* A session that was once idle past its TTL, or has left the table, is    *)
(* never handed out again ("treat as expired (404), do not revive").       *)
NeverRevived ==
    [][\A t \in Thread :
          pc[t] = "get" /\ pc'[t] = "dispatch" =>
              /\ session_id[t] \in DOMAIN sessions
              /\ session_id[t] \notin lapsed]_vars

(* A session leaves the table only if it was not served for longer than    *)
(* the TTL, or if the table is full and none of the sessions that stay was *)
(* served earlier.                                                         *)
LeavesIdleOrOldest ==
    [][\A s \in DOMAIN sessions \ DOMAIN sessions' :
          \/ now - served[s] > SessionTTL
          \/ /\ Cardinality(DOMAIN sessions) >= MaxSessions
             /\ \A u \in DOMAIN sessions \cap DOMAIN sessions' :
                   served[u] >= served[s]]_vars

(* A notification, or a request the handler refuses, mints no session,     *)
(* evicts none to make room ("an id-less initialize cannot churn or evict  *)
(* session slots"), and reaches no context: no latch, nonce, budget or     *)
(* kill switch.  It is not without an effect, as the comment has it: a     *)
(* notification goes through get(), so of the one session that its header  *)
(* names it refreshes last_seen, or deletes it if it is idle past the TTL. *)
NotificationsOnlyTouch ==
    [][\A t \in Thread :
          LET m == IF pc[t] = "idle" THEN msg'[t] ELSE msg[t]
              s == session_id[t]
          IN
          pc'[t] # pc[t] /\ (~ m.request \/ m.http # "ok") =>
              /\ UNCHANGED <<created, contextVars, acted, ran, stop>>
              /\ DOMAIN sessions' \in
                    {DOMAIN sessions, DOMAIN sessions \ ({s} \cap lapsed)}
              /\ \A u \in DOMAIN sessions' :
                    \/ sessions'[u] = sessions[u]
                    \/ /\ u = s /\ s \notin lapsed /\ m.http = "ok"
                       /\ sessions'[u] = [sessions[u] EXCEPT !.last_seen = now]]_vars
=============================================================================
