------------------------------- MODULE Policy -------------------------------
(***************************************************************************)
(* The classification policy of praxis (execution/policy.py and            *)
(* execution/patterns.py).                                                 *)
(*                                                                         *)
(* An Action stands for everything one approval is bound to: the tool, its *)
(* command, its target and its arguments, that is the request's            *)
(* action_id().  What the regular expressions of patterns.py say about its *)
(* probe (tool name plus command) is data: deny says that a DENY pattern   *)
(* matches, command_tier is the tier of the highest matching tier list.    *)
(* A preview argv and the real argv of one action classify alike, because  *)
(* every adapter declares base tier T2 and the parts a T3 pattern can      *)
(* match (playbook path, workspace, remote command) are in both.           *)
(***************************************************************************)
EXTENDS Integers

CONSTANTS
    Action,     \* the action ids
    Target,     \* the targets an action may name
    MultiTarget,\* the targets that are empty, absent or a list
    Host,       \* the host names credential grants are scoped to
    Attr,       \* Attr[a]: what the code knows of action a
    Mode,       \* PRAXIS_MODE, bound once at start
    Session,    \* the client sessions; stdio has one
    ConsentCeiling  \* ConsentCeiling[s]: the tier session s consented to

Tier == 0 .. 3

NoCeiling == -1     \* consent_ceiling is None

(* "act": a real host change (run_action); "ingest": ingest_observation,   *)
(* the one request marked untrusted; "read": query_facts, fact_history and *)
(* drift_scan, whose answer may hold observed facts; "estop":              *)
(* emergency_stop.                                                         *)
Kind == {"act", "ingest", "read", "estop"}

Attribute ==
    [kind : Kind, base_tier : Tier, command_tier : Tier, deny : BOOLEAN,
     target : Target, host : Host]

ASSUME PolicyAssumption ==
    /\ MultiTarget \subseteq Target
    /\ Attr \in [Action -> Attribute]
    /\ Mode \in {"readonly", "guarded", "open"}
    /\ ConsentCeiling \in [Session -> Tier \cup {NoCeiling}]

PATTERNS_VERSION == 4

(* The base tier is a floor; the command can only round up. *)
Classify(a) ==
    IF Attr[a].base_tier >= Attr[a].command_tier
      THEN Attr[a].base_tier
      ELSE Attr[a].command_tier

(* The tier a decision reports: a denied probe is reported as T3. *)
DecisionTier(a) == IF Attr[a].deny THEN 3 ELSE Classify(a)

(* Policy.check: deny list first, then the mode's ceiling. *)
Allowed(a) ==
    /\ ~ Attr[a].deny
    /\ Mode = "readonly" => Classify(a) = 0
    /\ Mode = "guarded" => Classify(a) < 3

RequiresApproval(a) == Allowed(a) /\ Classify(a) >= 2

(* Step 3a of run: the tier a session consented to caps what it may engage. *)
WithinConsent(s, a) ==
    ConsentCeiling[s] # NoCeiling => Classify(a) <= ConsentCeiling[s]

(* T3 is irreversible: its real run must name exactly one target. *)
MultiTargetT3(a) == DecisionTier(a) >= 3 /\ Attr[a].target \in MultiTarget
=============================================================================
