---------------------------- MODULE Credentials ----------------------------
(***************************************************************************)
(* CredentialBroker (actuation/credentials.py): the scoped grants the      *)
(* operator issues and revokes.  A handle is a uuid: never reused.         *)
(***************************************************************************)
EXTENDS Policy, FiniteSets

CONSTANT Scope      \* the scopes [hosts, max_tier] the operator may grant

ASSUME ScopeAssumption == Scope \subseteq [hosts : SUBSET Host, max_tier : Tier]

VARIABLES
    grants,     \* CredentialBroker._grants: handle and scope
    granted     \* history: how many grants this process has issued

CredentialsTypeOK ==
    /\ granted \in Nat
    /\ grants \in SUBSET [handle : Nat, scope : Scope]

CredentialsInit ==
    /\ grants = {}
    /\ granted = 0

(* grant: an unscoped grant, and a T3 grant over several hosts, raise. *)
Grant(scope) ==
    /\ scope.hosts # {}
    /\ scope.max_tier >= 3 => \E h \in scope.hosts : scope.hosts = {h}
    /\ granted' = granted + 1
    /\ grants' = grants \cup {[handle |-> granted', scope |-> scope]}

Revoke(g) ==
    /\ grants' = grants \ {g}
    /\ UNCHANGED granted

RevokeAll ==
    /\ grants' = {}
    /\ UNCHANGED granted

ForgetGrants ==
    /\ grants' = {}
    /\ granted' = 0

HasGrants == grants # {}

Authorized(h, tier) ==
    \E g \in grants : h \in g.scope.hosts /\ tier <= g.scope.max_tier
=============================================================================
