------------------------------- MODULE Nonce -------------------------------
(***************************************************************************)
(* What ApprovalRegistry promises, with no clock, no table and no purge: a *)
(* nonce is drawn once, is live until it is used or becomes void, is used  *)
(* at most once and only while live, and a nonce that was used or voided   *)
(* (expired, evicted, lost in a restart) never becomes live again.         *)
(***************************************************************************)
EXTENDS Integers

CONSTANT Token

VARIABLES
    status,     \* status[t]
    uses        \* uses[t]: how often t was accepted

Status == {"fresh", "live", "used", "void"}

Init ==
    /\ status = [t \in Token |-> "fresh"]
    /\ uses = [t \in Token |-> 0]

(* V nonces lapse and at most one fresh nonce is drawn. *)
LapseAndDraw(V, D) ==
    /\ \A t \in V : status[t] = "live"
    /\ \A t \in D : status[t] = "fresh"
    /\ \A t, u \in D : t = u
    /\ status' = [t \in Token |-> IF t \in V THEN "void"
                                  ELSE IF t \in D THEN "live" ELSE status[t]]
    /\ UNCHANGED uses

Use(t) ==
    /\ status[t] = "live"
    /\ status' = [status EXCEPT ![t] = "used"]
    /\ uses' = [uses EXCEPT ![t] = @ + 1]

Next ==
    \/ \E V, D \in SUBSET Token : LapseAndDraw(V, D)
    \/ \E t \in Token : Use(t)

Spec == Init /\ [][Next]_<<status, uses>>
=============================================================================
