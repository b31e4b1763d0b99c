------------------------------ MODULE FactLog ------------------------------
(***************************************************************************)
(* What the fact store promises (store/base.py, model/facts.py): a table   *)
(* to which rows are only added, in recorded order, with at most one       *)
(* active row per key.  A step either records a row, superseding the       *)
(* active row of its key, or invalidates an active row in the name of      *)
(* somebody.                                                               *)
(***************************************************************************)
EXTENDS Integers, FiniteSets

CONSTANTS Key, Content

VARIABLE facts

NoRow == 0      \* no fact_id, and nobody who superseded

(* "replaced": t_superseded is set; "invalid": t_invalid is set as well,   *)
(* and superseded_actor and superseded_reason say by whom.                 *)
State == {"active", "replaced", "invalid"}

Row == [id : Nat, key : Key, content : Content, seq : Nat, state : State,
        by : Nat]

ActiveRows(k) == {r \in facts : r.key = k /\ r.state = "active"}

Retired(r, state, by) == [r EXCEPT !.state = state, !.by = by]

Put(k, c, id) ==
    /\ \A r \in facts : r.id # id
    /\ facts' =
          (facts \ ActiveRows(k))
             \cup {Retired(r, "replaced", NoRow) : r \in ActiveRows(k)}
             \cup {[id |-> id, key |-> k, content |-> c,
                    seq |-> Cardinality(facts), state |-> "active",
                    by |-> NoRow]}

Invalidate(r, by) ==
    /\ r \in facts
    /\ r.state = "active"
    /\ facts' = (facts \ {r}) \cup {Retired(r, "invalid", by)}

Init == facts = {}

CONSTANT MaxCalls   \* bound: the calls of a behaviour

Next ==
    /\ facts' # facts
    /\ \/ \E k \in Key, c \in Content, id \in 1 .. MaxCalls : Put(k, c, id)
       \/ \E r \in facts, by \in 1 .. MaxCalls : Invalidate(r, by)

Spec == Init /\ [][Next]_facts
=============================================================================
