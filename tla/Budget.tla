------------------------------- MODULE Budget -------------------------------
(***************************************************************************)
(* BudgetTracker (execution/contract.py): the per-session ceilings on the  *)
(* number of actions and on the wall time spent executing.  A charge and a *)
(* recorded spend each hold the tracker's lock and are one step.           *)
(***************************************************************************)
EXTENDS Policy

CONSTANTS
    MaxActions,     \* PRAXIS_MAX_ACTIONS
    MaxWall,        \* PRAXIS_MAX_WALL_SECONDS, in ticks
    WallCost        \* the ticks one execution may take

NoLimit == -1

ASSUME BudgetAssumption ==
    /\ MaxActions \in Nat \cup {NoLimit}
    /\ MaxWall \in Nat \cup {NoLimit}
    /\ WallCost \subseteq Nat

VARIABLES
    actions,        \* actions[s]: BudgetTracker.actions
    wall            \* wall[s]: BudgetTracker.wall_seconds

budgetVars == <<actions, wall>>

BudgetTypeOK ==
    /\ actions \in [Session -> Nat]
    /\ wall \in [Session -> Nat]

BudgetInit ==
    /\ actions = [s \in Session |-> 0]
    /\ wall = [s \in Session |-> 0]

(* Mutant: the ceiling is compared with the old total. *)
AffordableOnceMore(s) ==
    /\ MaxActions # NoLimit => actions[s] <= MaxActions
    /\ MaxWall # NoLimit => wall[s] <= MaxWall

(* charge(actions=1): both ceilings are checked against the new totals. *)
Affordable(s) ==
    /\ MaxActions # NoLimit => actions[s] + 1 <= MaxActions
    /\ MaxWall # NoLimit => wall[s] <= MaxWall

Charge(s) ==
    /\ Affordable(s)
    /\ actions' = [actions EXCEPT ![s] = @ + 1]
    /\ UNCHANGED wall

(* record_spend: unconditional, the work is done. *)
RecordSpend(s, d) ==
    /\ wall' = [wall EXCEPT ![s] = @ + d]
    /\ UNCHANGED actions

ForgetBudgets ==
    /\ actions' = [s \in Session |-> 0]
    /\ wall' = [s \in Session |-> 0]
=============================================================================
