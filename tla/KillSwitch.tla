----------------------------- MODULE KillSwitch -----------------------------
(***************************************************************************)
(* KillSwitch (execution/runner.py): the global stop, an in-memory flag    *)
(* and an optional sentinel file that outlives the process.                *)
(***************************************************************************)
CONSTANT HasSentinel     \* PRAXIS_KILL_SWITCH_PATH is configured

ASSUME KillSwitchAssumption == HasSentinel \in BOOLEAN

VARIABLES
    tripped,    \* KillSwitch._tripped
    sentinel    \* the sentinel file

killVars == <<tripped, sentinel>>

SentinelState == {"absent", "present", "unreadable"}

KillSwitchTypeOK ==
    /\ tripped \in BOOLEAN
    /\ sentinel \in SentinelState
    /\ ~ HasSentinel => sentinel = "absent"

KillSwitchInit ==
    /\ tripped = FALSE
    /\ sentinel = "absent"

(* Mutant: a sentinel that cannot be read counts as absent. *)
IsTrippedIfReadable == tripped \/ sentinel = "present"

(* is_tripped: the flag, or a sentinel that exists or cannot be read. *)
IsTripped == tripped \/ sentinel # "absent"

(* trip: the flag always; the sentinel unless its write fails. *)
Trip ==
    /\ tripped' = TRUE
    /\ \/ HasSentinel /\ sentinel # "unreadable" /\ sentinel' = "present"
       \/ UNCHANGED sentinel

(* reset: the flag only. *)
Reset ==
    /\ tripped
    /\ tripped' = FALSE
    /\ UNCHANGED sentinel

(* The operator, or a fault of the file system, acts on the sentinel       *)
(* out-of-band.                                                            *)
SetSentinel(state) ==
    /\ HasSentinel
    /\ sentinel # state
    /\ sentinel' = state
    /\ UNCHANGED tripped

(* A new process starts with a fresh flag and the same file. *)
RestartSwitch ==
    /\ tripped' = FALSE
    /\ UNCHANGED sentinel
=============================================================================
