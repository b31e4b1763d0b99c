------------------------------ MODULE Evidence ------------------------------
(***************************************************************************)
(* The evidence over the audit log (audit/evidence.py): the scheduler that *)
(* checkpoints the log as it grows and at an orderly shutdown, the anchor  *)
(* file, and verify_evidence.  It is the post-record hook of AuditLogger;  *)
(* server.py drives the life of the process.                               *)
(*                                                                         *)
(* Hashes do not collide: the Merkle root of a log stands for the lines    *)
(* themselves, and an anchored head for the number of its checkpoint.  A   *)
(* log with a split line never verifies, so lines are counted as written.  *)
(***************************************************************************)
EXTENDS AuditLog, FiniteSets

CONSTANTS
    Every,          \* PRAXIS_CHECKPOINT_EVERY
    HasAnchor,      \* PRAXIS_ANCHOR_PATH is configured
    EvidenceTears,  \* what an append that fails leaves in the evidence file
    AnchorTears,    \* what an append that fails leaves in the anchor file
    Transports      \* the transports: of "stdio" and "http"

Main == "main"      \* the thread that runs serve()

(* A failed append of a JSON line leaves nothing, part of it, or all of it *)
(* but the newline.                                                        *)
JsonTear == {"nothing", "torn", "unended"}

Unreadable == 0     \* an anchor line that does not parse

ASSUME EvidenceAssumption ==
    /\ Main \notin Writer
    /\ Every \in Nat \ {0}
    /\ HasAnchor \in BOOLEAN
    /\ EvidenceTears \subseteq JsonTear
    /\ AnchorTears \subseteq JsonTear
    /\ Transports \subseteq {"stdio", "http"}

VARIABLES
    transport,  \* the transport of this deployment
    phase,      \* where serve() is
    pend,       \* EvidenceScheduler._pending
    cp,         \* the checkpoint in progress: its owner holds _lock
    evidence,   \* the checkpoints written to the evidence file
    evidenceEnded,  \* its last line ends with a newline
    torn,       \* it holds a line that does not parse
    anchor,     \* the lines of the anchor file: numbers of checkpoints
    anchorEnded     \* its last line ends with a newline

(* History. *)
VARIABLES
    failed,     \* the last checkpoint, or the write of its anchor, failed
    glued,      \* the files in which a line, in the anchor the last line,
                \* was appended to one without a newline
    mended      \* a line that a checkpoint covers was finished by a close

filesVars == <<evidence, evidenceEnded, torn, anchor, anchorEnded>>

evidenceVars == <<transport, phase, pend, cp, filesVars, failed, glued, mended>>

(* Shutdown waits for the writers: stdio serves on the main thread, the    *)
(* worker threads of the HTTP server are daemons.                          *)
Joins == transport = "stdio"

Checkpoint == [tree_size : Nat, root : Seq(Line)]

NoCheckpoint == [by |-> "nobody", step |-> "none", root |-> <<>>]

EvidenceTypeOK ==
    /\ LogTypeOK
    /\ transport \in Transports
    /\ phase \in {"down", "binding", "serving", "finalizing",
                 "finalized", "exiting", "rest"}
    /\ pend \in Nat
    /\ cp.by \in Writer \cup {Main, "nobody"}
    /\ cp.step \in {"none", "append", "anchor"}
    /\ cp.root \in Seq(Line)
    /\ evidence \in Seq(Checkpoint)
    /\ evidenceEnded \in BOOLEAN
    /\ torn \in BOOLEAN
    /\ anchor \in Seq(Nat)
    /\ anchorEnded \in BOOLEAN
    /\ failed \in BOOLEAN
    /\ glued \subseteq {"evidence", "anchor"}
    /\ mended \in BOOLEAN

EvidenceInit ==
    /\ LogInit
    /\ transport \in Transports
    /\ phase = "down"
    /\ pend = 0
    /\ cp = NoCheckpoint
    /\ evidence = <<>>
    /\ evidenceEnded = TRUE
    /\ torn = FALSE
    /\ anchor = <<>>
    /\ anchorEnded = TRUE
    /\ failed = FALSE
    /\ glued = {}
    /\ mended = FALSE

Free == cp = NoCheckpoint

Hooking == {w \in Writer : wpc[w] = "hook"}

-----------------------------------------------------------------------------
(* verify_evidence over a log, the checkpoints and the anchored heads: the *)
(* chain, then the checkpoints in order, the coverage of the whole log,    *)
(* and the last anchored head.                                             *)
CoveredBy(ev, n) == IF n = 0 THEN 0 ELSE ev[n].tree_size

RootsHold(lines, ev) ==
    \A i \in 1 .. Len(ev) :
        /\ CoveredBy(ev, i - 1) <= ev[i].tree_size
        /\ ev[i].tree_size <= Len(lines)
        /\ ev[i].root = SubSeq(lines, 1, ev[i].tree_size)

FullCoverage(lines, ev) ==
    Len(ev) > 0 => CoveredBy(ev, Len(ev)) = Len(lines)

AnchorFailure(ev, heads) ==
    IF heads = <<>> THEN ev # <<>>
                    ELSE heads[Len(heads)] \notin 1 .. Len(ev)

EvidenceHolds(lines, ev) ==
    /\ RootsHold(lines, ev)
    /\ FullCoverage(lines, ev)
    /\ ~ (HasAnchor /\ AnchorFailure(ev, anchor))

VerifyEvidence ==
    /\ VerifyChain = "ok"
    /\ ~ torn
    /\ EvidenceHolds(file, evidence)

-----------------------------------------------------------------------------
(* Mutant: the interval is carried over, not reset. *)
BeginCarries(who) ==
    /\ pend' = pend - Every
    /\ cp' = [by |-> who, step |-> "append", root |-> file]

(* _checkpoint_locked, in the steps another thread or a crash can come     *)
(* between: read the leaves and reset the interval; append the checkpoint; *)
(* write its head to the anchor.                                           *)
Begin(who) ==
    /\ pend' = 0
    /\ cp' = [by |-> who, step |-> "append", root |-> file]

(* A thread is done with the scheduler: a writer returns from record(),    *)
(* main from finalize().  The first record of a process binds the session, *)
(* and serving starts after it.                                            *)
Leave(who) ==
    /\ wpc' = [w \in Writer |-> IF w = who THEN "done" ELSE wpc[w]]
    /\ phase' = IF who = Main THEN "finalized"
                ELSE IF phase = "binding" THEN "serving" ELSE phase

logOnly == <<file, ended, seq, prev, degraded, held, up, starts, made, stderr,
             muted, returned, sound, joined>>

(* make_checkpoint raises on an undecodable log and on an evidence file of *)
(* which a line does not parse.                                            *)
CanCheckpoint ==
    ~ torn /\ \A i \in 1 .. Len(cp.root) : cp.root[i].kind # "nonutf8"

(* Mutant: the log is measured after it was hashed. *)
NewCheckpointMeasuresLate == [tree_size |-> Len(file), root |-> cp.root]

NewCheckpoint == [tree_size |-> Len(cp.root), root |-> cp.root]

(* The text of a checkpoint goes into the file; behind an unended line it  *)
(* makes one that does not parse.                                          *)
PutCheckpoint(newline) ==
    /\ evidence' = Append(evidence, NewCheckpoint)
    /\ evidenceEnded' = newline
    /\ torn' = (torn \/ ~ evidenceEnded)

(* What an append that failed or was interrupted leaves. *)
PutCheckpointTorn(tear) ==
    CASE tear = "nothing" -> UNCHANGED <<evidence, evidenceEnded, torn>>
      [] tear = "unended" -> PutCheckpoint(FALSE)
      [] OTHER            -> /\ torn' = TRUE
                             /\ evidenceEnded' = FALSE
                             /\ UNCHANGED evidence

AppendCheckpoint ==
    /\ cp.step = "append"
    /\ CanCheckpoint
    /\ PutCheckpoint(TRUE)
    /\ glued' = IF evidenceEnded THEN glued ELSE glued \cup {"evidence"}
    /\ cp' = [cp EXCEPT !.step = "anchor"]
    /\ UNCHANGED <<transport, phase, pend, anchor, anchorEnded, failed, mended,
                   logVars>>

(* The failure is contained: a warning, and the interval stays reset. *)
FailCheckpoint ==
    /\ cp.step = "append"
    /\ \/ ~ CanCheckpoint /\ UNCHANGED <<evidence, evidenceEnded, torn>>
       \/ CanCheckpoint /\ \E tear \in EvidenceTears : PutCheckpointTorn(tear)
    /\ cp' = NoCheckpoint
    /\ failed' = TRUE
    /\ Leave(cp.by)
    /\ UNCHANGED <<transport, pend, anchor, anchorEnded, glued, mended, logOnly>>

(* A line goes into the anchor file, or spoils its unended last line. *)
PutAnchor(head, newline) ==
    /\ anchor' = IF anchorEnded THEN Append(anchor, head)
                  ELSE [anchor EXCEPT ![Len(anchor)] = Unreadable]
    /\ anchorEnded' = newline

PutAnchorTorn(tear) ==
    CASE tear = "nothing" -> UNCHANGED <<anchor, anchorEnded>>
      [] tear = "unended" -> PutAnchor(Len(evidence), FALSE)
      [] OTHER            -> PutAnchor(Unreadable, FALSE)

(* Mutant: the anchored number is the next checkpoint's. *)
AnchorHeadNext == PutAnchor(Len(evidence) + 1, TRUE)

(* The head of the checkpoint just made. *)
AnchorHead == PutAnchor(Len(evidence), TRUE)

(* write_anchor, if there is an anchor, or a warning. *)
WriteAnchor ==
    /\ cp.step = "anchor"
    /\ \/ /\ HasAnchor
          /\ AnchorHead
          /\ failed' = FALSE
          /\ glued' = IF anchorEnded THEN glued \ {"anchor"}
                                     ELSE glued \cup {"anchor"}
       \/ /\ HasAnchor
          /\ \E tear \in AnchorTears : PutAnchorTorn(tear)
          /\ failed' = TRUE
          /\ UNCHANGED glued
       \/ /\ ~ HasAnchor
          /\ failed' = FALSE
          /\ UNCHANGED <<anchor, anchorEnded, glued>>
    /\ cp' = NoCheckpoint
    /\ Leave(cp.by)
    /\ UNCHANGED <<transport, pend, evidence, evidenceEnded, torn, mended, logOnly>>

-----------------------------------------------------------------------------
(* The process starts; its first record binds the session. *)
StartServer ==
    /\ Start
    /\ phase' = "binding"
    /\ pend' = 0
    /\ UNCHANGED <<transport, cp, filesVars, failed, glued, mended>>

(* record(): one thread while the session is bound, several after, and     *)
(* over HTTP also while serve() is shutting down.  The record that binds   *)
(* the session has no hook if it degrades the log, and ends the process if *)
(* it raises.                                                              *)
RecordCall(w) ==
    /\ phase # "exiting"
    /\ phase = "binding" => Hooking = {}
    /\ Joins => phase \in {"binding", "serving"}
    /\ \E shape \in Shapes : WriteRecord(w, shape)
    /\ phase' = CASE phase = "binding" /\ wpc'[w] = "raised" -> "exiting"
                 [] phase = "binding" /\ wpc'[w] = "done"   -> "serving"
                 [] OTHER -> phase
    /\ UNCHANGED <<transport, pend, cp, filesVars, failed, glued, mended>>

(* Mutant: a hook that finds the scheduler busy gives up. *)
OnRecordTries(w) ==
    /\ up
    /\ wpc[w] = "hook"
    /\ \/ (degraded \/ ~ Free) /\ cp.by # w /\ Leave(w) /\ UNCHANGED <<pend, cp>>
       \/ Free /\ pend + 1 < Every /\ pend' = pend + 1
          /\ Leave(w) /\ UNCHANGED cp
       \/ Free /\ pend + 1 >= Every /\ Begin(w)
          /\ UNCHANGED <<wpc, phase>>
    /\ UNCHANGED <<transport, filesVars, failed, glued, mended, logOnly>>

(* The post-record hook, outside the logger's lock: skipped if the logger  *)
(* was degraded meanwhile, else on_record under the scheduler's lock, for  *)
(* which it may have waited while the logger was degraded.                 *)
OnRecord(w) ==
    /\ up
    /\ wpc[w] = "hook"
    /\ \/ degraded /\ cp.by # w /\ Leave(w) /\ UNCHANGED <<pend, cp>>
       \/ Free /\ pend + 1 < Every /\ pend' = pend + 1
          /\ Leave(w) /\ UNCHANGED cp
       \/ Free /\ pend + 1 >= Every /\ Begin(w)
          /\ UNCHANGED <<wpc, phase>>
    /\ UNCHANGED <<transport, filesVars, failed, glued, mended, logOnly>>

(* Mutant: finalize waits for a full interval as on_record does. *)
FinalizeIfFull ==
    /\ up
    /\ phase = "serving"
    /\ Free
    /\ Joins => Hooking = {}
    /\ IF pend >= Every
         THEN Begin(Main) /\ phase' = "finalizing"
         ELSE phase' = "finalized" /\ UNCHANGED <<pend, cp>>
    /\ UNCHANGED <<transport, filesVars, failed, glued, mended, logVars>>

(* serve()'s finally: finalize() covers the tail, ... *)
Finalize ==
    /\ up
    /\ phase = "serving"
    /\ Free
    /\ Joins => Hooking = {}
    /\ IF pend > 0
         THEN Begin(Main) /\ phase' = "finalizing"
         ELSE phase' = "finalized" /\ UNCHANGED <<pend, cp>>
    /\ UNCHANGED <<transport, filesVars, failed, glued, mended, logVars>>

(* ... then the log is closed and the process exits, with the threads that *)
(* it does not wait for.  An exit without finalize() closes the log too.   *)
(* An HTTP thread that records behind the close finds a closed file: it is *)
(* the thread whose write failed with nothing written, before the close.   *)
Close ==
    /\ phase \in {"finalized", "exiting"}
    /\ CloseLog
    /\ phase' = IF phase = "finalized" THEN "rest" ELSE "down"
    /\ cp' = NoCheckpoint
    /\ mended' = (mended \/ \E i \in 1 .. Len(evidence) :
                               /\ evidence[i].tree_size = Len(file)
                               /\ SubSeq(file', 1, Len(file)) # file)
    /\ UNCHANGED <<transport, pend, filesVars, failed, glued>>

(* A crash, between any two steps or within a write to any of the files. *)
Die ==
    /\ \/ Crash
       \/ \E w \in Writer, shape \in Shapes : CrashInWrite(w, shape)
    /\ \/ UNCHANGED filesVars
       \/ /\ cp.step = "append"
          /\ CanCheckpoint
          /\ \E tear \in EvidenceTears : PutCheckpointTorn(tear)
          /\ UNCHANGED <<anchor, anchorEnded>>
       \/ /\ cp.step = "anchor"
          /\ HasAnchor
          /\ \E tear \in AnchorTears : PutAnchorTorn(tear)
          /\ UNCHANGED <<evidence, evidenceEnded, torn>>
    /\ phase' = "down"
    /\ cp' = NoCheckpoint
    /\ UNCHANGED <<transport, pend, failed, glued, mended>>

EvidenceNext ==
    \/ StartServer
    \/ \E w \in Writer : RecordCall(w)
    \/ \E w \in Writer : OnRecord(w)
    \/ AppendCheckpoint
    \/ FailCheckpoint
    \/ WriteAnchor
    \/ Finalize
    \/ Close
    \/ Die

EvidenceSpec == EvidenceInit /\ [][EvidenceNext]_<<logVars, evidenceVars>>

-----------------------------------------------------------------------------
(* Whatever is written, checkpointed, torn or restarted, and in any order  *)
(* of threads, the checkpoints cover growing prefixes of the log that is   *)
(* there: verify_evidence reports tampering where there was none only if a *)
(* restart wrote on behind a torn audit line, or if the close of a         *)
(* degraded log finished a torn line that a checkpoint covers.             *)
CheckpointsHold == ~ joined /\ ~ mended => RootsHold(file, evidence)

(* The scheduler forgets no record: while the logger writes its file and   *)
(* the last checkpoint did not fail, a log with nothing counted in         *)
(* _pending, no hook to come and no checkpoint in the making is covered to *)
(* its last line.                                                          *)
NothingForgotten ==
    /\ up /\ ~ degraded /\ ~ failed
    /\ phase \in {"serving", "finalized"}
    /\ pend = 0 /\ Free /\ Hooking = {}
    => CoveredBy(evidence, Len(evidence)) = Len(file)

(* After an orderly shutdown over stdio the evidence of a sound log        *)
(* verifies, also after crashes, restarts and failed writes (evidence.py:  *)
(* "finalize covers the tail at orderly shutdown so verify_evidence's      *)
(* full-coverage rule holds at rest"), with these exceptions: a last       *)
(* checkpoint that failed, with a warning; a checkpoint appended to one    *)
(* whose newline was lost, or a last anchor line appended to such a one;   *)
(* and a torn audit line that was checkpointed before a close finished it. *)
VerifiesAtRest ==
    /\ phase = "rest" /\ Joins
    /\ ~ degraded /\ ~ failed /\ glued = {} /\ ~ mended /\ VerifyChain = "ok"
    => VerifyEvidence

(* The anchor is never ahead of the evidence: every anchored head is a     *)
(* checkpoint whose text is in the file, heads only grow and a crash       *)
(* between or within the two writes leaves the anchor behind, so only a    *)
(* rollback of the evidence can fail the high-water check (BL-050).        *)
AnchorNotAhead ==
    \A i \in 1 .. Len(anchor) :
        /\ anchor[i] <= Len(evidence)
        /\ \A j \in 1 .. i - 1 : anchor[i] # Unreadable => anchor[j] < anchor[i]
=============================================================================
