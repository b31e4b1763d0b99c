--------------------------- MODULE EvidenceProofs ---------------------------
(***************************************************************************)
(* Proofs about the evidence over the audit log, for every number of       *)
(* writers and restarts, every checkpoint interval, with and without an    *)
(* anchor, over both transports.                                           *)
(***************************************************************************)
EXTENDS Evidence, AuditLogProofs

Phase == {"down", "binding", "serving", "finalizing", "finalized", "exiting",
          "rest"}

InProgress ==
    [by : Writer \cup {Main, "nobody"}, step : {"none", "append", "anchor"},
     root : Seq(Line)]

StateInv ==
    /\ transport \in Transports
    /\ phase \in Phase
    /\ pend \in Nat
    /\ cp \in InProgress
    /\ evidence \in Seq(Checkpoint)
    /\ evidenceEnded \in BOOLEAN
    /\ torn \in BOOLEAN
    /\ anchor \in Seq(Nat)
    /\ anchorEnded \in BOOLEAN
    /\ failed \in BOOLEAN
    /\ glued \subseteq {"evidence", "anchor"}
    /\ mended \in BOOLEAN

(* The scheduler's lock: who holds it is in finalize() or in its hook, and *)
(* the process runs.                                                       *)
LockInv ==
    /\ cp.step = "none" => cp = NoCheckpoint
    /\ cp.step # "none" => up
    /\ cp.step # "none" /\ cp.by # Main => cp.by \in Hooking
    /\ phase = "finalizing" => cp.step # "none" /\ cp.by = Main
    /\ cp.by = Main => phase = "finalizing"
    /\ up <=> phase \notin {"down", "rest"}
    /\ ~ up => Hooking = {}

(* A checkpoint in the making is over a prefix of the log that is there,   *)
(* and no shorter than the last one.                                       *)
CoverInv ==
    ~ joined /\ ~ mended =>
        /\ RootsHold(file, evidence)
        /\ cp.step = "append" =>
              /\ Len(cp.root) <= Len(file)
              /\ cp.root = SubSeq(file, 1, Len(cp.root))
              /\ CoveredBy(evidence, Len(evidence)) <= Len(cp.root)

(* The checkpoint whose head is to be anchored is newer than the anchor. *)
AnchorInv ==
    /\ AnchorNotAhead
    /\ ~ anchorEnded => anchor # <<>>
    /\ cp.step = "anchor" =>
          /\ Len(evidence) > 0
          /\ \A i \in 1 .. Len(anchor) : anchor[i] < Len(evidence)

(* Something is still to happen to the evidence. *)
Owed == pend > 0 \/ Hooking # {} \/ cp.step # "none"

(* The evidence is complete: it covers the log, parses, and is anchored,   *)
(* but for a line that was appended to one without a newline.              *)
Settled ==
    /\ CoveredBy(evidence, Len(evidence)) = Len(file)
    /\ torn => "evidence" \in glued
    /\ HasAnchor => /\ anchor # <<>>
                    /\ anchor[Len(anchor)] = Unreadable => "anchor" \in glued

(* While the logger writes: the evidence is complete when nothing is owed, *)
(* unless the last checkpoint failed.  A record written while a checkpoint *)
(* is made has a hook that waits for the lock.                             *)
SettleInv ==
    ~ degraded =>
        /\ ~ failed /\ phase \in {"serving", "finalizing", "finalized"} /\ ~ Owed
              => Settled
        /\ cp.step = "anchor" =>
              /\ torn => "evidence" \in glued
              /\ CoveredBy(evidence, Len(evidence)) = Len(cp.root)
        /\ cp.step # "none" =>
              Len(file) = Len(cp.root) \/ \E w \in Hooking : w # cp.by
        /\ ~ failed /\ phase = "rest" /\ Joins => Settled

(* A shutdown over stdio waits for the writers, and for the checkpoint. *)
JoinInv ==
    Joins =>
        /\ phase \in {"finalizing", "finalized"} => Hooking = {} /\ pend = 0
        /\ phase = "finalized" => cp.step = "none"

(* A process that serves has written its binding record to the file. *)
EndedInv ==
    ~ degraded /\ (Hooking # {} \/ phase \notin {"down", "binding"}) => ended

-----------------------------------------------------------------------------
(* A step of the server is a step of its audit log, or leaves it alone. *)
LEMMA ServerStepIsLogStep ==
    ASSUME LogTypeOK, LockInv, EvidenceNext
    PROVE  [LogNext]_logVars
<1>0. wpc \in [Writer -> {"idle", "hook", "done", "raised", "lost"}]
  BY DEF LogTypeOK
<1>1. ASSUME NEW w \in Writer, up, wpc[w] = "hook", Leave(w), UNCHANGED logOnly
      PROVE  LogNext
  <2>1. wpc' = [wpc EXCEPT ![w] = "done"]
    BY <1>0, <1>1 DEF Leave
  <2> QED
    BY <1>1, <2>1 DEF LogNext, Return, logOnly
<1>2. CASE StartServer
  BY <1>2 DEF StartServer, LogNext
<1>3. CASE \E w \in Writer : RecordCall(w)
  BY <1>3 DEF RecordCall, LogNext
<1>4. ASSUME NEW w \in Writer, OnRecord(w) PROVE [LogNext]_logVars
  BY <1>1, <1>4 DEF OnRecord, logOnly, logVars
<1>5. CASE FailCheckpoint \/ WriteAnchor
  <2>1. cp.step # "none" /\ Leave(cp.by) /\ UNCHANGED logOnly
    BY <1>5 DEF FailCheckpoint, WriteAnchor
  <2>2. CASE cp.by = Main
    <3>1. wpc' = wpc
      BY <1>0, <2>1, <2>2, EvidenceAssumption DEF Leave
    <3> QED
      BY <2>1, <3>1 DEF logOnly, logVars
  <2>3. CASE cp.by # Main
    BY <1>1, <2>1, <2>3 DEF LockInv, Hooking
  <2> QED
    BY <2>2, <2>3
<1>6. CASE AppendCheckpoint \/ Finalize
  BY <1>6 DEF AppendCheckpoint, Finalize
<1>7. CASE Close
  BY <1>7 DEF Close, LogNext
<1>8. CASE Die
  BY <1>8 DEF Die, LogNext
<1> QED
  BY <1>2, <1>3, <1>4, <1>5, <1>6, <1>7, <1>8 DEF EvidenceNext

(* What a thread that leaves the scheduler changes. *)
LEMMA LeaveHooking ==
    ASSUME LogTypeOK, NEW who, Leave(who)
    PROVE  /\ Hooking' = Hooking \ {who}
           /\ wpc' \in [Writer -> {"idle", "hook", "done", "raised", "lost"}]
BY DEF Leave, Hooking, LogTypeOK

(* A record adds its writer to the hooks, unless the logger is degraded. *)
LEMMA WriteHooking ==
    ASSUME LogTypeOK, NEW w \in Writer, NEW shape \in Shapes, WriteRecord(w, shape)
    PROVE  /\ w \notin Hooking
           /\ \/ Hooking' = Hooking \cup {w}
              \/ Hooking' = Hooking /\ degraded' = TRUE
           /\ wpc'[w] # "hook" => degraded' = TRUE
<1>0. /\ wpc \in [Writer -> {"idle", "hook", "done", "raised", "lost"}]
      /\ degraded \in BOOLEAN /\ wpc[w] = "idle"
  BY DEF LogTypeOK, WriteRecord
<1>1. \/ wpc' = [wpc EXCEPT ![w] = "hook"]
      \/ wpc' = [wpc EXCEPT ![w] = "done"] /\ degraded' = TRUE
      \/ wpc' = [wpc EXCEPT ![w] = "raised"] /\ degraded' = TRUE
  BY <1>0, Zenon DEF WriteRecord, WriteFails, ToStderr, Raises, Returns
<1>2. CASE wpc' = [wpc EXCEPT ![w] = "hook"]
  BY <1>0, <1>2 DEF Hooking
<1>3. CASE /\ \/ wpc' = [wpc EXCEPT ![w] = "done"]
              \/ wpc' = [wpc EXCEPT ![w] = "raised"]
           /\ degraded' = TRUE
  BY <1>0, <1>3 DEF Hooking
<1> QED
  BY <1>1, <1>2, <1>3

(* A process that stops loses its hooks. *)
LEMMA StopHooking ==
    ASSUME LogTypeOK, Close \/ Die
    PROVE  Hooking' = {} /\ up' = FALSE
<1>1. CASE Close \/ (Die /\ Crash)
  BY <1>1 DEF Close, CloseLog, Die, Crash, Lose, Hooking, LogTypeOK
<1>2. ASSUME NEW w \in Writer, NEW shape \in Shapes, CrashInWrite(w, shape)
      PROVE  Hooking' = {} /\ up' = FALSE
  <2>1. wpc' = [Lose EXCEPT ![w] = "lost"] /\ up' = FALSE
    BY <1>2 DEF CrashInWrite
  <2> QED
    BY <2>1 DEF Lose, Hooking, LogTypeOK
<1> QED
  BY <1>1, <1>2 DEF Die

(* What the text of a checkpoint does to the evidence file. *)
LEMMA CheckpointLines ==
    ASSUME StateInv, NEW newline \in BOOLEAN, PutCheckpoint(newline)
    PROVE  /\ evidence' \in Seq(Checkpoint)
           /\ Len(evidence) \in Nat /\ Len(evidence') = Len(evidence) + 1
           /\ evidence'[Len(evidence) + 1] = NewCheckpoint
           /\ \A i \in 1 .. Len(evidence) : evidence'[i] = evidence[i]
           /\ NewCheckpoint \in Checkpoint
           /\ NewCheckpoint.tree_size = Len(cp.root) /\ NewCheckpoint.root = cp.root
           /\ evidenceEnded' = newline
           /\ torn' = (torn \/ ~ evidenceEnded) /\ torn' \in BOOLEAN
<1>0. /\ evidence \in Seq(Checkpoint) /\ evidenceEnded \in BOOLEAN /\ torn \in BOOLEAN
      /\ cp.root \in Seq(Line) /\ Len(cp.root) \in Nat
  BY DEF StateInv, InProgress
<1>1. /\ NewCheckpoint \in Checkpoint
      /\ NewCheckpoint.tree_size = Len(cp.root) /\ NewCheckpoint.root = cp.root
  BY <1>0 DEF NewCheckpoint, Checkpoint
<1>2. /\ evidence' = Append(evidence, NewCheckpoint) /\ evidenceEnded' = newline
      /\ torn' = (torn \/ ~ evidenceEnded)
  BY DEF PutCheckpoint
<1>3. torn' \in BOOLEAN
  BY <1>2
<1>4. /\ evidence' \in Seq(Checkpoint)
      /\ Len(evidence) \in Nat /\ Len(evidence') = Len(evidence) + 1
      /\ evidence'[Len(evidence) + 1] = NewCheckpoint
      /\ \A i \in 1 .. Len(evidence) : evidence'[i] = evidence[i]
  BY <1>0, <1>1, <1>2
<1> QED
  BY <1>1, <1>2, <1>3, <1>4

(* What an append that failed does to it. *)
LEMMA CheckpointTorn ==
    ASSUME StateInv, NEW tear \in EvidenceTears, PutCheckpointTorn(tear)
    PROVE  /\ evidence' = evidence \/ PutCheckpoint(FALSE)
           /\ evidence' \in Seq(Checkpoint)
           /\ evidenceEnded' \in BOOLEAN /\ torn' \in BOOLEAN
<1>0. /\ evidence \in Seq(Checkpoint) /\ evidenceEnded \in BOOLEAN /\ torn \in BOOLEAN
      /\ tear \in JsonTear
  BY EvidenceAssumption DEF StateInv
<1>1. CASE tear = "nothing"
  BY <1>0, <1>1 DEF PutCheckpointTorn
<1>2. CASE tear = "unended"
  <2>1. PutCheckpoint(FALSE)
    BY <1>2 DEF PutCheckpointTorn
  <2> QED
    BY <2>1, CheckpointLines
<1>3. CASE tear = "torn"
  BY <1>0, <1>3 DEF PutCheckpointTorn
<1> QED
  BY <1>0, <1>1, <1>2, <1>3 DEF JsonTear

(* What a line does to the anchor file. *)
LEMMA AnchorLines ==
    ASSUME StateInv, NEW head \in Nat, NEW newline \in BOOLEAN,
           PutAnchor(head, newline), ~ anchorEnded => anchor # <<>>
    PROVE  /\ anchor' \in Seq(Nat) /\ anchorEnded' = newline
           /\ Len(anchor) \in Nat /\ Len(anchor') \in Nat /\ anchor' # <<>>
           /\ anchorEnded => /\ Len(anchor') = Len(anchor) + 1
                             /\ anchor'[Len(anchor) + 1] = head
           /\ ~ anchorEnded => /\ Len(anchor') = Len(anchor)
                               /\ anchor'[Len(anchor)] = Unreadable
           /\ \A i \in 1 .. Len(anchor) :
                i < Len(anchor) \/ anchorEnded => anchor'[i] = anchor[i]
<1>0. anchor \in Seq(Nat) /\ Len(anchor) \in Nat
  BY DEF StateInv
<1>1. anchorEnded' = newline
  BY DEF PutAnchor
<1>2. CASE anchorEnded
  <2>1. anchor' = Append(anchor, head)
    BY <1>2 DEF PutAnchor
  <2>2. /\ anchor' \in Seq(Nat) /\ Len(anchor') = Len(anchor) + 1
        /\ anchor'[Len(anchor) + 1] = head
        /\ \A i \in 1 .. Len(anchor) : anchor'[i] = anchor[i]
    BY <1>0, <2>1
  <2>3. anchor' # <<>>
    BY <1>0, <2>2
  <2> QED
    BY <1>0, <1>1, <1>2, <2>2, <2>3
<1>3. CASE ~ anchorEnded
  <2> DEFINE n == Len(anchor)
  <2>0. n \in Nat /\ n > 0 /\ n = Len(anchor)
    BY <1>0, <1>3
  <2>1. anchor' = [anchor EXCEPT ![n] = Unreadable]
    BY <1>3 DEF PutAnchor
  <2>2. /\ anchor' \in Seq(Nat) /\ Len(anchor') = n /\ anchor'[n] = Unreadable
        /\ \A i \in 1 .. n : i < n => anchor'[i] = anchor[i]
    BY <1>0, <2>0, <2>1 DEF Unreadable
  <2> HIDE DEF n
  <2>3. anchor' # <<>>
    BY <2>0, <2>2
  <2> QED
    BY <1>1, <1>3, <2>0, <2>2, <2>3
<1> QED
  BY <1>2, <1>3

(* What a write to it that failed leaves. *)
LEMMA AnchorTorn ==
    ASSUME StateInv, NEW tear \in AnchorTears, PutAnchorTorn(tear)
    PROVE  \/ UNCHANGED <<anchor, anchorEnded>>
           \/ PutAnchor(Len(evidence), FALSE)
           \/ PutAnchor(Unreadable, FALSE)
<1>1. tear \in JsonTear
  BY EvidenceAssumption
<1> QED
  BY <1>1 DEF PutAnchorTorn, JsonTear

(* What became of the anchor file in any step that writes to it. *)
LEMMA AnchorTyped ==
    ASSUME StateInv, AnchorInv,
           \/ AnchorHead
           \/ \E tear \in AnchorTears : PutAnchorTorn(tear)
           \/ UNCHANGED <<anchor, anchorEnded>>
    PROVE  anchor' \in Seq(Nat) /\ anchorEnded' \in BOOLEAN
<1>0. /\ Len(evidence) \in Nat /\ Unreadable \in Nat
      /\ ~ anchorEnded => anchor # <<>>
      /\ anchor \in Seq(Nat) /\ anchorEnded \in BOOLEAN
  BY DEF StateInv, AnchorInv, Unreadable
<1>1. ASSUME NEW head \in Nat, NEW newline \in BOOLEAN, PutAnchor(head, newline)
      PROVE  anchor' \in Seq(Nat) /\ anchorEnded' \in BOOLEAN
  BY <1>0, <1>1, AnchorLines
<1> QED
  BY <1>0, <1>1, AnchorTorn DEF AnchorHead

(* The scheduler's own state stays well typed. *)
LEMMA StateStep ==
    ASSUME LogTypeOK, StateInv, AnchorInv,
           [EvidenceNext]_<<logVars, evidenceVars>>
    PROVE  StateInv'
<1> USE DEF StateInv, Phase
<1>0. file \in Seq(Line)
  BY DEF LogTypeOK
<1>n. NoCheckpoint \in InProgress
  BY DEF NoCheckpoint, InProgress
<1>b. ASSUME NEW who \in Writer \cup {Main}, Begin(who)
      PROVE  pend' \in Nat /\ cp' \in InProgress
  BY <1>0, <1>b DEF Begin, InProgress
<1>1. CASE StartServer
  BY <1>1 DEF StartServer, filesVars
<1>2. ASSUME NEW w \in Writer, RecordCall(w) PROVE StateInv'
  BY <1>2 DEF RecordCall, filesVars
<1>3. ASSUME NEW w \in Writer, OnRecord(w) PROVE StateInv'
  <2>1. pend' \in Nat /\ cp' \in InProgress
    BY <1>3, <1>b DEF OnRecord
  <2>2. phase' \in Phase
    BY <1>3 DEF OnRecord, Leave
  <2> QED
    BY <1>3, <2>1, <2>2 DEF OnRecord, filesVars
<1>4. CASE AppendCheckpoint
  <2>1. cp' \in InProgress
    BY <1>4 DEF AppendCheckpoint, InProgress
  <2>2. /\ evidence' \in Seq(Checkpoint)
        /\ evidenceEnded' \in BOOLEAN /\ torn' \in BOOLEAN
    BY <1>4, CheckpointLines DEF AppendCheckpoint
  <2>3. glued' \subseteq {"evidence", "anchor"}
    BY <1>4 DEF AppendCheckpoint
  <2> QED
    BY <1>4, <2>1, <2>2, <2>3 DEF AppendCheckpoint
<1>5. CASE FailCheckpoint
  <2>1. /\ evidence' \in Seq(Checkpoint)
        /\ evidenceEnded' \in BOOLEAN /\ torn' \in BOOLEAN
    BY <1>5, CheckpointTorn DEF FailCheckpoint
  <2>2. phase' \in Phase
    BY <1>5 DEF FailCheckpoint, Leave
  <2> QED
    BY <1>5, <1>n, <2>1, <2>2 DEF FailCheckpoint
<1>6. CASE WriteAnchor
  <2>1. anchor' \in Seq(Nat) /\ anchorEnded' \in BOOLEAN
    BY <1>6, AnchorTyped DEF WriteAnchor
  <2>2. failed' \in BOOLEAN /\ glued' \subseteq {"evidence", "anchor"}
    BY <1>6 DEF WriteAnchor
  <2>3. phase' \in Phase
    BY <1>6 DEF WriteAnchor, Leave
  <2> QED
    BY <1>6, <1>n, <2>1, <2>2, <2>3 DEF WriteAnchor
<1>7. CASE Finalize
  BY <1>7, <1>b DEF Finalize, filesVars
<1>8. CASE Close
  <2>1. mended' \in BOOLEAN
    BY <1>8 DEF Close
  <2> QED
    BY <1>8, <1>n, <2>1 DEF Close, filesVars
<1>9. CASE Die
  <2>1. /\ evidence' \in Seq(Checkpoint)
        /\ evidenceEnded' \in BOOLEAN /\ torn' \in BOOLEAN
    BY <1>9, CheckpointTorn DEF Die, filesVars
  <2>2. anchor' \in Seq(Nat) /\ anchorEnded' \in BOOLEAN
    BY <1>9, AnchorTyped DEF Die, filesVars
  <2> QED
    BY <1>9, <1>n, <2>1, <2>2 DEF Die
<1>10. CASE UNCHANGED <<logVars, evidenceVars>>
  BY <1>10 DEF evidenceVars, filesVars
<1> QED
  BY <1>1, <1>2, <1>3, <1>4, <1>5, <1>6, <1>7, <1>8, <1>9, <1>10
    DEF EvidenceNext

(* The lock is taken by a hook or by finalize(), and given back by both. *)
LEMMA LockStep ==
    ASSUME LogTypeOK, StateInv, LockInv, [EvidenceNext]_<<logVars, evidenceVars>>
    PROVE  LockInv'
<1> USE EvidenceAssumption DEF LockInv
<1>n. NoCheckpoint.step = "none" /\ NoCheckpoint.by = "nobody" /\ NoCheckpoint.by # Main
  BY DEF NoCheckpoint, Main
<1>1. CASE StartServer
  <2>1. Hooking' = Hooking
    BY <1>1 DEF StartServer, Start, Hooking
  <2> QED
    BY <1>1, <1>n, <2>1 DEF StartServer, Start
<1>2. ASSUME NEW w \in Writer, RecordCall(w) PROVE LockInv'
  <2>0. PICK shape \in Shapes : WriteRecord(w, shape)
    BY <1>2 DEF RecordCall
  <2>1. Hooking \subseteq Hooking' /\ up /\ up'
    BY <2>0, WriteHooking DEF WriteRecord
  <2>2. phase' = phase \/ (phase = "binding" /\ phase' \in {"exiting", "serving"})
    BY <1>2 DEF RecordCall
  <2> QED
    BY <1>2, <2>1, <2>2 DEF RecordCall
<1>3. ASSUME NEW w \in Writer, OnRecord(w) PROVE LockInv'
  <2>1. up /\ up' /\ w \in Hooking
    BY <1>3 DEF OnRecord, logOnly, Hooking
  <2>2. CASE Leave(w) /\ UNCHANGED cp /\ cp.by # w
    <3>1. Hooking' = Hooking \ {w}
      BY <2>2, LeaveHooking
    <3>2. phase' = phase \/ (phase = "binding" /\ phase' = "serving")
      BY <2>2 DEF Leave
    <3> QED
      BY <2>1, <2>2, <3>1, <3>2
  <2>3. CASE Leave(w) /\ UNCHANGED cp /\ Free
    <3>1. Hooking' = Hooking \ {w}
      BY <2>3, LeaveHooking
    <3>2. phase' = phase \/ (phase = "binding" /\ phase' = "serving")
      BY <2>3 DEF Leave
    <3> QED
      BY <1>n, <2>1, <2>3, <3>1, <3>2 DEF Free
  <2>4. CASE Free /\ Begin(w) /\ UNCHANGED <<wpc, phase>>
    <3>1. cp'.by = w /\ cp'.step = "append"
      BY <2>4 DEF Begin
    <3>2. Hooking' = Hooking
      BY <2>4 DEF Hooking
    <3> QED
      BY <1>n, <2>1, <2>4, <3>1, <3>2 DEF Free
  <2> QED
    BY <1>3, <2>2, <2>3, <2>4 DEF OnRecord
<1>4. CASE AppendCheckpoint
  <2>1. cp'.by = cp.by /\ cp'.step = "anchor" /\ cp.step = "append"
    BY <1>4 DEF AppendCheckpoint, StateInv, InProgress
  <2>2. UNCHANGED <<up, phase, Hooking>>
    BY <1>4 DEF AppendCheckpoint, logVars, Hooking
  <2> QED
    BY <2>1, <2>2
<1>5. CASE FailCheckpoint \/ WriteAnchor
  <2>1. cp.step # "none" /\ cp' = NoCheckpoint /\ Leave(cp.by) /\ up' = up
    BY <1>5 DEF FailCheckpoint, WriteAnchor, logOnly
  <2>2. phase' # "finalizing" /\ phase' \notin {"down", "rest"} /\ up'
    BY <2>1 DEF Leave
  <2> QED
    BY <1>n, <2>1, <2>2
<1>6. CASE Finalize
  <2>1. UNCHANGED <<up, Hooking>> /\ up /\ Free
    BY <1>6 DEF Finalize, logVars, Hooking
  <2>2. CASE Begin(Main) /\ phase' = "finalizing"
    BY <2>1, <2>2 DEF Begin
  <2>3. CASE phase' = "finalized" /\ UNCHANGED cp
    BY <1>n, <2>1, <2>3 DEF Free
  <2> QED
    BY <1>6, <2>2, <2>3 DEF Finalize
<1>7. CASE Close \/ Die
  <2>1. Hooking' = {} /\ up' = FALSE
    BY <1>7, StopHooking
  <2>2. cp' = NoCheckpoint /\ phase' \in {"down", "rest"}
    BY <1>7 DEF Close, Die
  <2> QED
    BY <1>n, <2>1, <2>2
<1>8. CASE UNCHANGED <<logVars, evidenceVars>>
  BY <1>8 DEF evidenceVars, logVars, Hooking
<1> QED
  BY <1>1, <1>2, <1>3, <1>4, <1>5, <1>6, <1>7, <1>8 DEF EvidenceNext

(* A head that is written is newer than what the anchor has. *)
LEMMA AnchorGrows ==
    ASSUME StateInv, AnchorInv, cp.step = "anchor", evidence' = evidence,
           cp'.step = "none",
           NEW head \in {Len(evidence), Unreadable}, NEW newline \in BOOLEAN,
           PutAnchor(head, newline)
    PROVE  AnchorInv'
<1> USE DEF AnchorInv, AnchorNotAhead, Unreadable
<1>0. /\ Len(evidence) \in Nat /\ head \in Nat
      /\ anchor \in Seq(Nat) /\ anchorEnded \in BOOLEAN
      /\ \A i \in 1 .. Len(anchor) : anchor[i] \in Nat
  BY DEF StateInv
<1>1. /\ anchor' \in Seq(Nat) /\ anchorEnded' = newline
      /\ Len(anchor) \in Nat /\ Len(anchor') \in Nat /\ anchor' # <<>>
      /\ anchorEnded => /\ Len(anchor') = Len(anchor) + 1
                        /\ anchor'[Len(anchor) + 1] = head
      /\ ~ anchorEnded => /\ Len(anchor') = Len(anchor)
                          /\ anchor'[Len(anchor)] = Unreadable
      /\ \A i \in 1 .. Len(anchor) :
           i < Len(anchor) \/ anchorEnded => anchor'[i] = anchor[i]
  BY <1>0, AnchorLines
<1>2. \A i \in 1 .. Len(anchor') :
         \/ /\ i \in 1 .. Len(anchor) /\ anchor'[i] = anchor[i]
         \/ /\ i = Len(anchor') /\ anchor'[i] \in {Len(evidence), 0}
            /\ \A j \in 1 .. i - 1 : j \in 1 .. Len(anchor) /\ anchor'[j] = anchor[j]
  <2>1. CASE anchorEnded
    BY <1>1, <2>1
  <2>2. CASE ~ anchorEnded
    BY <1>1, <2>2
  <2> QED
    BY <2>1, <2>2
<1>3. ASSUME NEW i \in 1 .. Len(anchor')
      PROVE  /\ anchor'[i] <= Len(evidence)
             /\ \A j \in 1 .. i - 1 : anchor'[i] # 0 => anchor'[j] < anchor'[i]
  <2>1. CASE i \in 1 .. Len(anchor) /\ anchor'[i] = anchor[i]
    <3>1. \A j \in 1 .. i - 1 : anchor'[j] = anchor[j]
      BY <1>1, <2>1
    <3> QED
      BY <2>1, <3>1
  <2>2. CASE /\ anchor'[i] \in {Len(evidence), 0}
             /\ \A j \in 1 .. i - 1 : j \in 1 .. Len(anchor) /\ anchor'[j] = anchor[j]
    BY <1>0, <2>2
  <2> QED
    BY <1>2, <2>1, <2>2
<1> QED
  BY <1>1, <1>3

(* Anchored heads only grow, and never past the evidence. *)
LEMMA AnchorStep ==
    ASSUME StateInv, AnchorInv, [EvidenceNext]_<<logVars, evidenceVars>>
    PROVE  AnchorInv'
<1>0. /\ evidence \in Seq(Checkpoint) /\ anchor \in Seq(Nat)
      /\ Len(evidence) \in Nat /\ Len(anchor) \in Nat
      /\ \A i \in 1 .. Len(anchor) : anchor[i] \in Nat
  BY DEF StateInv
<1>n. NoCheckpoint.step = "none"
  BY DEF NoCheckpoint
<1>1. ASSUME UNCHANGED <<evidence, anchor, anchorEnded>>,
             cp' = cp \/ cp'.step # "anchor"
      PROVE  AnchorInv'
  BY <1>1 DEF AnchorInv, AnchorNotAhead
<1>p. ASSUME NEW newline \in BOOLEAN, PutCheckpoint(newline),
             UNCHANGED <<anchor, anchorEnded>>
      PROVE  AnchorInv'
  <2>1. Len(evidence') = Len(evidence) + 1
    BY <1>p, CheckpointLines
  <2>2. \A i \in 1 .. Len(anchor) : anchor[i] <= Len(evidence)
    BY DEF AnchorInv, AnchorNotAhead
  <2>3. /\ Len(evidence') > 0
        /\ \A i \in 1 .. Len(anchor) : anchor[i] < Len(evidence')
                                    /\ anchor[i] <= Len(evidence')
    BY <1>0, <2>1, <2>2
  <2> QED
    BY <1>p, <2>3 DEF AnchorInv, AnchorNotAhead
<1>t. ASSUME NEW tear \in EvidenceTears, PutCheckpointTorn(tear),
             UNCHANGED <<anchor, anchorEnded>>, cp'.step = "none"
      PROVE  AnchorInv'
  BY <1>1, <1>p, <1>t, CheckpointTorn
<1>a. ASSUME NEW tear \in AnchorTears, PutAnchorTorn(tear),
             cp.step = "anchor", evidence' = evidence, cp'.step = "none"
      PROVE  AnchorInv'
  <2>1. CASE UNCHANGED <<anchor, anchorEnded>>
    BY <1>1, <1>a, <2>1
  <2>2. CASE PutAnchor(Len(evidence), FALSE) \/ PutAnchor(Unreadable, FALSE)
    BY <1>a, <2>2, AnchorGrows
  <2> QED
    BY <1>a, <2>1, <2>2, AnchorTorn
<1>2. CASE StartServer \/ Close \/ UNCHANGED <<logVars, evidenceVars>>
  BY <1>1, <1>2, <1>n DEF StartServer, Close, evidenceVars, filesVars
<1>3. ASSUME NEW w \in Writer, RecordCall(w) \/ OnRecord(w) PROVE AnchorInv'
  BY <1>1, <1>3 DEF RecordCall, OnRecord, Begin, filesVars
<1>4. CASE Finalize
  BY <1>1, <1>4 DEF Finalize, Begin, filesVars
<1>5. CASE AppendCheckpoint
  BY <1>5, <1>p DEF AppendCheckpoint
<1>6. CASE FailCheckpoint
  BY <1>1, <1>6, <1>n, <1>t DEF FailCheckpoint
<1>7. CASE WriteAnchor
  <2>1. cp.step = "anchor" /\ cp'.step = "none" /\ evidence' = evidence
    BY <1>7, <1>n DEF WriteAnchor
  <2>2. CASE AnchorHead
    BY <2>1, <2>2, AnchorGrows DEF AnchorHead
  <2>3. CASE \E tear \in AnchorTears : PutAnchorTorn(tear)
    BY <1>a, <2>1, <2>3
  <2>4. CASE UNCHANGED <<anchor, anchorEnded>>
    BY <1>1, <2>1, <2>4
  <2> QED
    BY <1>7, <2>2, <2>3, <2>4 DEF WriteAnchor
<1>8. CASE Die
  <2>1. cp'.step = "none"
    BY <1>8, <1>n DEF Die
  <2>2. CASE UNCHANGED filesVars
    BY <1>1, <2>1, <2>2 DEF filesVars
  <2>3. CASE /\ \E tear \in EvidenceTears : PutCheckpointTorn(tear)
             /\ UNCHANGED <<anchor, anchorEnded>>
    BY <1>t, <2>1, <2>3
  <2>4. CASE /\ cp.step = "anchor" /\ evidence' = evidence
             /\ \E tear \in AnchorTears : PutAnchorTorn(tear)
    BY <1>a, <2>1, <2>4
  <2> QED
    BY <1>8, <2>2, <2>3, <2>4 DEF Die
<1> QED
  BY <1>2, <1>3, <1>4, <1>5, <1>6, <1>7, <1>8 DEF EvidenceNext

-----------------------------------------------------------------------------
(* Until a start finds an unended line or the file is closed, it only      *)
(* grows.                                                                  *)
LEMMA FileGrows ==
    ASSUME AuditInv, [LogNext]_logVars, ~ joined', CloseLog => UNCHANGED file
    PROVE  /\ ~ joined
           /\ file \in Seq(Line) /\ file' \in Seq(Line)
           /\ Len(file') >= Len(file)
           /\ \A i \in 1 .. Len(file) : file'[i] = file[i]
<1>0. file \in Seq(Line) /\ Len(file) \in Nat /\ LogTypeOK /\ LinesInv
  BY DEF AuditInv, LogTypeOK
<1>1. ASSUME NEW w \in Writer, NEW shape \in Shapes,
             WriteRecord(w, shape) \/ CrashInWrite(w, shape), file' # file
      PROVE  /\ ~ joined /\ file' \in Seq(Line)
             /\ Len(file') >= Len(file)
             /\ \A i \in 1 .. Len(file) : file'[i] = file[i]
  <2>0. up /\ joined' = joined
    BY <1>1 DEF WriteRecord, CrashInWrite
  <2>d. ~ degraded
    BY <1>1, Zenon DEF WriteRecord, WriteFails, CrashInWrite
  <2>1. up /\ ~ degraded /\ ~ joined
    BY <2>0, <2>d, Zenon
  <2>2. ended
    BY <1>0, <2>1 DEF LinesInv
  <2>3. \/ Put(shape, NewRecord, TRUE)
        \/ \E tear \in Tears : PutTorn(tear, shape, NewRecord)
    BY <1>1, <2>1 DEF WriteRecord, WriteFails, TornWrite, CrashInWrite
  <2> QED
    BY <1>0, <2>1, <2>2, <2>3, WriteLines
<1>2. ~ joined
  BY DEF LogNext, Start, WriteRecord, CrashInWrite, Return, CloseLog, Crash, logVars
<1>3. CASE file' = file
  BY <1>0, <1>2, <1>3
<1>4. CASE file' # file
  BY <1>0, <1>1, <1>4 DEF LogNext, Start, Return, Crash, logVars
<1> QED
  BY <1>3, <1>4

(* A prefix of a log that grew is the prefix it was. *)
LEMMA PrefixKept ==
    ASSUME NEW s \in Seq(Line), NEW t \in Seq(Line), Len(t) >= Len(s),
           \A i \in 1 .. Len(s) : t[i] = s[i],
           NEW k \in 0 .. Len(s)
    PROVE  SubSeq(t, 1, k) = SubSeq(s, 1, k)
OBVIOUS

(* A log that grew keeps what its checkpoints say of it. *)
LEMMA RootsKept ==
    ASSUME NEW s \in Seq(Line), NEW t \in Seq(Line), Len(t) >= Len(s),
           \A i \in 1 .. Len(s) : t[i] = s[i],
           NEW ev \in Seq(Checkpoint), RootsHold(s, ev)
    PROVE  RootsHold(t, ev)
<1> SUFFICES ASSUME NEW i \in 1 .. Len(ev)
             PROVE  /\ CoveredBy(ev, i - 1) <= ev[i].tree_size
                    /\ ev[i].tree_size <= Len(t)
                    /\ ev[i].root = SubSeq(t, 1, ev[i].tree_size)
  BY DEF RootsHold
<1>1. /\ CoveredBy(ev, i - 1) <= ev[i].tree_size
      /\ ev[i].tree_size <= Len(s)
      /\ ev[i].root = SubSeq(s, 1, ev[i].tree_size)
  BY DEF RootsHold
<1>2. ev[i].tree_size \in Nat /\ Len(s) \in Nat /\ Len(t) \in Nat
  <2>1. ev[i] \in Checkpoint
    OBVIOUS
  <2> QED
    BY <2>1 DEF Checkpoint
<1>3. ev[i].tree_size \in 0 .. Len(s)
  BY <1>1, <1>2
<1>4. SubSeq(t, 1, ev[i].tree_size) = SubSeq(s, 1, ev[i].tree_size)
  BY <1>3, PrefixKept
<1> QED
  BY <1>1, <1>2, <1>4

(* What the checkpoints cover is no more than the log. *)
LEMMA CoveredBound ==
    ASSUME NEW s \in Seq(Line), NEW ev \in Seq(Checkpoint), RootsHold(s, ev)
    PROVE  CoveredBy(ev, Len(ev)) \in Nat /\ CoveredBy(ev, Len(ev)) <= Len(s)
<1>0. Len(ev) \in Nat /\ Len(s) \in Nat
  OBVIOUS
<1>1. CASE Len(ev) = 0
  BY <1>0, <1>1 DEF CoveredBy
<1>2. CASE Len(ev) # 0
  <2>1. Len(ev) \in 1 .. Len(ev)
    BY <1>0, <1>2
  <2>2. ev[Len(ev)] \in Checkpoint /\ ev[Len(ev)].tree_size <= Len(s)
    BY <2>1 DEF RootsHold
  <2> QED
    BY <1>2, <2>2 DEF CoveredBy, Checkpoint
<1> QED
  BY <1>1, <1>2

(* A close that finishes no line of a checkpoint keeps what the            *)
(* checkpoints say.                                                        *)
LEMMA CloseRoots ==
    ASSUME AuditInv, StateInv, Close, ~ mended', RootsHold(file, evidence)
    PROVE  RootsHold(file', evidence)
<1>0. /\ file \in Seq(Line) /\ Len(file) \in Nat /\ ended \in BOOLEAN
      /\ evidence \in Seq(Checkpoint) /\ LogTypeOK /\ LinesInv
      /\ held # <<>> => held[1] \in Line
  BY DEF AuditInv, LogTypeOK, StateInv
<1>1. \A i \in 1 .. Len(evidence) :
         evidence[i].tree_size = Len(file) => SubSeq(file', 1, Len(file)) = file
  BY DEF Close
<1>2. \/ file' = file
      \/ \E line \in Line, newline \in BOOLEAN : Settle(line, newline)
  BY <1>0, CloseLines DEF Close
<1>3. CASE file' = file
  BY <1>3
<1>4. ASSUME NEW line \in Line, NEW newline \in BOOLEAN, Settle(line, newline)
      PROVE  RootsHold(file', evidence)
  <2>1. /\ file' \in Seq(Line) /\ Len(file') \in Nat /\ Len(file') >= Len(file)
        /\ \A i \in 1 .. Len(file) : i < Len(file) \/ ended => file'[i] = file[i]
    BY <1>0, <1>4, SettleLines
  <2> SUFFICES ASSUME NEW i \in 1 .. Len(evidence)
               PROVE  /\ CoveredBy(evidence, i - 1) <= evidence[i].tree_size
                      /\ evidence[i].tree_size <= Len(file')
                      /\ evidence[i].root
                            = SubSeq(file', 1, evidence[i].tree_size)
    BY DEF RootsHold
  <2> DEFINE k == evidence[i].tree_size
  <2>2. k \in Nat
    <3>1. evidence[i] \in Checkpoint
      BY <1>0
    <3> QED
      BY <3>1 DEF Checkpoint
  <2>3. /\ CoveredBy(evidence, i - 1) <= k
        /\ k <= Len(file)
        /\ evidence[i].root = SubSeq(file, 1, k)
    BY DEF RootsHold
  <2>4. SubSeq(file', 1, k) = SubSeq(file, 1, k)
    <3>1. CASE k = Len(file)
      <4>1. SubSeq(file', 1, Len(file)) = file
        BY <1>1, <3>1
      <4>2. SubSeq(file, 1, Len(file)) = file
        BY <1>0
      <4> QED
        BY <3>1, <4>1, <4>2
    <3>2. CASE k < Len(file)
      <4>1. \A j \in 1 .. k : file'[j] = file[j]
        BY <1>0, <2>1, <2>2, <3>2
      <4> QED
        BY <1>0, <2>1, <2>2, <3>2, <4>1
    <3> QED
      BY <1>0, <2>2, <2>3, <3>1, <3>2
  <2> QED
    BY <1>0, <2>1, <2>2, <2>3, <2>4
<1> QED
  BY <1>2, <1>3, <1>4

(* A checkpoint that is appended is one of the log. *)
LEMMA CoverGrows ==
    ASSUME StateInv, CoverInv, LogTypeOK, ~ joined, ~ mended, cp.step = "append",
           NEW newline \in BOOLEAN, PutCheckpoint(newline)
    PROVE  RootsHold(file, evidence')
<1> DEFINE n == Len(evidence)
<1>1. /\ Len(cp.root) <= Len(file)
      /\ cp.root = SubSeq(file, 1, Len(cp.root))
      /\ CoveredBy(evidence, n) <= Len(cp.root)
      /\ RootsHold(file, evidence)
  BY DEF CoverInv
<1>2. /\ n \in Nat /\ Len(evidence') = n + 1
      /\ evidence'[n + 1] = NewCheckpoint
      /\ \A i \in 1 .. n : evidence'[i] = evidence[i]
      /\ NewCheckpoint.tree_size = Len(cp.root) /\ NewCheckpoint.root = cp.root
  BY CheckpointLines
<1>3. \A i \in 0 .. n : CoveredBy(evidence', i) = CoveredBy(evidence, i)
  BY <1>2 DEF CoveredBy
<1> SUFFICES ASSUME NEW i \in 1 .. n + 1
             PROVE  /\ CoveredBy(evidence', i - 1) <= evidence'[i].tree_size
                    /\ evidence'[i].tree_size <= Len(file)
                    /\ evidence'[i].root
                          = SubSeq(file, 1, evidence'[i].tree_size)
  BY <1>2 DEF RootsHold
<1>4. CASE i = n + 1
  BY <1>1, <1>2, <1>3, <1>4
<1>5. CASE i \in 1 .. n
  <2>1. i - 1 \in 0 .. n
    BY <1>2, <1>5
  <2> QED
    BY <1>1, <1>2, <1>3, <1>5, <2>1 DEF RootsHold
<1> QED
  BY <1>2, <1>4, <1>5

(* The checkpoints stay checkpoints of the log. *)
LEMMA CoverStep ==
    ASSUME AuditInv, StateInv, LockInv, CoverInv,
           [EvidenceNext]_<<logVars, evidenceVars>>, [LogNext]_logVars
    PROVE  CoverInv'
<1> SUFFICES ASSUME ~ joined', ~ mended'
             PROVE  /\ RootsHold(file', evidence')
                    /\ cp'.step = "append" =>
                          /\ Len(cp'.root) <= Len(file')
                          /\ cp'.root = SubSeq(file', 1, Len(cp'.root))
                          /\ CoveredBy(evidence', Len(evidence')) <= Len(cp'.root)
  BY DEF CoverInv, RootsHold, CoveredBy
<1>n. NoCheckpoint.step = "none"
  BY DEF NoCheckpoint
<1>j. ~ joined /\ ~ mended /\ LogTypeOK
  <2>1. ~ joined
    BY DEF LogNext, Start, WriteRecord, CrashInWrite, Return, CloseLog, Crash, logVars
  <2>2. ~ mended
    BY DEF EvidenceNext, StartServer, RecordCall, OnRecord, AppendCheckpoint,
           FailCheckpoint, WriteAnchor, Finalize, Close, Die, evidenceVars
  <2> QED
    BY <2>1, <2>2 DEF AuditInv
<1>1. evidence \in Seq(Checkpoint) /\ RootsHold(file, evidence)
  BY <1>j DEF StateInv, CoverInv
<1>9. CASE Close
  <2>1. cp'.step = "none" /\ evidence' = evidence
    BY <1>9, <1>n DEF Close, filesVars
  <2> QED
    BY <1>1, <1>9, <2>1, CloseRoots
<1> SUFFICES ASSUME ~ Close
             PROVE  /\ RootsHold(file', evidence')
                    /\ cp'.step = "append" =>
                          /\ Len(cp'.root) <= Len(file')
                          /\ cp'.root = SubSeq(file', 1, Len(cp'.root))
                          /\ CoveredBy(evidence', Len(evidence')) <= Len(cp'.root)
  BY <1>9
<1>c. CloseLog => UNCHANGED file
  <2>1. ASSUME up \/ up', UNCHANGED up PROVE ~ CloseLog
    BY <2>1 DEF CloseLog
  <2>2. CASE \/ \E w \in Writer : RecordCall(w) \/ OnRecord(w)
             \/ AppendCheckpoint \/ FailCheckpoint \/ WriteAnchor \/ Finalize
             \/ UNCHANGED <<logVars, evidenceVars>>
    <3>1. UNCHANGED up
      BY <2>2 DEF RecordCall, WriteRecord, OnRecord, AppendCheckpoint, FailCheckpoint,
                  WriteAnchor, Finalize, logOnly, logVars
    <3> QED
      BY <2>1, <3>1 DEF CloseLog
  <2>3. CASE StartServer
    BY <2>3 DEF StartServer, Start, CloseLog
  <2>4. CASE Die
    <3>1. made \in Nat
      BY <1>j DEF LogTypeOK
    <3> QED
      BY <2>4, <3>1 DEF Die, Crash, CrashInWrite, CloseLog
  <2> QED
    BY <2>2, <2>3, <2>4 DEF EvidenceNext
<1>0. /\ file \in Seq(Line) /\ file' \in Seq(Line)
      /\ Len(file) \in Nat /\ Len(file') \in Nat
      /\ Len(file') >= Len(file)
      /\ \A i \in 1 .. Len(file) : file'[i] = file[i]
  BY <1>c, FileGrows
<1>2. RootsHold(file', evidence)
  BY <1>0, <1>1, RootsKept
<1>3. CASE UNCHANGED <<cp, evidence>>
  <2>1. ASSUME cp.step = "append"
        PROVE  /\ Len(cp.root) <= Len(file')
               /\ cp.root = SubSeq(file', 1, Len(cp.root))
               /\ CoveredBy(evidence, Len(evidence)) <= Len(cp.root)
    <3>1. /\ Len(cp.root) <= Len(file)
          /\ cp.root = SubSeq(file, 1, Len(cp.root))
          /\ CoveredBy(evidence, Len(evidence)) <= Len(cp.root)
      BY <1>j, <2>1 DEF CoverInv
    <3>2. Len(cp.root) \in Nat
      BY DEF StateInv, InProgress
    <3>3. Len(cp.root) \in 0 .. Len(file)
      BY <1>0, <3>1, <3>2
    <3>4. SubSeq(file', 1, Len(cp.root)) = SubSeq(file, 1, Len(cp.root))
      BY <1>0, <3>3, PrefixKept
    <3> QED
      BY <1>0, <3>1, <3>2, <3>4
  <2> QED
    BY <1>2, <1>3, <2>1
<1>4. CASE cp'.step = "none" /\ UNCHANGED evidence
  BY <1>2, <1>4
<1>5. CASE (\E who \in Writer \cup {Main} : Begin(who)) /\ UNCHANGED <<file, evidence>>
  <2>1. cp'.root = file
    BY <1>5 DEF Begin
  <2>2. file = SubSeq(file, 1, Len(file))
    BY <1>0
  <2>3. CoveredBy(evidence, Len(evidence)) <= Len(file)
    BY <1>0, <1>1, CoveredBound
  <2> QED
    BY <1>0, <1>1, <1>5, <2>1, <2>2, <2>3
<1>6. CASE AppendCheckpoint
  <2>1. /\ cp.step = "append" /\ cp'.step = "anchor" /\ file' = file
        /\ PutCheckpoint(TRUE)
    BY <1>6 DEF AppendCheckpoint, logVars, StateInv, InProgress
  <2> QED
    BY <1>j, <2>1, CoverGrows
<1>t. ASSUME cp'.step = "none", cp.step = "append",
             NEW tear \in EvidenceTears, PutCheckpointTorn(tear)
      PROVE  RootsHold(file', evidence')
  <2>1. CASE evidence' = evidence
    BY <1>2, <2>1
  <2>2. CASE PutCheckpoint(FALSE)
    <3>1. RootsHold(file, evidence') /\ evidence' \in Seq(Checkpoint)
      BY <1>j, <1>t, <2>2, CoverGrows, CheckpointLines
    <3> QED
      BY <1>0, <3>1, RootsKept
  <2> QED
    BY <1>t, <2>1, <2>2, CheckpointTorn
<1>7. ASSUME NEW w \in Writer, RecordCall(w) \/ OnRecord(w)
      PROVE  \/ UNCHANGED <<cp, evidence>>
             \/ (\E who \in Writer \cup {Main} : Begin(who))
                /\ UNCHANGED <<file, evidence>>
  BY <1>7 DEF RecordCall, OnRecord, filesVars, logOnly
<1>8. CASE Finalize
  BY <1>3, <1>5, <1>8 DEF Finalize, filesVars, logVars
<1>10. CASE FailCheckpoint
  <2>1. cp'.step = "none" /\ cp.step = "append"
    BY <1>10, <1>n DEF FailCheckpoint
  <2> QED
    BY <1>4, <1>10, <1>t, <2>1 DEF FailCheckpoint
<1>11. CASE Die
  <2>1. cp'.step = "none"
    BY <1>11, <1>n DEF Die
  <2> QED
    BY <1>4, <1>11, <1>t, <2>1 DEF Die, filesVars
<1>12. CASE StartServer \/ WriteAnchor \/ UNCHANGED <<logVars, evidenceVars>>
  BY <1>3, <1>4, <1>12, <1>n
    DEF StartServer, WriteAnchor, evidenceVars, filesVars
<1> QED
  BY <1>3, <1>5, <1>6, <1>7, <1>8, <1>10, <1>11, <1>12 DEF EvidenceNext

-----------------------------------------------------------------------------
(* The steps that give the lock back: the holder leaves the scheduler. *)
LEMMA HolderLeaves ==
    ASSUME LogTypeOK, LockInv, FailCheckpoint \/ WriteAnchor
    PROVE  /\ cp.step # "none" /\ cp' = NoCheckpoint /\ cp'.step = "none"
           /\ Hooking' = Hooking \ {cp.by}
           /\ UNCHANGED <<transport, pend, file, ended, degraded, up>>
           /\ up
           /\ \/ cp.by = Main /\ phase = "finalizing" /\ phase' = "finalized"
              \/ /\ cp.by \in Hooking
                 /\ phase' = IF phase = "binding" THEN "serving" ELSE phase
<1>1. /\ cp.step # "none" /\ cp' = NoCheckpoint /\ Leave(cp.by)
      /\ UNCHANGED <<transport, pend, file, ended, degraded, up>>
  BY DEF FailCheckpoint, WriteAnchor, logOnly
<1>2. Hooking' = Hooking \ {cp.by}
  BY <1>1, LeaveHooking
<1>3. NoCheckpoint.step = "none"
  BY DEF NoCheckpoint
<1>4. \/ cp.by = Main /\ phase = "finalizing" /\ phase' = "finalized"
      \/ /\ cp.by \in Hooking
         /\ phase' = IF phase = "binding" THEN "serving" ELSE phase
  BY <1>1, EvidenceAssumption DEF LockInv, Leave, Hooking
<1> QED
  BY <1>1, <1>2, <1>3, <1>4 DEF LockInv

(* A shutdown over stdio comes after the last hook. *)
LEMMA JoinStep ==
    ASSUME LogTypeOK, StateInv, LockInv, JoinInv,
           [EvidenceNext]_<<logVars, evidenceVars>>
    PROVE  JoinInv'
<1> USE DEF JoinInv, Joins
<1>n. NoCheckpoint.step = "none"
  BY DEF NoCheckpoint
<1>1. CASE StartServer \/ Close \/ Die
  BY <1>1 DEF StartServer, Close, Die
<1>2. ASSUME NEW w \in Writer, RecordCall(w) PROVE JoinInv'
  <2>1. phase' \in {phase, "exiting", "serving"} /\ transport' = transport
    BY <1>2 DEF RecordCall
  <2> QED
    BY <1>2, <2>1 DEF RecordCall
<1>3. ASSUME NEW w \in Writer, OnRecord(w) PROVE JoinInv'
  <2>1. w \in Hooking /\ transport' = transport
    BY <1>3 DEF OnRecord, Hooking
  <2>2. phase' = phase \/ phase' = "serving"
    BY <1>3, EvidenceAssumption DEF OnRecord, Leave
  <2> QED
    BY <2>1, <2>2
<1>4. CASE AppendCheckpoint
  BY <1>4 DEF AppendCheckpoint, logVars, Hooking
<1>5. CASE FailCheckpoint \/ WriteAnchor
  BY <1>5, HolderLeaves
<1>6. CASE Finalize
  <2>1. UNCHANGED <<transport, Hooking>> /\ (Joins => Hooking = {}) /\ Free
    BY <1>6 DEF Finalize, logVars, Hooking
  <2>2. pend' = 0 /\ (phase' = "finalized" => cp' = cp)
    BY <1>6 DEF Finalize, Begin, StateInv
  <2> QED
    BY <1>n, <2>1, <2>2 DEF Free
<1>7. CASE UNCHANGED <<logVars, evidenceVars>>
  BY <1>7 DEF evidenceVars, logVars, Hooking
<1> QED
  BY <1>1, <1>2, <1>3, <1>4, <1>5, <1>6, <1>7 DEF EvidenceNext

(* A record that is written whole ends its line. *)
LEMMA EndedStep ==
    ASSUME AuditInv, LockInv, EndedInv,
           [EvidenceNext]_<<logVars, evidenceVars>>
    PROVE  EndedInv'
<1> USE DEF EndedInv
<1>0. LogTypeOK
  BY DEF AuditInv
<1>1. CASE StartServer
  BY <1>1 DEF StartServer, Start, LockInv, Hooking
<1>2. ASSUME NEW w \in Writer, RecordCall(w) PROVE EndedInv'
  <2>0. PICK shape \in Shapes : WriteRecord(w, shape)
    BY <1>2 DEF RecordCall
  <2>1. degraded' = TRUE \/ ended' = TRUE
    <3>1. CASE degraded
      BY <1>0, <2>0, <3>1 DEF WriteRecord, WriteFails, LogTypeOK
    <3>2. CASE ~ degraded
      BY <2>0, <3>2 DEF WriteRecord, WriteFails, Put, Settle
    <3> QED
      BY <3>1, <3>2
  <2> QED
    BY <2>1
<1>3. ASSUME NEW w \in Writer, OnRecord(w) PROVE EndedInv'
  <2>1. w \in Hooking /\ UNCHANGED <<degraded, ended>>
    BY <1>3 DEF OnRecord, Hooking, logOnly
  <2> QED
    BY <2>1
<1>4. CASE AppendCheckpoint \/ Finalize
  <2>1. UNCHANGED <<degraded, ended, Hooking>>
    BY <1>4 DEF AppendCheckpoint, Finalize, logVars, Hooking
  <2>2. phase' = phase \/ phase = "serving"
    BY <1>4 DEF AppendCheckpoint, Finalize
  <2> QED
    BY <2>1, <2>2
<1>5. CASE FailCheckpoint \/ WriteAnchor
  BY <1>0, <1>5, HolderLeaves
<1>6. CASE Close
  <2>1. Hooking' = {} /\ phase' \in {"down", "rest"} /\ degraded' = degraded
    BY <1>0, <1>6, StopHooking DEF Close, CloseLog
  <2>2. phase' = "rest" => phase = "finalized"
    BY <1>6 DEF Close
  <2>3. ~ degraded => ended' = ended
    BY <1>6 DEF Close, CloseLog, AuditInv, HeldInv
  <2> QED
    BY <2>1, <2>2, <2>3
<1>7. CASE Die
  <2>1. Hooking' = {} /\ phase' = "down"
    BY <1>0, <1>7, StopHooking DEF Die
  <2> QED
    BY <2>1
<1>8. CASE UNCHANGED <<logVars, evidenceVars>>
  BY <1>8 DEF evidenceVars, logVars, Hooking
<1> QED
  BY <1>1, <1>2, <1>3, <1>4, <1>5, <1>6, <1>7, <1>8 DEF EvidenceNext

(* What is owed to the evidence is never forgotten. *)
LEMMA SettleStep ==
    ASSUME AuditInv, StateInv, LockInv, AnchorInv, SettleInv, JoinInv,
           [EvidenceNext]_<<logVars, evidenceVars>>
    PROVE  SettleInv'
<1> DEFINE ToCome == /\ phase \in {"serving", "finalizing", "finalized"}
                     /\ ~ Owed
           Anchoring == /\ torn => "evidence" \in glued
                        /\ CoveredBy(evidence, Len(evidence)) = Len(cp.root)
           Awaited == Len(file) = Len(cp.root) \/ \E w \in Hooking : w # cp.by
<1> SUFFICES ASSUME ~ degraded'
             PROVE  /\ ~ failed' /\ ToCome' => Settled'
                    /\ cp'.step = "anchor" => Anchoring'
                    /\ cp'.step # "none" => Awaited'
                    /\ ~ failed' /\ phase' = "rest" /\ Joins' => Settled'
  BY DEF SettleInv
<1>0. LogTypeOK
  BY DEF AuditInv
<1>n. NoCheckpoint.step = "none"
  BY DEF NoCheckpoint
<1>1. CASE StartServer
  <2>1. cp'.step = "none" /\ phase' = "binding"
    BY <1>1 DEF StartServer, Start, LockInv
  <2> QED
    BY <2>1
<1>2. ASSUME NEW w \in Writer, RecordCall(w) PROVE SettleInv'
  <2>0. PICK shape \in Shapes : WriteRecord(w, shape)
    BY <1>2 DEF RecordCall
  <2>1. Hooking' = Hooking \cup {w} /\ w \notin Hooking
    BY <1>0, <2>0, WriteHooking
  <2>2. up /\ UNCHANGED <<cp, torn, evidence, glued>>
    BY <1>2, <2>0 DEF RecordCall, WriteRecord, filesVars
  <2>3. ~ degraded
    BY <2>0 DEF WriteRecord, WriteFails
  <2>4. Owed'
    BY <2>1 DEF Owed
  <2>5. cp.step # "none" => w # cp.by
    BY <2>1, EvidenceAssumption DEF LockInv
  <2>6. phase' # "rest"
    BY <1>2, <2>2 DEF LockInv, RecordCall
  <2>7. cp.step = "anchor" => Anchoring
    BY <2>3 DEF SettleInv
  <2>8. cp'.step = "anchor" => Anchoring'
    BY <2>2, <2>7
  <2>9. cp'.step # "none" => Awaited'
    BY <2>1, <2>2, <2>5
  <2> QED
    BY <2>4, <2>6, <2>8, <2>9 DEF SettleInv
<1>3. ASSUME NEW w \in Writer, OnRecord(w) PROVE SettleInv'
  <2>1. ~ degraded /\ up /\ up' /\ file' = file
    BY <1>3 DEF OnRecord, logOnly
  <2>2. phase' # "rest"
    BY <1>3, <2>1, EvidenceAssumption DEF OnRecord, Leave, LockInv
  <2>3. CASE pend' = pend + 1 /\ UNCHANGED cp /\ Free
    <3>1. pend' > 0
      BY <2>3 DEF StateInv
    <3> QED
      BY <1>n, <2>2, <2>3, <3>1 DEF SettleInv, Owed, Free
  <2>4. CASE Begin(w)
    BY <2>1, <2>2, <2>4 DEF Begin, SettleInv, Owed
  <2> QED
    BY <1>3, <2>1, <2>3, <2>4 DEF OnRecord
<1>4. CASE AppendCheckpoint
  <2>1. /\ cp'.step = "anchor" /\ cp'.by = cp.by /\ cp'.root = cp.root
        /\ cp.step = "append"
        /\ UNCHANGED <<file, Hooking, phase, degraded, up>>
    BY <1>4 DEF AppendCheckpoint, logVars, Hooking, StateInv, InProgress
  <2>2. CoveredBy(evidence, Len(evidence))' = Len(cp.root)
    <3>1. /\ Len(evidence) \in Nat /\ Len(evidence') = Len(evidence) + 1
          /\ evidence'[Len(evidence) + 1] = NewCheckpoint
          /\ NewCheckpoint.tree_size = Len(cp.root)
      BY <1>4, CheckpointLines DEF AppendCheckpoint
    <3> QED
      BY <3>1 DEF CoveredBy
  <2>3. torn' => "evidence" \in glued'
    BY <1>4 DEF AppendCheckpoint, CanCheckpoint, PutCheckpoint
  <2>4. Owed' /\ phase # "rest"
    BY <2>1 DEF Owed, LockInv
  <2>5. Awaited
    BY <2>1 DEF SettleInv
  <2>6. Awaited' /\ Anchoring'
    BY <2>1, <2>2, <2>3, <2>5
  <2> QED
    BY <2>1, <2>4, <2>6
<1>5. CASE FailCheckpoint
  <2>1. failed' = TRUE /\ cp'.step = "none"
    BY <1>5, <1>n DEF FailCheckpoint
  <2> QED
    BY <2>1
<1>6. CASE WriteAnchor
  <2>0. /\ cp.step = "anchor" /\ UNCHANGED <<evidence, torn>>
        /\ "evidence" \in glued => "evidence" \in glued'
    BY <1>6 DEF WriteAnchor
  <2>1. /\ cp'.step = "none" /\ Hooking' = Hooking \ {cp.by}
        /\ UNCHANGED <<file, degraded>>
        /\ phase' # "rest"
    BY <1>0, <1>6, HolderLeaves DEF LockInv
  <2>2. Anchoring /\ Awaited
    BY <2>0, <2>1 DEF SettleInv
  <2>3. ~ failed' /\ HasAnchor =>
            /\ anchor' # <<>>
            /\ anchor'[Len(anchor')] = Unreadable => "anchor" \in glued'
    <3> SUFFICES ASSUME ~ failed', HasAnchor
                 PROVE  /\ anchor' # <<>>
                        /\ anchor'[Len(anchor')] = Unreadable => "anchor" \in glued'
      OBVIOUS
    <3>1. /\ PutAnchor(Len(evidence), TRUE)
          /\ ~ anchorEnded => "anchor" \in glued'
      BY <1>6 DEF WriteAnchor, AnchorHead
    <3>2. Len(evidence) \in Nat /\ Len(evidence) > 0 /\ (~ anchorEnded => anchor # <<>>)
      BY <2>0 DEF AnchorInv, StateInv
    <3>3. /\ anchor' # <<>>
          /\ anchorEnded => anchor'[Len(anchor')] = Len(evidence)
      BY <3>1, <3>2, AnchorLines
    <3> QED
      BY <3>1, <3>2, <3>3 DEF Unreadable
  <2>4. ~ failed' /\ ~ Owed' => Settled'
    BY <2>0, <2>1, <2>2, <2>3 DEF Owed, Settled
  <2> QED
    BY <2>1, <2>4
<1>7. CASE Finalize
  <2>1. /\ UNCHANGED <<file, evidence, torn, anchor, Hooking, degraded, failed, glued>>
        /\ Free
    BY <1>7 DEF Finalize, filesVars, logVars, Hooking
  <2>2. CASE Begin(Main) /\ phase' = "finalizing"
    BY <2>1, <2>2 DEF Begin, Owed
  <2>3. CASE phase' = "finalized" /\ UNCHANGED <<pend, cp>>
    <3>1. phase = "serving" /\ cp.step = "none"
      BY <1>7, <1>n, <2>1 DEF Finalize, Free
    <3>2. ~ failed /\ ~ Owed => Settled
      BY <2>1, <3>1 DEF SettleInv
    <3> QED
      BY <2>1, <2>3, <3>1, <3>2 DEF Owed, Settled
  <2> QED
    BY <1>7, <2>2, <2>3 DEF Finalize
<1>8. CASE Close
  <2>1. /\ UNCHANGED <<evidence, torn, anchor, degraded, failed, transport, glued>>
        /\ cp'.step = "none" /\ ~ ToCome'
        /\ phase' = "rest" => phase = "finalized"
    BY <1>8, <1>n DEF Close, CloseLog, filesVars
  <2>2. file' = file
    <3>1. ~ degraded
      BY <2>1
    <3>2. held = <<>>
      BY <3>1 DEF AuditInv, HeldInv
    <3>3. CloseLog
      BY <1>8 DEF Close
    <3> QED
      BY <3>2, <3>3 DEF CloseLog
  <2>3. Joins /\ phase = "finalized" => ~ Owed
    BY DEF JoinInv, Owed, Joins
  <2>4. ~ failed /\ Joins /\ phase = "finalized" => Settled
    BY <2>1, <2>3 DEF SettleInv
  <2> QED
    BY <2>1, <2>2, <2>4 DEF Settled, Joins
<1>9. CASE Die
  <2>1. cp'.step = "none" /\ phase' = "down"
    BY <1>9, <1>n DEF Die
  <2> QED
    BY <2>1
<1>10. CASE UNCHANGED <<logVars, evidenceVars>>
  BY <1>10 DEF SettleInv, Owed, Settled, Joins, Hooking, evidenceVars, filesVars, logVars
<1> QED
  BY <1>1, <1>2, <1>3, <1>4, <1>5, <1>6, <1>7, <1>8, <1>9, <1>10
    DEF EvidenceNext, SettleInv

-----------------------------------------------------------------------------
(* The inductive invariant: the log keeps its own, the checkpoint in the   *)
(* making belongs to a thread that is there and is over a prefix of the    *)
(* log, and what the scheduler does not count or wait for is covered.      *)
EvidenceInv ==
    /\ AuditInv
    /\ StateInv
    /\ LockInv
    /\ CoverInv
    /\ AnchorInv
    /\ JoinInv
    /\ EndedInv
    /\ SettleInv

(* Before the first start nothing is written. *)
LEMMA EvidenceStart == EvidenceInit => EvidenceInv
<1> SUFFICES ASSUME EvidenceInit PROVE EvidenceInv
  OBVIOUS
<1> USE DEF EvidenceInit
<1>n. /\ NoCheckpoint.step = "none" /\ NoCheckpoint.by = "nobody"
      /\ NoCheckpoint.by # Main /\ NoCheckpoint \in InProgress
  BY DEF NoCheckpoint, Main, InProgress
<1>1. AuditInv
  BY LogStart
<1>2. StateInv
  <2>1. evidence \in Seq(Checkpoint) /\ anchor \in Seq(Nat)
    OBVIOUS
  <2>2. cp \in InProgress
    BY <1>n
  <2> QED
    BY <2>1, <2>2 DEF StateInv, Phase
<1>3. Hooking = {} /\ up = FALSE /\ file = <<>>
  BY DEF Hooking, LogInit
<1>4. LockInv
  BY <1>n, <1>3 DEF LockInv
<1>5. CoverInv
  BY <1>n DEF CoverInv, RootsHold
<1>6. AnchorInv
  BY <1>n DEF AnchorInv, AnchorNotAhead
<1>7. JoinInv /\ EndedInv /\ SettleInv
  BY <1>n, <1>3 DEF JoinInv, EndedInv, SettleInv
<1> QED
  BY <1>1, <1>2, <1>4, <1>5, <1>6, <1>7 DEF EvidenceInv

(* Every step of the server keeps the invariant. *)
LEMMA EvidenceStep ==
    EvidenceInv /\ [EvidenceNext]_<<logVars, evidenceVars>> => EvidenceInv'
<1> SUFFICES ASSUME EvidenceInv, [EvidenceNext]_<<logVars, evidenceVars>>
             PROVE  EvidenceInv'
  OBVIOUS
<1>0. LogTypeOK
  BY DEF EvidenceInv, AuditInv
<1>1. [LogNext]_logVars
  BY <1>0, ServerStepIsLogStep DEF EvidenceInv
<1>2. AuditInv'
  BY <1>1, AuditStep DEF EvidenceInv
<1>3. StateInv' /\ LockInv'
  BY <1>0, StateStep, LockStep DEF EvidenceInv
<1>4. CoverInv' /\ AnchorInv'
  BY <1>1, CoverStep, AnchorStep DEF EvidenceInv
<1>5. JoinInv' /\ EndedInv' /\ SettleInv'
  BY <1>0, JoinStep, EndedStep, SettleStep DEF EvidenceInv
<1> QED
  BY <1>2, <1>3, <1>4, <1>5 DEF EvidenceInv

(* Whatever the threads, the crashes and the failed writes: the invariant  *)
(* holds in every state of the server.                                     *)
THEOREM EvidenceSafe == EvidenceSpec => []EvidenceInv
<1>1. EvidenceInit => EvidenceInv
  BY EvidenceStart
<1>2. EvidenceInv /\ [EvidenceNext]_<<logVars, evidenceVars>> => EvidenceInv'
  BY EvidenceStep
<1> QED
  BY <1>1, <1>2, PTL DEF EvidenceSpec

(* The server writes its log as the audit log of AuditLog.tla is written:  *)
(* checkpoints and anchors never touch it, and serve() only starts and     *)
(* closes it (server.py, _serve; evidence.py reads it).                    *)
THEOREM ServerImplementsLog == EvidenceSpec => LogSpec
<1>1. EvidenceInit => LogInit
  BY DEF EvidenceInit
<1>2. EvidenceInv /\ [EvidenceNext]_<<logVars, evidenceVars>> => [LogNext]_logVars
  BY ServerStepIsLogStep DEF EvidenceInv, AuditInv
<1> QED
  BY <1>1, <1>2, EvidenceSafe, PTL DEF EvidenceSpec, LogSpec

(* Whatever AuditLog.tla promises holds while the server checkpoints it:   *)
(* a sound log verifies, no returned record is lost unless the file and    *)
(* stderr both failed or a start wrote on behind a torn line, the chain    *)
(* head is the last line of the file, and the file is append-only          *)
(* (audit.py, AuditLogger).                                                *)
THEOREM ServerKeepsLog ==
    EvidenceSpec =>
        /\ [](SoundLogVerifies /\ RecordsKept /\ HeadIsTail)
        /\ AppendOnly
BY ServerImplementsLog, SoundLog, NoRecordLost, ChainHeadIsTail, LogAppendOnly, PTL

(* The types of the scheduler's state. *)
THEOREM EvidenceTyped == EvidenceSpec => []EvidenceTypeOK
<1>1. EvidenceInv => EvidenceTypeOK
  <2> SUFFICES ASSUME EvidenceInv PROVE EvidenceTypeOK
    OBVIOUS
  <2>1. LogTypeOK /\ StateInv
    BY DEF EvidenceInv, AuditInv
  <2>2. /\ cp.by \in Writer \cup {Main, "nobody"}
        /\ cp.step \in {"none", "append", "anchor"}
        /\ cp.root \in Seq(Line)
    BY <2>1 DEF StateInv, InProgress
  <2> QED
    BY <2>1, <2>2 DEF EvidenceTypeOK, StateInv, Phase
<1> QED
  BY <1>1, EvidenceSafe, PTL

(* The checkpoints are of growing prefixes of the log that is there, so    *)
(* verify_evidence does not report tampering where there was none, unless  *)
(* a start wrote on behind a torn audit line or a close finished one that  *)
(* a checkpoint covers (evidence.py, make_checkpoint and verify_evidence;  *)
(* audit.py, close).                                                       *)
THEOREM CheckpointsSound == EvidenceSpec => []CheckpointsHold
<1>1. EvidenceInv => CheckpointsHold
  BY DEF EvidenceInv, CoverInv, CheckpointsHold
<1> QED
  BY <1>1, EvidenceSafe, PTL

(* The anchor is never ahead of the evidence, and its heads only grow,     *)
(* whatever a write to either file leaves behind (evidence.py,             *)
(* write_anchor).                                                          *)
THEOREM AnchorBehind == EvidenceSpec => []AnchorNotAhead
<1>1. EvidenceInv => AnchorNotAhead
  BY DEF EvidenceInv, AnchorInv
<1> QED
  BY <1>1, EvidenceSafe, PTL

(* The scheduler forgets no record, while the last checkpoint did not fail *)
(* (evidence.py, on_record and finalize).                                  *)
THEOREM NoneForgotten == EvidenceSpec => []NothingForgotten
<1>n. NoCheckpoint.step = "none"
  BY DEF NoCheckpoint
<1>1. EvidenceInv => NothingForgotten
  BY <1>n DEF EvidenceInv, SettleInv, Settled, Owed, Free, NothingForgotten
<1> QED
  BY <1>1, EvidenceSafe, PTL

(* After an orderly shutdown over stdio the evidence of a sound log        *)
(* verifies, also after crashes, restarts and writes torn in any of the    *)
(* three files: unless the last checkpoint failed, a line was appended to  *)
(* one without its newline, or a close finished a checkpointed line        *)
(* (evidence.py, finalize and verify_evidence).                            *)
THEOREM RestVerifies == EvidenceSpec => []VerifiesAtRest
<1>1. EvidenceInv => VerifiesAtRest
  <2> SUFFICES ASSUME EvidenceInv, phase = "rest", Joins, ~ degraded, ~ failed,
                      glued = {}, ~ mended, VerifyChain = "ok"
               PROVE  ~ torn /\ EvidenceHolds(file, evidence)
    BY DEF VerifiesAtRest, VerifyEvidence
  <2>0. /\ file \in Seq(Line) /\ evidence \in Seq(Checkpoint) /\ anchor \in Seq(Nat)
        /\ LinesInv
    BY DEF EvidenceInv, AuditInv, LogTypeOK, StateInv
  <2>1. Settled
    BY DEF EvidenceInv, SettleInv
  <2>2. ended
    BY DEF EvidenceInv, EndedInv
  <2>3. \A i \in 1 .. Len(file) : file[i].kind \in Readable
    BY DEF VerifyChain, ChainHolds, Readable
  <2>4. ~ joined
    BY <2>0, <2>2, <2>3 DEF LinesInv
  <2>5. RootsHold(file, evidence)
    BY <2>4 DEF EvidenceInv, CoverInv
  <2>6. FullCoverage(file, evidence) /\ ~ torn
    BY <2>1 DEF Settled, FullCoverage
  <2>7. HasAnchor => ~ AnchorFailure(evidence, anchor)
    <3> SUFFICES ASSUME HasAnchor PROVE ~ AnchorFailure(evidence, anchor)
      OBVIOUS
    <3>1. anchor # <<>> /\ anchor[Len(anchor)] # Unreadable
      BY <2>1 DEF Settled
    <3>2. anchor[Len(anchor)] \in Nat /\ Len(anchor) \in 1 .. Len(anchor)
      BY <2>0, <3>1
    <3>3. anchor[Len(anchor)] <= Len(evidence) /\ Len(evidence) \in Nat
      BY <2>0, <3>2 DEF EvidenceInv, AnchorInv, AnchorNotAhead
    <3> QED
      BY <3>1, <3>2, <3>3 DEF AnchorFailure, Unreadable
  <2> QED
    BY <2>5, <2>6, <2>7 DEF EvidenceHolds
<1> QED
  BY <1>1, EvidenceSafe, PTL
=============================================================================
