------------------------------ MODULE AuditLog ------------------------------
(***************************************************************************)
(* AuditLogger (execution/audit.py): the append-only, hash-chained audit   *)
(* file, the logger that writes it, its recovery after a restart, and the  *)
(* verification of the chain.                                              *)
(*                                                                         *)
(* A record is abstracted to its place in the chain: its own entry_hash is *)
(* a number nothing else has, prev_hash the number of the record it        *)
(* follows.  A line of the file is what its bytes amount to for a reader:  *)
(* a record, a record whose text holds a line separator that splitlines()  *)
(* honours and iterating a file does not, or something neither reads.      *)
(***************************************************************************)
EXTENDS Integers, Sequences

CONSTANTS
    Writer,         \* bound: the calls of record(), one each
    Shapes,         \* what records may hold: {"record"}, or "split" as well
    Tears,          \* what a write that fails may leave behind
    StderrFails,    \* stderr may be broken as well
    MaxStarts       \* bound: how often the process is started

Genesis == 0        \* GENESIS, the prev_hash of the first record

LineKind == {"record", "split", "piece", "nonutf8"}

(* A failed write leaves nothing, part of the line, part of the line cut   *)
(* inside a multi-byte character, or all of it but the newline.            *)
Tear == {"nothing", "piece", "nonutf8", "unended"}

ASSUME AuditLogAssumption ==
    /\ Shapes \subseteq {"record", "split"}
    /\ Tears \subseteq Tear
    /\ StderrFails \in BOOLEAN
    /\ MaxStarts \in Nat

VARIABLES
    file,       \* the lines of the audit file
    ended,      \* the last line ends with a newline
    seq,        \* AuditLogger._seq
    prev,       \* AuditLogger._prev_hash
    degraded,   \* AuditLogger._degraded: records go to stderr
    held,       \* the line of a failed write which the file's buffer holds on to
    up,         \* the process runs
    starts,     \* how often it was started
    wpc,        \* wpc[w]: where writer w is
    made        \* the number of the last record built

(* History. *)
VARIABLES
    stderr,     \* the records that went to stderr
    muted,      \* the records whose write to stderr failed
    returned,   \* the records whose record() returned
    sound,      \* this process found a verified log, and tore no write since
    joined      \* some start found a last line without its newline

logVars == <<file, ended, seq, prev, degraded, held, up, starts, wpc, made,
             stderr, muted, returned, sound, joined>>

Record == [id : Nat, seq : Nat, prev : Nat]

NoRecord == [id |-> 0, seq |-> 0, prev |-> 0]

Line == [kind : LineKind, rec : Record]

LogTypeOK ==
    /\ file \in Seq(Line)
    /\ ended \in BOOLEAN
    /\ seq \in Nat
    /\ prev \in Nat
    /\ degraded \in BOOLEAN
    /\ held \in Seq(Line) /\ Len(held) <= 1
    /\ up \in BOOLEAN
    /\ starts \in Nat
    /\ wpc \in [Writer -> {"idle", "hook", "done", "raised", "lost"}]
    /\ made \in Nat
    /\ stderr \subseteq Nat
    /\ muted \subseteq Nat
    /\ returned \subseteq Nat
    /\ sound \in BOOLEAN
    /\ joined \in BOOLEAN

-----------------------------------------------------------------------------
(* Readers. *)

Undecodable == \E i \in 1 .. Len(file) : file[i].kind = "nonutf8"

(* Every line parses, follows the line before it and numbers on from it. *)
ChainHolds ==
    \A i \in 1 .. Len(file) :
        /\ file[i].kind = "record"
        /\ file[i].rec.seq = i - 1
        /\ file[i].rec.prev = IF i = 1 THEN Genesis ELSE file[i - 1].rec.id

(* verify_chain: decoding the file is not guarded, reading it is. *)
VerifyChain ==
    IF Undecodable THEN "raises" ELSE IF ChainHolds THEN "ok" ELSE "broken"

(* _recover: the chain head of the last line, genesis if it cannot be read. *)
Recovered ==
    IF /\ file # <<>>
       /\ ~ Undecodable
       /\ file[Len(file)].kind \in {"record", "split"}
      THEN [seq |-> file[Len(file)].rec.seq + 1, prev |-> file[Len(file)].rec.id]
      ELSE [seq |-> 0, prev |-> Genesis]

-----------------------------------------------------------------------------
(* Text appended after an unended line joins that line. *)
Joined(old, new) ==
    [kind |-> IF "nonutf8" \in {old, new} THEN "nonutf8" ELSE "piece",
     rec |-> NoRecord]

(* The line that the file gets when this text is written to it. *)
Finished(kind, rec) ==
    IF ended THEN [kind |-> kind, rec |-> rec]
             ELSE Joined(file[Len(file)].kind, kind)

(* A line goes into the file: a new one, or what its last one becomes. *)
Settle(line, newline) ==
    /\ file' = IF ended THEN Append(file, line)
                        ELSE [file EXCEPT ![Len(file)] = line]
    /\ ended' = newline

Put(kind, rec, newline) == Settle(Finished(kind, rec), newline)

(* What a torn write of a record of this shape leaves in the file. *)
PutTorn(tear, shape, rec) ==
    CASE tear = "nothing" -> UNCHANGED <<file, ended>>
      [] tear = "unended" -> Put(shape, rec, FALSE)
      [] OTHER            -> Put(tear, NoRecord, FALSE)

(* Mutant: a start cuts off a last line it cannot continue. *)
StartRepairs ==
    /\ ~ up
    /\ starts < MaxStarts
    /\ starts' = starts + 1
    /\ up' = TRUE
    /\ seq' = Recovered.seq
    /\ prev' = Recovered.prev
    /\ degraded' \in BOOLEAN
    /\ sound' = (VerifyChain = "ok")
    /\ joined' = (joined \/ ~ ended)
    /\ file' = IF file # <<>> /\ file[Len(file)].kind # "record"
                 THEN SubSeq(file, 1, Len(file) - 1) ELSE file
    /\ UNCHANGED <<ended, held, wpc, made, stderr, muted, returned>>

(* The construction of a logger: recover the chain head, open the file. An *)
(* unreadable directory degrades it from the start.                        *)
Start ==
    /\ ~ up
    /\ starts < MaxStarts
    /\ starts' = starts + 1
    /\ up' = TRUE
    /\ seq' = Recovered.seq
    /\ prev' = Recovered.prev
    /\ degraded' \in BOOLEAN
    /\ sound' = (VerifyChain = "ok")
    /\ joined' = (joined \/ ~ ended)
    /\ UNCHANGED <<file, ended, held, wpc, made, stderr, muted, returned>>

LogInit ==
    /\ file = <<>>
    /\ ended = TRUE
    /\ seq = 0
    /\ prev = Genesis
    /\ degraded = FALSE
    /\ held = <<>>
    /\ up = FALSE
    /\ starts = 0
    /\ wpc = [w \in Writer |-> "idle"]
    /\ made = 0
    /\ stderr = {}
    /\ muted = {}
    /\ returned = {}
    /\ sound = FALSE
    /\ joined = FALSE

(* Mutant: a record is not linked to the one before it. *)
NewRecordUnlinked == [id |-> made + 1, seq |-> seq, prev |-> Genesis]

NewRecord == [id |-> made + 1, seq |-> seq, prev |-> prev]

(* record() returns, to its post-record hook or without: the chain         *)
(* advances, whatever became of the line.                                  *)
Returns(w, to) ==
    /\ seq' = seq + 1
    /\ prev' = made + 1
    /\ returned' = returned \cup {made + 1}
    /\ wpc' = [wpc EXCEPT ![w] = to]

(* The line goes to stderr, and the logger is degraded, so that no hook    *)
(* follows; that the write fails is swallowed.                             *)
ToStderr(w) ==
    /\ Returns(w, "done")
    /\ \/ stderr' = stderr \cup {made + 1} /\ UNCHANGED muted
       \/ StderrFails /\ muted' = muted \cup {made + 1} /\ UNCHANGED stderr

(* _degrade announces itself on stderr, and its print is not guarded: with *)
(* a broken stderr record() raises, and the chain does not advance.        *)
Raises(w) ==
    /\ StderrFails
    /\ wpc' = [wpc EXCEPT ![w] = "raised"]
    /\ UNCHANGED <<seq, prev, returned, stderr, muted>>

(* The write to the file fails part of the way; what was not written is    *)
(* gone, or stays in the buffer of the file.                               *)
TornWrite(shape) ==
    /\ \E tear \in Tears :
          /\ PutTorn(tear, shape, NewRecord)
          /\ sound' = (sound /\ tear = "nothing")
    /\ held' \in {<<>>, <<Finished(shape, NewRecord)>>}

(* Mutant: the line whose write failed is not repeated on stderr. *)
WriteFailsDrops(w, shape) ==
    /\ ~ degraded
    /\ TornWrite(shape)
    /\ degraded' = TRUE
    /\ Returns(w, "done")
    /\ UNCHANGED <<stderr, muted>>

(* Mutant: a failed write goes to stderr once and the file is kept. *)
WriteFailsRetries(w, shape) ==
    /\ ~ degraded
    /\ TornWrite(shape)
    /\ ToStderr(w)
    /\ UNCHANGED degraded

(* A write that fails degrades the logger for good and repeats the line on *)
(* stderr.                                                                 *)
WriteFails(w, shape) ==
    /\ ~ degraded
    /\ TornWrite(shape)
    /\ degraded' = TRUE
    /\ ToStderr(w) \/ Raises(w)

(* record(), under the logger's lock: build, hash, write, advance. *)
WriteRecord(w, shape) ==
    /\ up
    /\ wpc[w] = "idle"
    /\ made' = made + 1
    /\ \/ /\ ~ degraded
          /\ Put(shape, NewRecord, TRUE)
          /\ Returns(w, "hook")
          /\ UNCHANGED <<degraded, held, stderr, muted, sound>>
       \/ WriteFails(w, shape)
       \/ /\ degraded
          /\ ToStderr(w)
          /\ UNCHANGED <<file, ended, degraded, held, sound>>
    /\ UNCHANGED <<up, starts, joined>>

(* The process stops; a write in progress may be torn. *)
Lose == [w \in Writer |-> IF wpc[w] = "hook" THEN "lost" ELSE wpc[w]]

Crash ==
    /\ up
    /\ up' = FALSE
    /\ held' = <<>>
    /\ wpc' = Lose
    /\ UNCHANGED <<file, ended, seq, prev, degraded, starts, made, stderr,
                   muted, returned, sound, joined>>

CrashInWrite(w, shape) ==
    /\ up
    /\ ~ degraded
    /\ wpc[w] = "idle"
    /\ \E tear \in Tears :
          /\ PutTorn(tear, shape, NewRecord)
          /\ sound' = (sound /\ tear = "nothing")
    /\ made' = made + 1
    /\ up' = FALSE
    /\ held' = <<>>
    /\ wpc' = [Lose EXCEPT ![w] = "lost"]
    /\ UNCHANGED <<seq, prev, degraded, starts, stderr, muted, returned, joined>>

(* Of the line in the buffer, part is written again (all of it but the     *)
(* newline, if that is all there was left to write).                       *)
SettleTorn(tear) ==
    CASE tear = "nothing" -> UNCHANGED <<file, ended>>
      [] tear = "unended" -> Settle(held[1], FALSE)
      [] OTHER            -> /\ ~ ended => file[Len(file)] # held[1]
                             /\ Settle([kind |-> tear, rec |-> NoRecord], FALSE)

(* close() closes the file, which flushes what its buffer still holds; the *)
(* process exits.                                                          *)
CloseLog ==
    /\ up
    /\ up' = FALSE
    /\ \/ held = <<>> /\ UNCHANGED <<file, ended, sound>>
       \/ held # <<>> /\ Settle(held[1], TRUE) /\ UNCHANGED sound
       \/ /\ held # <<>>
          /\ \E tear \in Tears :
                SettleTorn(tear) /\ sound' = (sound /\ tear = "nothing")
    /\ held' = <<>>
    /\ wpc' = Lose
    /\ UNCHANGED <<seq, prev, degraded, starts, made, stderr, muted, returned,
                   joined>>

(* The log on its own: the post-record hook does nothing. *)
Return(w) ==
    /\ up
    /\ wpc[w] = "hook"
    /\ wpc' = [wpc EXCEPT ![w] = "done"]
    /\ UNCHANGED <<file, ended, seq, prev, degraded, held, up, starts, made,
                   stderr, muted, returned, sound, joined>>

LogNext ==
    \/ Start
    \/ \E w \in Writer, shape \in Shapes : WriteRecord(w, shape)
    \/ \E w \in Writer, shape \in Shapes : CrashInWrite(w, shape)
    \/ \E w \in Writer : Return(w)
    \/ CloseLog
    \/ Crash

LogSpec == LogInit /\ [][LogNext]_logVars

-----------------------------------------------------------------------------
(* A log that verified when the process started, and into which no write   *)
(* was torn since, verifies: across degrading to stderr, restarts on the   *)
(* same file and any order of writers.  The exceptions are spelled out:    *)
(* records that hold a Unicode line separator, and a restart on a last     *)
(* line without its newline.                                               *)
SoundLogVerifies ==
    sound /\ ~ joined /\ (\A i \in 1 .. Len(file) : file[i].kind # "split")
        => VerifyChain = "ok"

(* No record whose record() returned is lost while one of the two sinks    *)
(* works (SEC-8: degrades to stderr): it is a line of the file or it is on *)
(* stderr, unless its write to stderr failed after one to the file had, or *)
(* a later start wrote on behind a torn line.  Closing the file, which may *)
(* finish a torn line, takes no record away.                               *)
RecordsKept ==
    \A n \in returned :
        \/ n \in stderr
        \/ n \in muted
        \/ joined
        \/ \E i \in 1 .. Len(file) :
              file[i].rec.id = n /\ file[i].kind \in {"record", "split"}

(* The file is append-only: a line that was ended never changes, whatever  *)
(* is recovered, torn or written later.                                    *)
AppendOnly ==
    [][/\ Len(file') >= Len(file)
       /\ \A i \in 1 .. Len(file) :
             i < Len(file) \/ ended => file'[i] = file[i]]_logVars

(* While the logger is not degraded, its chain head is the last line of    *)
(* the file: what it writes next continues the chain that is there.        *)
HeadIsTail ==
    up /\ ~ degraded /\ ~ joined =>
        [seq |-> seq, prev |-> prev] = Recovered

-----------------------------------------------------------------------------
(* Claims of the documentation that the code does not keep. *)

(* execution/audit.py: "The written line is produced by this same          *)
(* function, so verification stays consistent."                            *)
WrittenLinesVerify == sound /\ ~ joined => VerifyChain = "ok"

(* execution/audit.py: "Recover the chain head from an existing file so    *)
(* restarts continue the same chain."                                      *)
RestartContinuesChain ==
    sound /\ (\A i \in 1 .. Len(file) : file[i].kind # "split")
        => VerifyChain = "ok"
=============================================================================
