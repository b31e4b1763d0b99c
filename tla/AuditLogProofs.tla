--------------------------- MODULE AuditLogProofs ---------------------------
(***************************************************************************)
(* Proofs about the audit log, for every number of writers, restarts and   *)
(* torn writes, whatever the records hold.                                 *)
(***************************************************************************)
EXTENDS AuditLog, SequenceTheorems, TLAPS

Readable == {"record", "split"}

(* The lines of the file.  Only the last can be unended.  A line that is   *)
(* not a record was torn: while no start has found one it is the unended   *)
(* last line, and no logger writes behind it; afterwards it is still       *)
(* unended, or for good in the file as a line that is no record.           *)
LinesInv ==
    /\ ~ ended => file # <<>>
    /\ ~ joined => \A i \in 1 .. Len(file) :
                      i < Len(file) \/ ended => file[i].kind \in Readable
    /\ up /\ ~ degraded /\ ~ joined => ended
    /\ joined => \/ ~ ended
                 \/ \E i \in 1 .. Len(file) : file[i].kind \notin Readable

(* The line in the buffer of a degraded logger: the end of an unended last *)
(* line that is not there yet, or a line that would follow the last one.   *)
(* If nothing was torn it would continue the chain.                        *)
HeldInv ==
    held # <<>> =>
        /\ up /\ degraded
        /\ ~ joined => held[1].kind \in Readable
        /\ ~ joined /\ ~ ended => \/ file[Len(file)] = held[1]
                                  \/ file[Len(file)].kind \notin Readable
        /\ joined => \/ held[1].kind \notin Readable
                     \/ \E i \in 1 .. Len(file) :
                          (i < Len(file) \/ ended) /\ file[i].kind \notin Readable
        /\ sound /\ ~ joined =>
              /\ ended
              /\ [seq |-> held[1].rec.seq, prev |-> held[1].rec.prev] = Recovered

(* The inductive invariant: the chain head of a logger that writes is what *)
(* a reader of the file would recover, so each record continues the chain. *)
AuditInv ==
    /\ LogTypeOK
    /\ LinesInv
    /\ HeldInv
    /\ HeadIsTail
    /\ SoundLogVerifies
    /\ RecordsKept

-----------------------------------------------------------------------------
(* What the file's buffer may hold: nothing, or a line. *)
LEMMA HeldType ==
    /\ <<>> \in Seq(Line) /\ Len(<<>>) <= 1
    /\ \A line \in Line : <<line>> \in Seq(Line) /\ Len(<<line>>) <= 1
OBVIOUS

(* What a line does to the file it goes into. *)
LEMMA SettleLines ==
    ASSUME LogTypeOK, LinesInv,
           NEW line \in Line, NEW newline \in BOOLEAN, Settle(line, newline)
    PROVE  /\ file' \in Seq(Line)
           /\ ended' = newline
           /\ Len(file') \in Nat /\ Len(file') > 0 /\ Len(file') >= Len(file)
           /\ ended => /\ file' = Append(file, line)
                       /\ Len(file') = Len(file) + 1
                       /\ file'[Len(file) + 1] = line
           /\ ~ ended => Len(file') = Len(file) /\ file'[Len(file)] = line
           /\ \A i \in 1 .. Len(file) :
                i < Len(file) \/ ended => file'[i] = file[i]
<1>0. file \in Seq(Line) /\ Len(file) \in Nat /\ ended \in BOOLEAN
  BY DEF LogTypeOK
<1>1. CASE ended
  <2>1. file' = Append(file, line) /\ ended' = newline
    BY <1>1 DEF Settle
  <2> QED
    BY <1>0, <1>1, <2>1
<1>2. CASE ~ ended
  <2> DEFINE n == Len(file)
  <2>1. n > 0
    BY <1>0, <1>2 DEF LinesInv
  <2>2. file' = [file EXCEPT ![n] = line] /\ ended' = newline
    BY <1>2 DEF Settle
  <2>3. /\ file' \in Seq(Line) /\ Len(file') = n /\ file'[n] = line
        /\ \A i \in 1 .. n : i < n => file'[i] = file[i]
    BY <1>0, <2>1, <2>2
  <2>4. ended' = newline
    BY <2>2
  <2> HIDE DEF n
  <2>5. n \in Nat /\ n = Len(file)
    BY <1>0 DEF n
  <2> QED
    BY <1>2, <2>1, <2>3, <2>4, <2>5
<1> QED
  BY <1>0, <1>1, <1>2

(* The finished line is what was written, or one that does not parse. *)
LEMMA FinishedLine ==
    ASSUME LogTypeOK, LinesInv, NEW kind \in LineKind, NEW rec \in Record
    PROVE  /\ Finished(kind, rec) \in Line
           /\ ended => Finished(kind, rec) = [kind |-> kind, rec |-> rec]
           /\ ~ ended => Finished(kind, rec).kind \notin Readable
BY DEF Finished, Joined, Line, LineKind, NoRecord, Record, Readable

(* What writing to the file does to its lines. *)
LEMMA PutLines ==
    ASSUME LogTypeOK, LinesInv,
           NEW kind \in LineKind, NEW rec \in Record, NEW newline \in BOOLEAN,
           Put(kind, rec, newline)
    PROVE  /\ file' \in Seq(Line)
           /\ ended' = newline
           /\ Len(file') \in Nat /\ Len(file') > 0
           /\ ended =>
                /\ file' = Append(file, [kind |-> kind, rec |-> rec])
                /\ Len(file') = Len(file) + 1
                /\ file'[Len(file) + 1] = [kind |-> kind, rec |-> rec]
           /\ ~ ended =>
                /\ Len(file') = Len(file)
                /\ file'[Len(file)].kind \notin Readable
           /\ \A i \in 1 .. Len(file) :
                i < Len(file) \/ ended => file'[i] = file[i]
<1> DEFINE line == Finished(kind, rec)
<1>1. /\ line \in Line
      /\ ended => line = [kind |-> kind, rec |-> rec]
      /\ ~ ended => line.kind \notin Readable
  BY FinishedLine
<1>2. Settle(line, newline)
  BY DEF Put
<1> HIDE DEF line
<1>3. /\ file' \in Seq(Line)
      /\ ended' = newline
      /\ Len(file') \in Nat /\ Len(file') > 0
      /\ ended => /\ file' = Append(file, line)
                  /\ Len(file') = Len(file) + 1
                  /\ file'[Len(file) + 1] = line
      /\ ~ ended => Len(file') = Len(file) /\ file'[Len(file)] = line
      /\ \A i \in 1 .. Len(file) : i < Len(file) \/ ended => file'[i] = file[i]
  BY <1>1, <1>2, SettleLines
<1> QED
  BY <1>1, <1>3

(* The record built by a logger is one. *)
LEMMA NewRecordType == LogTypeOK => NewRecord \in Record
BY DEF LogTypeOK, NewRecord, Record

(* A write, torn or not, leaves the file alone or puts one line. *)
LEMMA TornPuts ==
    ASSUME LogTypeOK, NEW shape \in Shapes, NEW tear \in Tears,
           PutTorn(tear, shape, NewRecord)
    PROVE  \/ tear = "nothing" /\ UNCHANGED <<file, ended>>
           \/ /\ tear # "nothing"
              /\ \E kind \in LineKind, rec \in Record : Put(kind, rec, FALSE)
<1>1. NoRecord \in Record /\ shape \in LineKind
  BY AuditLogAssumption DEF NoRecord, Record, LineKind
<1>2. tear \in Tear
  BY AuditLogAssumption
<1>3. CASE tear = "nothing"
  BY <1>3 DEF PutTorn
<1>4. CASE tear = "unended"
  BY <1>1, <1>4, NewRecordType DEF PutTorn
<1>5. CASE tear \in {"piece", "nonutf8"}
  BY <1>1, <1>5 DEF PutTorn, LineKind
<1> QED
  BY <1>2, <1>3, <1>4, <1>5 DEF Tear

(* A torn write leaves an unended last line, and its logger writes no more *)
(* behind it.                                                              *)
LEMMA TornLines ==
    ASSUME LogTypeOK, LinesInv, up, ~ degraded, UNCHANGED joined,
           degraded' \/ ~ up',
           NEW kind \in LineKind, NEW rec \in Record, Put(kind, rec, FALSE)
    PROVE  LinesInv'
<1>0. file \in Seq(Line) /\ Len(file) \in Nat
  BY DEF LogTypeOK
<1>1. /\ ended' = FALSE
      /\ Len(file') \in Nat /\ Len(file') > 0 /\ file' \in Seq(Line)
      /\ ended => Len(file') = Len(file) + 1
      /\ ~ ended => Len(file') = Len(file)
      /\ \A i \in 1 .. Len(file) :
                i < Len(file) \/ ended => file'[i] = file[i]
  BY PutLines
<1>2. ~ joined => ended
  BY DEF LinesInv
<1>3. ~ joined' => \A i \in 1 .. Len(file') :
                      i < Len(file') => file'[i].kind \in Readable
  BY <1>0, <1>1, <1>2 DEF LinesInv
<1> QED
  BY <1>1, <1>3 DEF LinesInv

-----------------------------------------------------------------------------
(* Extending the file keeps the records that are in it. *)
LEMMA KeptInv ==
    ASSUME LogTypeOK, LinesInv, RecordsKept,
           stderr \subseteq stderr', muted \subseteq muted', joined => joined',
           Len(file') \in Nat, Len(file') >= Len(file),
           ~ joined' => \/ ended
                        \/ file'[Len(file)] = file[Len(file)]
                        \/ file[Len(file)].kind \notin Readable,
           \A i \in 1 .. Len(file) : i < Len(file) \/ ended => file'[i] = file[i],
           \A n \in returned' : \/ n \in returned \/ n \in stderr' \/ n \in muted'
                                \/ joined'
                                \/ \E i \in 1 .. Len(file') :
                                      /\ file'[i].rec.id = n
                                      /\ file'[i].kind \in {"record", "split"}
    PROVE  RecordsKept'
<1> SUFFICES ASSUME NEW n \in returned, n \notin stderr', n \notin muted',
                    ~ joined'
             PROVE  \E i \in 1 .. Len(file') :
                        /\ file'[i].rec.id = n
                        /\ file'[i].kind \in {"record", "split"}
  BY DEF RecordsKept
<1>0. Len(file) \in Nat
  BY DEF LogTypeOK
<1>1. PICK i \in 1 .. Len(file) :
          file[i].rec.id = n /\ file[i].kind \in {"record", "split"}
  BY DEF RecordsKept
<1>2. file'[i] = file[i] /\ i \in 1 .. Len(file')
  BY <1>0, <1>1 DEF Readable
<1> QED
  BY <1>1, <1>2

(* Starting a logger: it takes over the head that is in the file. *)
LEMMA StartAudit ==
    ASSUME AuditInv, Start
    PROVE  AuditInv'
<1> USE DEF AuditInv
<1>1. LogTypeOK'
  <2>1. Recovered.seq \in Nat /\ Recovered.prev \in Nat
    <3>1. file # <<>> => file[Len(file)] \in Line
      BY DEF LogTypeOK
    <3> QED
      BY <3>1 DEF Recovered, Genesis, Line, Record
  <2>2. sound' \in BOOLEAN /\ joined' \in BOOLEAN
    BY DEF Start
  <2> QED
    BY <2>1, <2>2 DEF Start, LogTypeOK
<1>2. LinesInv'
  BY DEF Start, LinesInv, LogTypeOK
<1>h. HeldInv'
  BY DEF Start, HeldInv
<1>3. HeadIsTail'
  <2>1. Recovered' = Recovered
    BY DEF Start, Recovered, Undecodable
  <2>2. [seq |-> seq', prev |-> prev'] = Recovered
    BY DEF Start, Recovered
  <2> QED
    BY <2>1, <2>2 DEF HeadIsTail
<1>4. SoundLogVerifies'
  <2>1. VerifyChain' = VerifyChain
    BY DEF Start, VerifyChain, Undecodable, ChainHolds
  <2> QED
    BY <2>1 DEF Start, SoundLogVerifies
<1>5. RecordsKept'
  BY KeptInv DEF Start, LogTypeOK
<1> QED
  BY <1>1, <1>2, <1>h, <1>3, <1>4, <1>5

(* A step that leaves the file and the head alone. *)
LEMMA QuietAudit ==
    ASSUME AuditInv,
           UNCHANGED <<file, ended, seq, prev, degraded, starts, sound, joined>>,
           LogTypeOK',
           up' => up,
           held' = <<>> \/ UNCHANGED <<held, up>>,
           stderr \subseteq stderr', muted \subseteq muted',
           \A n \in returned' : n \in returned \/ n \in stderr' \/ n \in muted'
    PROVE  AuditInv'
<1> USE DEF AuditInv
<1>1. LinesInv'
  BY DEF LinesInv
<1>h. HeldInv'
  BY DEF HeldInv, Recovered, Undecodable
<1>2. HeadIsTail'
  BY DEF HeadIsTail, Recovered, Undecodable
<1>3. SoundLogVerifies'
  BY DEF SoundLogVerifies, VerifyChain, Undecodable, ChainHolds
<1>4. RecordsKept'
  BY KeptInv DEF LogTypeOK
<1> QED
  BY <1>1, <1>h, <1>2, <1>3, <1>4

(* What a write that failed leaves in the buffer. *)
LEMMA TornHeld ==
    ASSUME AuditInv, up, ~ degraded, UNCHANGED joined,
           NEW shape \in Shapes, NEW tear \in Tears,
           PutTorn(tear, shape, NewRecord), sound' = (sound /\ tear = "nothing"),
           \/ held' = <<>>
           \/ held' = <<Finished(shape, NewRecord)>> /\ up' /\ degraded'
    PROVE  HeldInv'
<1> USE DEF AuditInv
<1> DEFINE line == Finished(shape, NewRecord)
<1> SUFFICES ASSUME held' = <<line>>, up', degraded' PROVE HeldInv'
  BY DEF HeldInv
<1>0. /\ file \in Seq(Line) /\ Len(file) \in Nat /\ joined \in BOOLEAN
      /\ shape \in LineKind /\ shape \in Readable /\ tear \in Tear
      /\ NewRecord \in Record /\ NewRecord.seq = seq /\ NewRecord.prev = prev
  BY AuditLogAssumption, NewRecordType
    DEF LogTypeOK, LineKind, Readable, NewRecord
<1>1. /\ line \in Line
      /\ ended => line = [kind |-> shape, rec |-> NewRecord]
      /\ ~ ended => line.kind \notin Readable
  BY <1>0, FinishedLine
<1>2. ~ joined => ended
  BY DEF LinesInv
<1>3. ASSUME ~ joined PROVE line.kind \in Readable /\ line.rec = NewRecord
  BY <1>0, <1>1, <1>2, <1>3
<1>4. CASE tear = "nothing"
  <2>1. UNCHANGED <<file, ended>>
    BY <1>4 DEF PutTorn
  <2>2. Recovered' = Recovered
    BY <2>1 DEF Recovered, Undecodable
  <2>3. ~ joined => [seq |-> seq, prev |-> prev] = Recovered
    BY DEF HeadIsTail
  <2>4. joined => line.kind \notin Readable
                  \/ \E i \in 1 .. Len(file) :
                        (i < Len(file) \/ ended) /\ file[i].kind \notin Readable
    BY <1>1 DEF LinesInv
  <2> HIDE DEF line
  <2> QED
    BY <1>0, <1>2, <1>3, <2>1, <2>2, <2>3, <2>4 DEF HeldInv
<1>5. CASE tear # "nothing"
  <2>1. PICK kind \in LineKind, rec \in Record :
            /\ Put(kind, rec, FALSE)
            /\ \/ kind = shape /\ rec = NewRecord
               \/ kind \notin Readable
    <3>1. NoRecord \in Record
      BY DEF NoRecord, Record
    <3>2. CASE tear = "unended"
      BY <1>0, <3>2 DEF PutTorn
    <3>3. CASE tear \in {"piece", "nonutf8"}
      BY <3>1, <3>3 DEF PutTorn, LineKind, Readable
    <3> QED
      BY <1>0, <1>5, <3>2, <3>3 DEF Tear
  <2>2. /\ ended' = FALSE
        /\ ended => /\ Len(file') = Len(file) + 1
                    /\ file'[Len(file) + 1] = [kind |-> kind, rec |-> rec]
        /\ ~ ended => Len(file') = Len(file)
        /\ \A i \in 1 .. Len(file) : i < Len(file) \/ ended => file'[i] = file[i]
    BY <2>1, PutLines
  <2>3. ~ joined => \/ file'[Len(file')] = line
                    \/ file'[Len(file')].kind \notin Readable
    BY <1>1, <1>2, <2>1, <2>2
  <2>4. joined => line.kind \notin Readable
                  \/ \E i \in 1 .. Len(file') :
                        (i < Len(file') \/ ended') /\ file'[i].kind \notin Readable
    <3> SUFFICES ASSUME joined, ended
                 PROVE  \E i \in 1 .. Len(file') :
                            i < Len(file') /\ file'[i].kind \notin Readable
      BY <1>1
    <3>1. PICK i \in 1 .. Len(file) : file[i].kind \notin Readable
      BY DEF LinesInv
    <3>2. i \in 1 .. Len(file') /\ i < Len(file') /\ file'[i] = file[i]
      BY <1>0, <2>2
    <3> QED
      BY <3>1, <3>2
  <2>5. ~ sound'
    BY <1>5
  <2> HIDE DEF line
  <2> QED
    BY <1>3, <2>2, <2>3, <2>4, <2>5 DEF HeldInv
<1> QED
  BY <1>4, <1>5

(* A write that is torn: nothing more is written by this logger. *)
LEMMA TornAudit ==
    ASSUME AuditInv, up, ~ degraded, UNCHANGED joined, degraded' \/ ~ up',
           LogTypeOK',
           NEW shape \in Shapes,
           \E tear \in Tears : /\ PutTorn(tear, shape, NewRecord)
                               /\ sound' = (sound /\ tear = "nothing"),
           \/ held' = <<>>
           \/ held' = <<Finished(shape, NewRecord)>> /\ up' /\ degraded',
           stderr \subseteq stderr', muted \subseteq muted',
           \A n \in returned' : n \in returned \/ n \in stderr' \/ n \in muted'
    PROVE  AuditInv'
<1> USE DEF AuditInv
<1>0. PICK tear \in Tears : /\ PutTorn(tear, shape, NewRecord)
                            /\ sound' = (sound /\ tear = "nothing")
  OBVIOUS
<1>h. HeldInv'
  BY <1>0, TornHeld
<1>1. HeadIsTail'
  BY DEF HeadIsTail
<1>2. CASE tear = "nothing"
  <2>1. UNCHANGED <<file, ended>> /\ sound' = sound
    BY <1>0, <1>2 DEF PutTorn, LogTypeOK
  <2>2. LinesInv'
    BY <2>1 DEF LinesInv
  <2>3. SoundLogVerifies'
    BY <2>1 DEF SoundLogVerifies, VerifyChain, Undecodable, ChainHolds
  <2>4. RecordsKept'
    BY <2>1, KeptInv DEF LogTypeOK
  <2> QED
    BY <1>h, <1>1, <2>2, <2>3, <2>4
<1>3. CASE tear # "nothing"
  <2>1. PICK kind \in LineKind, rec \in Record : Put(kind, rec, FALSE)
    BY <1>0, <1>3, TornPuts
  <2>2. LinesInv'
    BY <2>1, TornLines
  <2>3. SoundLogVerifies'
    BY <1>0, <1>3 DEF SoundLogVerifies
  <2>4. RecordsKept'
    <3>0. Len(file) \in Nat
      BY DEF LogTypeOK
    <3>1. /\ Len(file') \in Nat /\ Len(file') >= Len(file)
          /\ \A i \in 1 .. Len(file) :
                i < Len(file) \/ ended => file'[i] = file[i]
      <4>1. /\ Len(file') \in Nat
            /\ ended => Len(file') = Len(file) + 1
            /\ ~ ended => Len(file') = Len(file)
            /\ \A i \in 1 .. Len(file) :
                  i < Len(file) \/ ended => file'[i] = file[i]
        BY <2>1, PutLines
      <4> QED
        BY <3>0, <4>1
    <3>2. ~ joined' => ended
      BY DEF LinesInv
    <3> QED
      BY <3>1, <3>2, KeptInv
  <2> QED
    BY <1>h, <1>1, <2>2, <2>3, <2>4
<1> QED
  BY <1>2, <1>3

(* A record that continues from the recovered head keeps a chain whole. *)
LEMMA ChainGoesOn ==
    ASSUME LogTypeOK, VerifyChain = "ok", NEW rec \in Record,
           [seq |-> rec.seq, prev |-> rec.prev] = Recovered,
           file' = Append(file, [kind |-> "record", rec |-> rec])
    PROVE  VerifyChain' = "ok"
<1> DEFINE n == Len(file)
           new == [kind |-> "record", rec |-> rec]
<1>0. /\ file \in Seq(Line) /\ n \in Nat
      /\ new.kind = "record" /\ new.rec = rec
      /\ rec.seq \in Nat /\ rec.prev \in Nat
  BY DEF LogTypeOK, Record
<1> HIDE DEF new
<1>1. /\ Len(file') = n + 1 /\ file'[n + 1] = new
      /\ \A i \in 1 .. n : file'[i] = file[i]
  BY <1>0 DEF new
<1>2. ~ Undecodable /\ ChainHolds
  BY DEF VerifyChain
<1>3. rec.seq = n /\ rec.prev = IF n = 0 THEN Genesis ELSE file[n].rec.id
  <2>1. CASE n = 0
    BY <1>0, <2>1 DEF Recovered
  <2>2. CASE n # 0
    <3>1. file[n].kind = "record" /\ file[n].rec.seq = n - 1 /\ file # <<>>
      BY <1>0, <1>2, <2>2 DEF ChainHolds
    <3>2. Recovered = [seq |-> n - 1 + 1, prev |-> file[n].rec.id]
      BY <1>2, <3>1 DEF Recovered
    <3> QED
      BY <1>0, <2>2, <3>2
  <2> QED
    BY <2>1, <2>2
<1>4. ~ Undecodable'
  BY <1>0, <1>1, <1>2 DEF Undecodable
<1>5. ChainHolds'
  <2> SUFFICES ASSUME NEW i \in 1 .. n + 1
               PROVE  /\ file'[i].kind = "record"
                      /\ file'[i].rec.seq = i - 1
                      /\ file'[i].rec.prev = IF i = 1 THEN Genesis
                                             ELSE file'[i - 1].rec.id
    BY <1>1 DEF ChainHolds
  <2>1. CASE i = n + 1
    BY <1>0, <1>1, <1>3, <2>1
  <2>2. CASE i # n + 1
    <3>1. i \in 1 .. n /\ (i # 1 => i - 1 \in 1 .. n)
      BY <1>0, <2>2
    <3> QED
      BY <1>1, <1>2, <3>1 DEF ChainHolds
  <2> QED
    BY <2>1, <2>2
<1> QED
  BY <1>4, <1>5 DEF VerifyChain

(* A record that is written whole continues the chain: the head was what   *)
(* the last line says, and the new line is the head from now on.           *)
LEMMA WholeAudit ==
    ASSUME AuditInv, up, ~ degraded,
           NEW shape \in Shapes, Put(shape, NewRecord, TRUE),
           UNCHANGED <<degraded, held, stderr, muted, sound, joined, up>>,
           made' = made + 1, seq' = seq + 1, prev' = made + 1,
           returned' = returned \cup {made + 1},
           LogTypeOK'
    PROVE  AuditInv'
<1> USE DEF AuditInv
<1> DEFINE n == Len(file)
           new == [kind |-> shape, rec |-> NewRecord]
<1>0. /\ file \in Seq(Line) /\ n \in Nat /\ seq \in Nat /\ made \in Nat
      /\ shape \in Readable /\ shape \in LineKind /\ NewRecord \in Record
      /\ NewRecord.id = made + 1 /\ NewRecord.seq = seq /\ NewRecord.prev = prev
  BY AuditLogAssumption, NewRecordType
    DEF LogTypeOK, Readable, LineKind, NewRecord
<1>1. /\ ended' = TRUE
      /\ file' \in Seq(Line)
      /\ Len(file') \in Nat /\ Len(file') > 0
      /\ ended => Len(file') = n + 1 /\ file'[n + 1] = new
      /\ ~ ended => Len(file') = n /\ file'[n].kind \notin Readable
      /\ \A i \in 1 .. n : i < n \/ ended => file'[i] = file[i]
  BY <1>0, PutLines
<1>2. ~ joined => ended
  BY DEF LinesInv
<1> HIDE DEF new
<1>n. new.kind = shape /\ new.rec = NewRecord
  BY DEF new
<1>3. LinesInv'
  <2>1. ASSUME ~ joined', NEW i \in 1 .. Len(file')
        PROVE  file'[i].kind \in Readable
    <3>1. CASE i = n + 1
      BY <1>0, <1>1, <1>2, <1>n, <2>1, <3>1
    <3>2. CASE i # n + 1
      BY <1>0, <1>1, <1>2, <2>1, <3>2 DEF LinesInv
    <3> QED
      BY <3>1, <3>2
  <2>2. joined' => \E i \in 1 .. Len(file') : file'[i].kind \notin Readable
    <3>1. CASE ended /\ joined
      BY <1>0, <1>1, <3>1 DEF LinesInv
    <3>2. CASE ~ ended
      BY <1>0, <1>1, <3>2
    <3> QED
      BY <3>1, <3>2
  <2>3. file' # <<>>
    BY <1>1
  <2> QED
    BY <1>1, <2>1, <2>2, <2>3 DEF LinesInv
<1>4. HeadIsTail'
  <2> SUFFICES ASSUME ~ joined'
               PROVE  [seq |-> seq', prev |-> prev'] = Recovered'
    BY DEF HeadIsTail
  <2>1. ~ Undecodable'
    BY <1>1, <1>3 DEF Undecodable, LinesInv, Readable
  <2>2. file'[Len(file')].kind \in {"record", "split"}
        /\ file'[Len(file')].rec = NewRecord
    BY <1>0, <1>1, <1>2, <1>n DEF Readable
  <2>3. file' # <<>>
    BY <1>1
  <2> QED
    BY <1>0, <2>1, <2>2, <2>3 DEF Recovered
<1>5. SoundLogVerifies'
  <2> SUFFICES ASSUME sound, ~ joined,
                      \A i \in 1 .. Len(file') : file'[i].kind # "split"
               PROVE  VerifyChain' = "ok"
    BY DEF SoundLogVerifies
  <2>0. ended /\ Len(file') = n + 1 /\ file'[n + 1] = new
        /\ \A i \in 1 .. n : file'[i] = file[i]
    BY <1>1, <1>2
  <2>1. VerifyChain = "ok"
    BY <1>0, <2>0 DEF SoundLogVerifies
  <2>2. shape = "record"
    BY <1>0, <1>n, <2>0 DEF Readable
  <2>3. [seq |-> NewRecord.seq, prev |-> NewRecord.prev] = Recovered
    BY <1>0 DEF HeadIsTail
  <2>4. file' = Append(file, [kind |-> "record", rec |-> NewRecord])
    BY <1>0, <2>0, <2>2, PutLines
  <2> QED
    BY <1>0, <2>1, <2>3, <2>4, ChainGoesOn
<1>6. RecordsKept'
  <2>1. ~ joined' => n + 1 \in 1 .. Len(file')
                     /\ file'[n + 1].rec.id = made + 1
                     /\ file'[n + 1].kind \in {"record", "split"}
    BY <1>0, <1>1, <1>2, <1>n DEF Readable
  <2>2. Len(file') >= n
    BY <1>0, <1>1
  <2> QED
    BY <1>1, <1>2, <2>1, <2>2, KeptInv
<1>h. HeldInv'
  BY DEF HeldInv
<1> QED
  BY <1>3, <1>h, <1>4, <1>5, <1>6

-----------------------------------------------------------------------------
(* The file stays a sequence of lines, whatever a write leaves of it, and  *)
(* no ended line changes.                                                  *)
LEMMA WriteLines ==
    ASSUME LogTypeOK, LinesInv, NEW shape \in Shapes,
           \/ Put(shape, NewRecord, TRUE)
           \/ \E tear \in Tears : PutTorn(tear, shape, NewRecord)
           \/ UNCHANGED <<file, ended>>
    PROVE  /\ file' \in Seq(Line) /\ ended' \in BOOLEAN
           /\ Len(file') >= Len(file)
           /\ \A i \in 1 .. Len(file) :
                 i < Len(file) \/ ended => file'[i] = file[i]
<1>0. file \in Seq(Line) /\ Len(file) \in Nat /\ ended \in BOOLEAN
  BY DEF LogTypeOK
<1>1. ASSUME NEW kind \in LineKind, NEW rec \in Record, NEW nl \in BOOLEAN,
             Put(kind, rec, nl)
      PROVE  /\ file' \in Seq(Line) /\ ended' \in BOOLEAN
             /\ Len(file') >= Len(file)
             /\ \A i \in 1 .. Len(file) :
                   i < Len(file) \/ ended => file'[i] = file[i]
  <2>1. /\ file' \in Seq(Line) /\ ended' = nl
        /\ ended => Len(file') = Len(file) + 1
        /\ ~ ended => Len(file') = Len(file)
        /\ \A i \in 1 .. Len(file) :
              i < Len(file) \/ ended => file'[i] = file[i]
    BY <1>1, PutLines
  <2> QED
    BY <1>0, <2>1
<1>2. CASE Put(shape, NewRecord, TRUE)
  <2>1. shape \in LineKind /\ NewRecord \in Record
    BY AuditLogAssumption, NewRecordType DEF LineKind
  <2> QED
    BY <1>1, <1>2, <2>1
<1>4. CASE UNCHANGED <<file, ended>>
  BY <1>0, <1>4
<1>3. CASE \E tear \in Tears : PutTorn(tear, shape, NewRecord)
  <2>1. PICK tear \in Tears : PutTorn(tear, shape, NewRecord)
    BY <1>3
  <2>2. \/ UNCHANGED <<file, ended>>
        \/ \E kind \in LineKind, rec \in Record : Put(kind, rec, FALSE)
    BY <2>1, TornPuts
  <2> QED
    BY <1>1, <1>4, <2>2
<1> QED
  BY <1>2, <1>3, <1>4

(* What the close of a log may put into the file: the line in the buffer, *)
(* or a part of it, which is no record.                                   *)
LEMMA CloseLines ==
    ASSUME AuditInv, CloseLog
    PROVE  \/ UNCHANGED <<file, ended, sound>>
           \/ held # <<>> /\ Settle(held[1], TRUE) /\ sound' = sound
           \/ /\ held # <<>> /\ sound' = FALSE
              /\ \E line \in Line :
                    /\ Settle(line, FALSE)
                    /\ \/ line = held[1]
                       \/ /\ line.kind \notin Readable
                          /\ ~ ended => file[Len(file)] # held[1]
<1>0. sound \in BOOLEAN /\ (held # <<>> => held[1] \in Line)
  BY DEF AuditInv, LogTypeOK
<1> SUFFICES ASSUME held # <<>>, NEW tear \in Tears, SettleTorn(tear),
                    sound' = (sound /\ tear = "nothing")
             PROVE  \/ UNCHANGED <<file, ended, sound>>
                    \/ /\ sound' = FALSE
                       /\ \E line \in Line :
                             /\ Settle(line, FALSE)
                             /\ \/ line = held[1]
                                \/ /\ line.kind \notin Readable
                                   /\ ~ ended => file[Len(file)] # held[1]
  BY DEF CloseLog
<1>1. CASE tear = "nothing"
  BY <1>0, <1>1 DEF SettleTorn
<1>2. CASE tear = "unended"
  BY <1>0, <1>2 DEF SettleTorn
<1>3. CASE tear \in {"piece", "nonutf8"}
  <2> DEFINE line == [kind |-> tear, rec |-> NoRecord]
  <2>1. line \in Line /\ line.kind \notin Readable
    BY <1>3 DEF Line, LineKind, NoRecord, Record, Readable
  <2>2. Settle(line, FALSE) /\ (~ ended => file[Len(file)] # held[1])
    BY <1>3 DEF SettleTorn
  <2> QED
    BY <1>3, <2>1, <2>2
<1> QED
  BY <1>1, <1>2, <1>3, AuditLogAssumption DEF Tear

(* Closing the log takes no record away and breaks no chain. *)
LEMMA CloseAudit ==
    ASSUME AuditInv, CloseLog, LogTypeOK'
    PROVE  AuditInv'
<1> USE DEF AuditInv
<1>0. /\ file \in Seq(Line) /\ Len(file) \in Nat
      /\ held # <<>> => held[1] \in Line
  BY DEF LogTypeOK
<1>1. /\ ~ up' /\ held' = <<>>
      /\ UNCHANGED <<seq, prev, degraded, starts, made, stderr, muted, returned,
                     joined>>
  BY DEF CloseLog
<1>2. HeldInv' /\ HeadIsTail'
  BY <1>1 DEF HeldInv, HeadIsTail
<1>3. CASE UNCHANGED <<file, ended, sound>>
  BY <1>1, <1>3, QuietAudit
<1>4. ASSUME held # <<>>, NEW line \in Line, NEW newline \in BOOLEAN,
             Settle(line, newline),
             \/ line = held[1]
             \/ /\ line.kind \notin Readable /\ newline = FALSE
                /\ ~ ended => file[Len(file)] # held[1]
      PROVE  LinesInv' /\ RecordsKept'
  <2>1. /\ ended' = newline
        /\ Len(file') \in Nat /\ Len(file') > 0 /\ Len(file') >= Len(file)
        /\ ended => Len(file') = Len(file) + 1 /\ file'[Len(file) + 1] = line
        /\ ~ ended => Len(file') = Len(file) /\ file'[Len(file)] = line
        /\ \A i \in 1 .. Len(file) : i < Len(file) \/ ended => file'[i] = file[i]
    BY <1>4, SettleLines
  <2>2. LinesInv'
    <3>1. ASSUME ~ joined, NEW i \in 1 .. Len(file'), i < Len(file') \/ newline
          PROVE  file'[i].kind \in Readable
      <4>1. CASE i = Len(file')
        BY <1>0, <1>4, <2>1, <3>1, <4>1 DEF HeldInv
      <4>2. CASE i # Len(file')
        <5>1. i \in 1 .. Len(file) /\ (i < Len(file) \/ ended)
          BY <1>0, <2>1, <4>2
        <5> QED
          BY <2>1, <3>1, <5>1 DEF LinesInv
      <4> QED
        BY <4>1, <4>2
    <3>2. ASSUME joined, newline
          PROVE  \E i \in 1 .. Len(file') : file'[i].kind \notin Readable
      <4>1. line = held[1]
        BY <1>4, <3>2
      <4>2. CASE line.kind \notin Readable
        BY <1>0, <2>1, <4>2
      <4>3. CASE \E i \in 1 .. Len(file) :
                    (i < Len(file) \/ ended) /\ file[i].kind \notin Readable
        BY <1>0, <2>1, <4>3
      <4> QED
        BY <1>4, <3>2, <4>1, <4>2, <4>3 DEF HeldInv
    <3>3. file' # <<>>
      BY <2>1
    <3> QED
      BY <1>1, <2>1, <3>1, <3>2, <3>3 DEF LinesInv
  <2>3. ~ joined' => \/ ended
                     \/ file'[Len(file)] = file[Len(file)]
                     \/ file[Len(file)].kind \notin Readable
    BY <1>1, <1>4, <2>1 DEF HeldInv
  <2>4. RecordsKept'
    BY <1>1, <2>1, <2>3, KeptInv
  <2> QED
    BY <2>2, <2>4
<1>5. CASE held # <<>> /\ Settle(held[1], TRUE) /\ sound' = sound
  <2>1. LinesInv' /\ RecordsKept'
    BY <1>0, <1>4, <1>5
  <2>2. SoundLogVerifies'
    <3> SUFFICES ASSUME sound, ~ joined,
                        \A i \in 1 .. Len(file') : file'[i].kind # "split"
                 PROVE  VerifyChain' = "ok"
      BY <1>1, <1>5 DEF SoundLogVerifies
    <3>1. /\ ended /\ held[1].kind \in Readable
          /\ [seq |-> held[1].rec.seq, prev |-> held[1].rec.prev] = Recovered
      BY <1>5 DEF HeldInv
    <3>2. /\ file' = Append(file, held[1])
          /\ Len(file') = Len(file) + 1 /\ file'[Len(file) + 1] = held[1]
          /\ \A i \in 1 .. Len(file) : file'[i] = file[i]
      BY <1>0, <1>5, <3>1, SettleLines
    <3>3. held[1].kind = "record"
      BY <1>0, <3>1, <3>2 DEF Readable
    <3>4. held[1] = [kind |-> "record", rec |-> held[1].rec] /\ held[1].rec \in Record
      BY <1>0, <1>5, <3>3 DEF Line
    <3>5. VerifyChain = "ok"
      BY <1>0, <3>2 DEF SoundLogVerifies
    <3> QED
      BY <3>1, <3>2, <3>4, <3>5, ChainGoesOn
  <2> QED
    BY <1>2, <2>1, <2>2
<1>6. CASE /\ held # <<>> /\ sound' = FALSE
           /\ \E line \in Line :
                 /\ Settle(line, FALSE)
                 /\ \/ line = held[1]
                    \/ /\ line.kind \notin Readable
                       /\ ~ ended => file[Len(file)] # held[1]
  <2>1. LinesInv' /\ RecordsKept'
    BY <1>4, <1>6
  <2>2. SoundLogVerifies'
    BY <1>6 DEF SoundLogVerifies
  <2> QED
    BY <1>2, <2>1, <2>2
<1> QED
  BY <1>3, <1>5, <1>6, CloseLines

(* Every step of a log keeps the invariant. *)
LEMMA AuditStep == AuditInv /\ [LogNext]_logVars => AuditInv'
<1> SUFFICES ASSUME AuditInv, [LogNext]_logVars PROVE AuditInv'
  OBVIOUS
<1>0. LogTypeOK /\ LinesInv
  BY DEF AuditInv
<1>1. CASE Start
  BY <1>1, StartAudit
<1>2. ASSUME NEW w \in Writer, NEW shape \in Shapes, WriteRecord(w, shape)
      PROVE  AuditInv'
  <2>1. file' \in Seq(Line) /\ ended' \in BOOLEAN
    <3>1. \/ Put(shape, NewRecord, TRUE)
          \/ \E tear \in Tears : PutTorn(tear, shape, NewRecord)
          \/ UNCHANGED <<file, ended>>
      BY <1>2 DEF WriteRecord, WriteFails, TornWrite
    <3> QED
      BY <1>0, <3>1, WriteLines
  <2>2. sound' \in BOOLEAN /\ degraded' \in BOOLEAN
    BY <1>0, <1>2, Zenon DEF WriteRecord, WriteFails, TornWrite, LogTypeOK
  <2>3. /\ made' = made + 1 /\ UNCHANGED <<up, starts, joined>> /\ up
        /\ \/ Returns(w, "hook") \/ Returns(w, "done")
           \/ UNCHANGED <<seq, prev, returned>> /\ wpc' = [wpc EXCEPT ![w] = "raised"]
        /\ stderr \subseteq stderr' /\ muted \subseteq muted'
        /\ stderr' \subseteq stderr \cup {made + 1}
        /\ muted' \subseteq muted \cup {made + 1}
    BY <1>2, Zenon DEF WriteRecord, WriteFails, ToStderr, Raises
  <2>4. /\ seq' \in Nat /\ prev' \in Nat /\ made' \in Nat
        /\ returned' \subseteq Nat /\ stderr' \subseteq Nat /\ muted' \subseteq Nat
        /\ wpc' \in [Writer -> {"idle", "hook", "done", "raised", "lost"}]
    <3>1. /\ seq \in Nat /\ prev \in Nat /\ made \in Nat
          /\ returned \subseteq Nat /\ stderr \subseteq Nat /\ muted \subseteq Nat
          /\ wpc \in [Writer -> {"idle", "hook", "done", "raised", "lost"}]
      BY <1>0 DEF LogTypeOK
    <3>2. made' \in Nat /\ stderr' \subseteq Nat /\ muted' \subseteq Nat
      BY <2>3, <3>1
    <3>3. CASE Returns(w, "hook")
      BY <3>1, <3>2, <3>3 DEF Returns
    <3>5. CASE Returns(w, "done")
      BY <3>1, <3>2, <3>5 DEF Returns
    <3>4. CASE UNCHANGED <<seq, prev, returned>> /\ wpc' = [wpc EXCEPT ![w] = "raised"]
      BY <3>1, <3>2, <3>4
    <3> QED
      BY <2>3, <3>3, <3>4, <3>5
  <2>h. held' \in Seq(Line) /\ Len(held') <= 1
    <3>1. held' = held \/ held' = <<>> \/ held' = <<Finished(shape, NewRecord)>>
      BY <1>2, Zenon DEF WriteRecord, WriteFails, TornWrite
    <3>2. Finished(shape, NewRecord) \in Line
      BY <1>0, AuditLogAssumption, NewRecordType, FinishedLine DEF LineKind
    <3>3. held \in Seq(Line) /\ Len(held) <= 1
      BY <1>0 DEF LogTypeOK
    <3> QED
      BY <3>1, <3>2, <3>3, HeldType, Zenon
  <2>t. LogTypeOK'
    BY <1>0, <2>1, <2>2, <2>3, <2>4, <2>h DEF LogTypeOK
  <2>5. CASE ~ degraded /\ Put(shape, NewRecord, TRUE) /\ Returns(w, "hook")
             /\ UNCHANGED <<degraded, held, stderr, muted, sound>>
    <3>1. seq' = seq + 1 /\ prev' = made + 1 /\ returned' = returned \cup {made + 1}
      BY <2>5 DEF Returns
    <3> QED
      BY <2>3, <2>t, <2>5, <3>1, WholeAudit
  <2>6. CASE WriteFails(w, shape)
    <3>1. /\ ~ degraded /\ degraded' = TRUE
          /\ \E tear \in Tears : /\ PutTorn(tear, shape, NewRecord)
                                  /\ sound' = (sound /\ tear = "nothing")
          /\ held' = <<>> \/ held' = <<Finished(shape, NewRecord)>>
      BY <2>6 DEF WriteFails, TornWrite
    <3>2. \A n \in returned' : n \in returned \/ n \in stderr' \/ n \in muted'
      BY <2>6 DEF WriteFails, ToStderr, Returns, Raises
    <3> QED
      BY <2>3, <2>t, <3>1, <3>2, TornAudit
  <2>7. CASE degraded /\ ToStderr(w) /\ UNCHANGED <<file, ended, degraded, held, sound>>
    <3>1. LinesInv'
      BY <1>0, <2>3, <2>7 DEF LinesInv
    <3>2. HeadIsTail'
      BY <2>7 DEF HeadIsTail
    <3>3. SoundLogVerifies'
      BY <2>3, <2>7 DEF AuditInv, SoundLogVerifies, VerifyChain, Undecodable, ChainHolds
    <3>4. RecordsKept'
      <4>1. \A n \in returned' : n \in returned \/ n \in stderr' \/ n \in muted'
        BY <2>7 DEF ToStderr, Returns
      <4> QED
        BY <1>0, <2>3, <2>7, <4>1, KeptInv DEF AuditInv, LogTypeOK
    <3>5. HeldInv'
      BY <2>3, <2>7 DEF AuditInv, HeldInv, Recovered, Undecodable
    <3> QED
      BY <2>t, <3>1, <3>2, <3>3, <3>4, <3>5 DEF AuditInv
  <2> QED
    BY <1>2, <2>5, <2>6, <2>7 DEF WriteRecord
<1>3. ASSUME NEW w \in Writer, NEW shape \in Shapes, CrashInWrite(w, shape)
      PROVE  AuditInv'
  <2>1. file' \in Seq(Line) /\ ended' \in BOOLEAN
    BY <1>0, <1>3, WriteLines DEF CrashInWrite
  <2>2. sound' \in BOOLEAN
    BY <1>0, <1>3 DEF CrashInWrite, LogTypeOK
  <2>3. LogTypeOK'
    <3>1. /\ made' = made + 1 /\ up' = FALSE
          /\ wpc' = [Lose EXCEPT ![w] = "lost"]
          /\ held' = <<>>
          /\ UNCHANGED <<seq, prev, degraded, starts, stderr, muted, returned, joined>>
      BY <1>3 DEF CrashInWrite
    <3>2. wpc' \in [Writer -> {"idle", "hook", "done", "raised", "lost"}]
      BY <1>0, <3>1 DEF Lose, LogTypeOK
    <3>3. made' \in Nat
      BY <1>0, <3>1 DEF LogTypeOK
    <3> QED
      BY <1>0, <2>1, <2>2, <3>1, <3>2, <3>3, HeldType DEF LogTypeOK
  <2> QED
    BY <1>3, <2>3, TornAudit DEF CrashInWrite
<1>4. CASE (\E w \in Writer : Return(w)) \/ Crash \/ UNCHANGED logVars
  <2>1. LogTypeOK'
    BY <1>0, <1>4, HeldType DEF Return, Crash, Lose, logVars, LogTypeOK
  <2>2. /\ UNCHANGED <<file, ended, seq, prev, degraded, starts, sound, joined,
                       stderr, muted, returned>>
        /\ up' => up
        /\ held' = <<>> \/ UNCHANGED <<held, up>>
    BY <1>4 DEF Return, Crash, logVars
  <2> QED
    BY <2>1, <2>2, QuietAudit
<1>5. CASE CloseLog
  <2>1. file' \in Seq(Line) /\ ended' \in BOOLEAN /\ sound' \in BOOLEAN
    <3>0. held # <<>> => held[1] \in Line
      BY <1>0 DEF LogTypeOK
    <3>1. \/ UNCHANGED <<file, ended, sound>>
          \/ /\ sound' \in BOOLEAN
             /\ \E line \in Line, newline \in BOOLEAN : Settle(line, newline)
      BY <1>0, <1>5, <3>0, CloseLines DEF LogTypeOK
    <3> QED
      BY <1>0, <3>1, SettleLines DEF LogTypeOK
  <2>2. wpc' \in [Writer -> {"idle", "hook", "done", "raised", "lost"}]
    BY <1>0, <1>5 DEF CloseLog, Lose, LogTypeOK
  <2>3. LogTypeOK'
    BY <1>0, <1>5, <2>1, <2>2, HeldType DEF CloseLog, LogTypeOK
  <2> QED
    BY <1>5, <2>3, CloseAudit
<1> QED
  BY <1>1, <1>2, <1>3, <1>4, <1>5 DEF LogNext

(* An audit log that does not exist yet. *)
LEMMA LogStart == LogInit => AuditInv
<1> SUFFICES ASSUME LogInit PROVE AuditInv
  OBVIOUS
<1>0. file \in Seq(Line)
  BY DEF LogInit
<1>1. LogTypeOK
  BY <1>0, HeldType DEF LogInit, LogTypeOK, Genesis
<1>2. LinesInv /\ HeldInv /\ HeadIsTail /\ RecordsKept
  BY DEF LogInit, LinesInv, HeldInv, HeadIsTail, RecordsKept
<1>3. SoundLogVerifies
  BY DEF LogInit, SoundLogVerifies
<1> QED
  BY <1>1, <1>2, <1>3 DEF AuditInv

(* The audit log keeps its invariant: it is well typed, its head is its    *)
(* last line, and no record is lost (audit.py, AuditLogger).               *)
THEOREM AuditSafe == LogSpec => []AuditInv
BY LogStart, AuditStep, PTL DEF LogSpec

(* A log that verified at the start verifies, unless a write was torn, a   *)
(* record holds a line separator or a start found an unended last line     *)
(* (audit.py, verify_chain).                                               *)
THEOREM SoundLog == LogSpec => []SoundLogVerifies
<1>1. AuditInv => SoundLogVerifies
  BY DEF AuditInv
<1> QED
  BY <1>1, AuditSafe, PTL

(* No record whose record() returned is lost, unless the file and stderr   *)
(* both failed or a start wrote on behind a torn line (audit.py, _write,   *)
(* close).                                                                 *)
THEOREM NoRecordLost == LogSpec => []RecordsKept
<1>1. AuditInv => RecordsKept
  BY DEF AuditInv
<1> QED
  BY <1>1, AuditSafe, PTL

(* A logger that writes continues the chain in the file (audit.py,         *)
(* _recover and record).                                                   *)
THEOREM ChainHeadIsTail == LogSpec => []HeadIsTail
<1>1. AuditInv => HeadIsTail
  BY DEF AuditInv
<1> QED
  BY <1>1, AuditSafe, PTL

(* No step changes a line that was ended (audit.py opens the file for      *)
(* appending and for nothing else).                                        *)
THEOREM LogAppendOnly == LogSpec => AppendOnly
<1> DEFINE Grows == /\ Len(file') >= Len(file)
                    /\ \A i \in 1 .. Len(file) :
                          i < Len(file) \/ ended => file'[i] = file[i]
<1>1. AuditInv /\ [LogNext]_logVars => [Grows]_logVars
  <2> SUFFICES ASSUME AuditInv, LogNext PROVE Grows
    OBVIOUS
  <2>0. LogTypeOK /\ LinesInv /\ Len(file) \in Nat
    BY DEF AuditInv, LogTypeOK
  <2>1. ASSUME NEW w \in Writer, NEW shape \in Shapes,
               WriteRecord(w, shape) \/ CrashInWrite(w, shape)
        PROVE  Grows
    <3>1. \/ Put(shape, NewRecord, TRUE)
          \/ \E tear \in Tears : PutTorn(tear, shape, NewRecord)
          \/ UNCHANGED <<file, ended>>
      BY <2>1 DEF WriteRecord, WriteFails, TornWrite, CrashInWrite
    <3> QED
      BY <2>0, <3>1, WriteLines
  <2>2. ASSUME UNCHANGED file PROVE Grows
    BY <2>0, <2>2
  <2>3. CASE CloseLog
    <3>0. held # <<>> => held[1] \in Line
      BY <2>0 DEF LogTypeOK
    <3>1. \/ UNCHANGED file
          \/ \E line \in Line, newline \in BOOLEAN : Settle(line, newline)
      BY <2>3, <3>0, CloseLines
    <3> QED
      BY <2>0, <2>2, <3>1, SettleLines
  <2> QED
    BY <2>1, <2>2, <2>3 DEF LogNext, Start, Return, Crash
<1> QED
  BY <1>1, AuditSafe, PTL DEF LogSpec, AppendOnly
=============================================================================
