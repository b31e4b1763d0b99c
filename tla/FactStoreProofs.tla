-------------------------- MODULE FactStoreProofs --------------------------
(***************************************************************************)
(* Proofs about the fact store, for every number of instances, keys,       *)
(* contents and calls, on both backends.                                   *)
(***************************************************************************)
EXTENDS FactStore, FiniteSetTheorems, TLAPS

(* The statements before a call has written, and those of them at which    *)
(* its transaction may hold a row.                                         *)
Unwritten == {"read", "compare", "update", "insert", "index", "seq", "commit"}

Holding == {"update", "insert", "index", "seq", "commit"}

(* A call that adds a row and has entered the index on active rows. *)
Indexed(i) == pc[i] \in {"seq", "commit"} /\ op[i].kind # "supersede"

(* The calls in flight have fact_ids of their own. *)
CallInv ==
    /\ drawn <= MaxCalls
    /\ \A i \in Instance : pc[i] # "idle" =>
          /\ op[i] \in Op
          /\ op[i].id \in 1 .. drawn
          /\ op[i].kind = "supersede" <=> op[i].content = NoContent
          /\ pc[i] \in Unwritten =>
                \A r \in facts : op[i].id # r.id /\ op[i].id # r.by
    /\ \A i, j \in Instance :
          pc[i] # "idle" /\ pc[j] # "idle" /\ op[i].id = op[j].id => i = j

(* The rows of the table have fact_ids of their own, and are numbered      *)
(* without gaps.                                                           *)
Numbered(rows) ==
    /\ IsFiniteSet(rows)
    /\ \A r, q \in rows : r.id = q.id => r = q
    /\ \A r, q \in rows : r.seq = q.seq => r = q
    /\ \A r \in rows : r.seq < Cardinality(rows)
    /\ \A n \in 0 .. Cardinality(rows) - 1 : \E r \in rows : r.seq = n

RowInv ==
    /\ Numbered(facts)
    /\ \A r \in facts :
          /\ r.id \in 1 .. drawn
          /\ r.by <= drawn
          /\ r.state = "active" => r.by = NoRow

(* Only the latest row of a key can be active, and a row that was replaced *)
(* is followed by another.                                                 *)
LatestInv ==
    \A r \in facts :
        /\ r.state = "active" => \A q \in facts : q.key = r.key => q.seq <= r.seq
        /\ r.state = "replaced" => \E q \in facts : q.key = r.key /\ q.seq > r.seq

(* A row that is held is active, is of the key of the call, and nobody     *)
(* else holds it.                                                          *)
HeldInv ==
    /\ \A i \in Instance :
          /\ existing[i] # NoRow =>
                \E r \in facts : r.id = existing[i] /\ r.key = op[i].key
          /\ held[i] # NoRow =>
                /\ pc[i] \in Holding
                /\ held[i] = existing[i]
                /\ IsActive(held[i])
          /\ pc[i] \in Holding \ {"update"} => held[i] = existing[i]
          /\ pc[i] = "update" => existing[i] # NoRow
          /\ pc[i] \in {"idle", "read"} => existing[i] = NoRow
          /\ pc[i] # "idle" /\ op[i].kind = "supersede" =>
                /\ pc[i] \notin {"compare", "insert", "index", "seq"}
                /\ pc[i] = "commit" => existing[i] # NoRow
    /\ \A i, j \in Instance : held[i] # NoRow /\ held[i] = held[j] => i = j

(* At most one call per key is in the index on active rows, and it holds   *)
(* whatever row of the key is active.                                      *)
IndexInv ==
    /\ \A i \in Instance : Indexed(i) =>
          \A r \in ActiveRow(op[i].key) : r.id = held[i]
    /\ \A i, j \in Instance :
          Indexed(i) /\ Indexed(j) /\ op[i].key = op[j].key => i = j

(* A seq is at most the next, is the next once it is in the index on seq,  *)
(* and there is one such call.                                             *)
SeqInv ==
    /\ \A i \in Instance :
          /\ seqno[i] <= Cardinality(facts)
          /\ pc[i] = "commit" /\ Indexed(i) => seqno[i] = Cardinality(facts)
    /\ \A i, j \in Instance :
          /\ pc[i] = "commit" /\ Indexed(i)
          /\ pc[j] = "commit" /\ Indexed(j)
          => i = j

(* On SQLite the transaction that has written, or has begun to compare,    *)
(* has the write lock; and who has it is in a transaction.                 *)
LockInv ==
    /\ backend # "sqlite" => writer = Nobody
    /\ \A i \in Instance :
          /\ backend = "sqlite" =>
                (pc[i] \in {"compare", "index", "seq", "commit"} \/ held[i] # NoRow
                    => writer = i)
          /\ writer = i => pc[i] \in Holding \cup {"compare"}

(* What CasNoLostUpdate says of the row that a call has written. *)
Follows(o) ==
    \A r \in facts : r.id = o.id =>
        IF o.expected = NoContent
          THEN \A q \in Previous(r) : q.state = "invalid"
          ELSE \E q \in Previous(r) : q.content = o.expected /\ q.state = "replaced"

CasInv ==
    \A i \in Instance : pc[i] # "idle" /\ op[i].kind = "put_if" =>
        /\ pc[i] \in Holding =>
              IF op[i].expected = NoContent
                THEN existing[i] = NoRow
                ELSE /\ held[i] # NoRow
                     /\ \E r \in facts : r.id = held[i] /\ r.content = op[i].expected
        /\ pc[i] = "reread" => Follows(op[i])

(* A call that has committed has written. *)
WroteInv ==
    \A i \in Instance : pc[i] = "reread" =>
        \E r \in facts :
            IF op[i].kind = "supersede"
              THEN r.id = existing[i] /\ r.by = op[i].id
              ELSE r.id = op[i].id

-----------------------------------------------------------------------------
(* The steps of a call, by what they do to its state: it ends, ... *)
Ends(i) ==
    /\ pc[i] # "idle"
    /\ \E ret \in Ret, got \in Nat :
          /\ Finish(i, ret, got)
          /\ ret = "row" =>
                /\ pc[i] = "reread"
                /\ op[i].kind = "supersede" => got = existing[i]
          /\ ret \in {"none", "conflict", "raised"} => pc[i] \in Unwritten
    /\ UNCHANGED <<backend, facts, drawn>>

(* ... or a statement succeeds and the call goes on. *)
ReadOn(i) ==
    /\ pc[i] = "read"
    /\ existing' = [existing EXCEPT ![i] = ActiveId(op[i].key)]
    /\ \E to \in {"compare", "update", "insert"} :
          /\ Goto(i, to)
          /\ to = "compare" <=> op[i].kind = "put_if"
          /\ to = "update" => ActiveId(op[i].key) # NoRow
          /\ to = "insert" => op[i].kind = "put" /\ ActiveId(op[i].key) = NoRow
          /\ IF to = "compare" THEN CanWrite(i) /\ TakeWrite(i) ELSE UNCHANGED writer
    /\ Silent
    /\ UNCHANGED <<backend, facts, drawn, held, op, seqno>>

CompareOn(i) ==
    /\ pc[i] = "compare"
    /\ RowFree(i, existing[i])
    /\ \E row \in {existing[i], NoRow} :
          /\ row # NoRow => IsActive(row)
          /\ ContentOf(row) = op[i].expected
          /\ Hold(i, row)
          /\ existing' = [existing EXCEPT ![i] = row]
          /\ Goto(i, IF row = NoRow THEN "insert" ELSE "update")
    /\ Silent
    /\ UNCHANGED <<backend, facts, drawn, writer, op, seqno>>

UpdateOn(i) ==
    /\ pc[i] = "update"
    /\ CanWrite(i)
    /\ TakeWrite(i)
    /\ RowFree(i, existing[i])
    /\ IsActive(existing[i])
    /\ Hold(i, existing[i])
    /\ Goto(i, IF op[i].kind = "supersede" THEN "commit" ELSE "insert")
    /\ Silent
    /\ UNCHANGED <<backend, facts, drawn, op, existing, seqno>>

IndexOn(i) ==
    /\ pc[i] = "index"
    /\ \A j \in Others(i) : Indexed(j) => op[j].key # op[i].key
    /\ \A r \in ActiveRow(op[i].key) : r.id = held[i]
    /\ Goto(i, "seq")
    /\ Silent
    /\ UNCHANGED <<dbVars, op, existing, seqno>>

SeqOn(i) ==
    /\ pc[i] = "seq"
    /\ \A j \in Others(i) :
          pc[j] = "commit" /\ Indexed(j) => seqno[j] # seqno[i]
    /\ \A r \in facts : r.seq # seqno[i]
    /\ Goto(i, "commit")
    /\ Silent
    /\ UNCHANGED <<dbVars, op, existing, seqno>>

(* A step of instance i. *)
Step(i) ==
    \/ \E o \in Incoming : Begin(i, o)
    \/ Ends(i) \/ ReadOn(i) \/ CompareOn(i) \/ UpdateOn(i)
    \/ Insert(i) \/ IndexOn(i) \/ SeqOn(i) \/ Commit(i)

(* The row found active is one. *)
LEMMA ActiveIdFound ==
    ASSUME StoreTypeOK, NEW k
    PROVE  /\ ActiveId(k) \in Nat
           /\ ActiveId(k) # NoRow =>
                 \E r \in facts : r.id = ActiveId(k) /\ r.key = k /\ r.state = "active"
<1>1. CASE ActiveRow(k) = {}
  BY <1>1 DEF ActiveId, NoRow, Log!NoRow
<1>2. CASE ActiveRow(k) # {}
  <2>1. PICK r \in ActiveRow(k) : r = CHOOSE q \in ActiveRow(k) : TRUE
    BY <1>2
  <2>2. ActiveId(k) = r.id
    BY <1>2, <2>1 DEF ActiveId
  <2> QED
    BY <2>1, <2>2 DEF ActiveRow, StoreTypeOK, Log!Row
<1> QED
  BY <1>1, <1>2

(* Every step of the store is a step of an instance. *)
LEMMA StepCases ==
    ASSUME StoreTypeOK, CallInv, StoreNext
    PROVE  \E i \in Instance : Step(i)
<1>0. NoRow \in Nat
  BY DEF NoRow, Log!NoRow
<1>t. ASSUME NEW i \in Instance
      PROVE  /\ pc[i] # "idle" => op[i] \in Op /\ op[i].kind \in Kind
             /\ existing[i] \in Nat
  BY DEF CallInv, Op, StoreTypeOK
<1>e. ASSUME NEW i \in Instance, NEW ret \in {"none", "conflict", "raised"},
             pc[i] \in Unwritten, Finish(i, ret, NoRow),
             UNCHANGED <<backend, facts, drawn>>
      PROVE  Ends(i)
  BY <1>0, <1>e DEF Ends, Ret, Unwritten
<1>1. ASSUME NEW i \in Instance, Read(i) PROVE Ends(i) \/ ReadOn(i)
  <2>0. pc[i] = "read" /\ UNCHANGED <<backend, facts, drawn>> /\ op[i].kind \in Kind
    BY <1>1, <1>t DEF Read
  <2> DEFINE row == ActiveId(op[i].key)
  <2>1. CASE op[i].kind = "put_if"
    BY <1>1, <2>0, <2>1 DEF Read, ReadOn
  <2>2. CASE op[i].kind = "supersede" /\ row = NoRow
    <3>1. Finish(i, "none", NoRow)
      BY <1>1, <2>2 DEF Read
    <3> QED
      BY <1>e, <2>0, <3>1 DEF Unwritten
  <2>3. CASE op[i].kind # "put_if" /\ ~ (op[i].kind = "supersede" /\ row = NoRow)
    <3>1. /\ Goto(i, IF row = NoRow THEN "insert" ELSE "update")
          /\ existing' = [existing EXCEPT ![i] = row]
          /\ Silent
          /\ UNCHANGED <<held, writer, op, seqno>>
      BY <1>1, <2>3 DEF Read
    <3>2. row = NoRow => op[i].kind = "put"
      BY <2>0, <2>3 DEF Kind
    <3> QED
      BY <2>0, <2>3, <3>1, <3>2 DEF ReadOn
  <2> QED
    BY <2>1, <2>2, <2>3
<1>2. ASSUME NEW i \in Instance, Compare(i) PROVE Ends(i) \/ CompareOn(i)
  <2> DEFINE row == IF IsActive(existing[i]) THEN existing[i] ELSE NoRow
  <2>1. CASE ContentOf(row) = op[i].expected
    BY <1>2, <2>1 DEF Compare, CompareOn
  <2>2. CASE ContentOf(row) # op[i].expected
    BY <1>2, <1>e, <2>2 DEF Compare, Unwritten
  <2> QED
    BY <2>1, <2>2
<1>3. ASSUME NEW i \in Instance, Update(i) PROVE Ends(i) \/ UpdateOn(i)
  <2>1. CASE IsActive(existing[i])
    BY <1>3, <2>1 DEF Update, UpdateOn
  <2>2. CASE ~ IsActive(existing[i])
    BY <1>3, <1>e, <2>2 DEF Update, Unwritten
  <2> QED
    BY <2>1, <2>2
<1>v. ASSUME NEW i \in Instance, Violate(i), pc[i] \in Unwritten,
             UNCHANGED <<backend, facts, drawn>>
      PROVE  Ends(i)
  BY <1>v, <1>e DEF Violate
<1>4. ASSUME NEW i \in Instance, IndexActive(i) PROVE Ends(i) \/ IndexOn(i)
  <2>1. CASE \E r \in ActiveRow(op[i].key) : r.id # held[i]
    BY <1>4, <1>v, <2>1 DEF IndexActive, Unwritten
  <2>2. CASE ~ \E r \in ActiveRow(op[i].key) : r.id # held[i]
    BY <1>4, <2>2 DEF IndexActive, KeyFree, IndexOn, Indexed, dbVars
  <2> QED
    BY <2>1, <2>2
<1>5. ASSUME NEW i \in Instance, IndexSeq(i) PROVE Ends(i) \/ SeqOn(i)
  <2>1. CASE \E r \in facts : r.seq = seqno[i]
    BY <1>5, <1>v, <2>1 DEF IndexSeq, Unwritten
  <2>2. CASE ~ \E r \in facts : r.seq = seqno[i]
    BY <1>5, <2>2 DEF IndexSeq, SeqFree, SeqOn, Indexed, dbVars
  <2> QED
    BY <2>1, <2>2
<1>6. ASSUME NEW i \in Instance, Reread(i) PROVE Ends(i)
  <2>0. pc[i] = "reread" /\ UNCHANGED <<backend, facts, drawn>>
    BY <1>6 DEF Reread
  <2>1. CASE op[i].kind = "supersede"
    <3>1. Finish(i, "row", existing[i])
      BY <1>6, <2>1 DEF Reread
    <3> QED
      BY <1>t, <2>0, <3>1 DEF Ends, Ret
  <2>2. CASE op[i].kind # "supersede" /\ ActiveId(op[i].key) = NoRow
    <3>1. Finish(i, "invariant", NoRow)
      BY <1>6, <2>2 DEF Reread
    <3> QED
      BY <1>0, <2>0, <3>1 DEF Ends, Ret
  <2>3. CASE op[i].kind # "supersede" /\ ActiveId(op[i].key) # NoRow
    <3>1. Finish(i, "row", ActiveId(op[i].key))
      BY <1>6, <2>3 DEF Reread
    <3> QED
      BY <2>0, <2>3, <3>1, ActiveIdFound DEF Ends, Ret
  <2> QED
    BY <2>1, <2>2, <2>3
<1>7. ASSUME NEW i \in Instance, Busy(i) PROVE Ends(i)
  BY <1>7, <1>e DEF Busy, NeedsWrite, Unwritten
<1>8. ASSUME NEW i \in Instance, Die(i) PROVE Ends(i)
  BY <1>8, <1>0 DEF Die, Ends, Ret
<1>9. ASSUME NEW i \in Instance, Fail(i) PROVE Ends(i)
  <2>1. pc[i] \in Statement \ {"idle"} /\ UNCHANGED <<backend, facts, drawn>>
    BY <1>9, <1>t DEF Fail, StoreTypeOK
  <2>2. CASE pc[i] = "reread"
    <3>1. Finish(i, "unsure", NoRow)
      BY <1>9, <2>2 DEF Fail
    <3> QED
      BY <1>0, <2>1, <2>2, <3>1 DEF Ends, Ret
  <2>3. CASE pc[i] # "reread"
    <3>1. Finish(i, "raised", NoRow)
      BY <1>9, <2>3 DEF Fail
    <3>2. pc[i] \in Unwritten
      BY <2>1, <2>3 DEF Statement, Unwritten
    <3> QED
      BY <1>e, <2>1, <3>1, <3>2
  <2> QED
    BY <2>2, <2>3
<1> QED
  BY <1>1, <1>2, <1>3, <1>4, <1>5, <1>6, <1>7, <1>8, <1>9 DEF StoreNext, Ready, Issue, Step

-----------------------------------------------------------------------------
(* COALESCE(MAX(seq), -1) + 1 is the number of rows. *)
LEMMA NextSeqIsCount ==
    ASSUME StoreTypeOK, Numbered(facts)
    PROVE  NextSeq = Cardinality(facts) /\ Cardinality(facts) \in Nat
<1> DEFINE n == Cardinality(facts)
           seqs == {r.seq : r \in facts}
<1>0. n \in Nat
  BY FS_CardinalityType DEF Numbered
<1>1. CASE facts = {}
  BY <1>1, FS_EmptySet DEF NextSeq
<1>2. CASE facts # {}
  <2>1. n > 0
    BY <1>0, <1>2, FS_EmptySet DEF Numbered
  <2>2. n - 1 \in seqs
    BY <1>0, <2>1 DEF Numbered
  <2>3. \A x \in seqs : x \in Nat /\ x <= n - 1
    BY <1>0 DEF Numbered, StoreTypeOK, Log!Row
  <2>4. Max(seqs) \in seqs /\ \A y \in seqs : Max(seqs) >= y
    <3>1. \E x \in seqs : \A y \in seqs : x >= y
      BY <1>0, <2>2, <2>3
    <3> QED
      BY <3>1, Zenon DEF Max
  <2>5. Max(seqs) = n - 1
    <3> HIDE DEF seqs, n
    <3>1. ASSUME NEW m \in seqs, \A y \in seqs : m >= y PROVE m = n - 1
      BY <1>0, <2>2, <2>3, <3>1
    <3> QED
      BY <2>4, <3>1
  <2> QED
    BY <1>0, <1>2, <2>5 DEF NextSeq
<1> QED
  BY <1>0, <1>1, <1>2

(* The fields of a row that is retired. *)
LEMMA RetiredRow ==
    ASSUME NEW r \in Log!Row, NEW state \in Log!State, NEW by \in Nat
    PROVE  /\ Log!Retired(r, state, by) \in Log!Row
           /\ Log!Retired(r, state, by).id = r.id
           /\ Log!Retired(r, state, by).key = r.key
           /\ Log!Retired(r, state, by).content = r.content
           /\ Log!Retired(r, state, by).seq = r.seq
           /\ Log!Retired(r, state, by).state = state
           /\ Log!Retired(r, state, by).by = by
BY DEF Log!Retired, Log!Row

(* A row that is retired keeps its number. *)
LEMMA RetireNumbered ==
    ASSUME NEW rows, Numbered(rows), rows \subseteq Log!Row, NEW r \in rows,
           NEW q \in Log!Row, q.id = r.id, q.seq = r.seq
    PROVE  /\ Numbered((rows \ {r}) \cup {q})
           /\ Cardinality((rows \ {r}) \cup {q}) = Cardinality(rows)
<1> DEFINE new == (rows \ {r}) \cup {q}
<1>1. IsFiniteSet(rows) /\ Cardinality(rows) \in Nat
  BY FS_CardinalityType DEF Numbered
<1>2. IsFiniteSet(rows \ {r}) /\ Cardinality(rows \ {r}) = Cardinality(rows) - 1
  BY <1>1, FS_RemoveElement
<1>3. q \notin rows \ {r}
  BY DEF Numbered
<1>4. IsFiniteSet(new) /\ Cardinality(new) = Cardinality(rows)
  <2> DEFINE rest == rows \ {r}
  <2>1. IsFiniteSet(rest) /\ Cardinality(rest) = Cardinality(rows) - 1 /\ q \notin rest
    BY <1>2, <1>3
  <2> HIDE DEF rest
  <2>2. IsFiniteSet(rest \cup {q}) /\ Cardinality(rest \cup {q}) = Cardinality(rest) + 1
    BY <2>1, FS_AddElement
  <2>3. Cardinality(rest) + 1 = Cardinality(rows)
    BY <1>1, <2>1
  <2> QED
    BY <2>2, <2>3 DEF rest
<1>5. \A x, y \in new : x.id = y.id => x = y
  BY DEF Numbered
<1>6. \A x, y \in new : x.seq = y.seq => x = y
  BY DEF Numbered
<1>7. \A x \in new : x.seq < Cardinality(new)
  BY <1>4 DEF Numbered
<1>8. \A n \in 0 .. Cardinality(new) - 1 : \E x \in new : x.seq = n
  <2> SUFFICES ASSUME NEW n \in 0 .. Cardinality(rows) - 1
               PROVE  \E x \in new : x.seq = n
    BY <1>4
  <2>1. PICK x \in rows : x.seq = n
    BY DEF Numbered
  <2> QED
    BY <2>1
<1> HIDE DEF new
<1> QED
  <2>1. Numbered(new)
    BY <1>4, <1>5, <1>6, <1>7, <1>8 DEF Numbered
  <2> QED
    BY <1>4, <2>1 DEF new

(* A row that is added has the next number. *)
LEMMA AddNumbered ==
    ASSUME NEW rows, Numbered(rows), rows \subseteq Log!Row, NEW q \in Log!Row,
           \A r \in rows : r.id # q.id, q.seq = Cardinality(rows)
    PROVE  /\ Numbered(rows \cup {q})
           /\ Cardinality(rows \cup {q}) = Cardinality(rows) + 1
<1> DEFINE new == rows \cup {q}
<1>1. IsFiniteSet(rows) /\ Cardinality(rows) \in Nat
  BY FS_CardinalityType DEF Numbered
<1>2. q \notin rows
  OBVIOUS
<1>3. IsFiniteSet(new) /\ Cardinality(new) = Cardinality(rows) + 1
  BY <1>1, <1>2, FS_AddElement
<1>4. \A r \in rows : r.seq \in Nat /\ r.seq < Cardinality(rows)
  BY DEF Numbered, Log!Row
<1>5. \A x, y \in new : x.id = y.id => x = y
  BY DEF Numbered
<1>6. \A x, y \in new : x.seq = y.seq => x = y
  BY <1>1, <1>4 DEF Numbered
<1>7. \A x \in new : x.seq < Cardinality(new)
  BY <1>1, <1>3, <1>4
<1>8. \A n \in 0 .. Cardinality(new) - 1 : \E x \in new : x.seq = n
  <2> SUFFICES ASSUME NEW n \in 0 .. Cardinality(rows) PROVE \E x \in new : x.seq = n
    BY <1>1, <1>3
  <2>1. CASE n = Cardinality(rows)
    BY <2>1
  <2>2. CASE n \in 0 .. Cardinality(rows) - 1
    BY <2>2 DEF Numbered
  <2> QED
    BY <1>1, <2>1, <2>2
<1> HIDE DEF new
<1> QED
  <2>1. Numbered(new)
    BY <1>3, <1>5, <1>6, <1>7, <1>8 DEF Numbered
  <2> QED
    BY <1>3, <2>1 DEF new

-----------------------------------------------------------------------------
(* What a commit does to the rows.  A row q is what became of row r: *)
Became(i, r, q) ==
    /\ q.id = r.id /\ q.key = r.key /\ q.content = r.content /\ q.seq = r.seq
    /\ r.id # held[i] => q = r
    /\ r.id = held[i] =>
          /\ q.state = IF op[i].kind = "supersede" THEN "invalid" ELSE "replaced"
          /\ q.by = IF op[i].kind = "supersede" THEN op[i].id ELSE NoRow

(* The row that a put commits is one, with the next number. *)
LEMMA NewRowFields ==
    ASSUME StoreTypeOK, CallInv, SeqInv, NEW i \in Instance, pc[i] = "commit",
           op[i].kind # "supersede"
    PROVE  /\ NewRow(i) \in Log!Row
           /\ NewRow(i).id = op[i].id /\ NewRow(i).key = op[i].key
           /\ NewRow(i).content = op[i].content /\ op[i].content \in Content
           /\ NewRow(i).seq = Cardinality(facts)
           /\ NewRow(i).state = "active" /\ NewRow(i).by = NoRow
<1>1. op[i] \in Op /\ op[i].content # NoContent
  BY DEF CallInv
<1>2. op[i].content \in Content /\ op[i].key \in Key /\ op[i].id \in Nat
  BY <1>1 DEF Op
<1>3. seqno[i] = Cardinality(facts) /\ seqno[i] \in Nat
  BY DEF SeqInv, Indexed, StoreTypeOK
<1> QED
  BY <1>2, <1>3 DEF NewRow, Log!Row, Log!State, NoRow, Log!NoRow

(* The row that a commit retires: the one it holds, which is active. *)
LEMMA HeldRow ==
    ASSUME StoreTypeOK, RowInv, HeldInv, NEW i \in Instance, pc[i] \in Holding,
           held[i] # NoRow
    PROVE  \E h \in facts :
              /\ {r \in facts : r.id = held[i]} = {h}
              /\ h.id = held[i] /\ h.key = op[i].key /\ h.state = "active"
<1>1. PICK h \in facts : h.id = held[i] /\ h.state = "active"
  BY DEF HeldInv, IsActive
<1>2. PICK g \in facts : g.id = existing[i] /\ g.key = op[i].key
  BY DEF HeldInv
<1>3. h = g
  BY <1>1, <1>2 DEF HeldInv, RowInv, Numbered
<1>4. {r \in facts : r.id = held[i]} = {h}
  BY <1>1 DEF RowInv, Numbered
<1> QED
  BY <1>1, <1>2, <1>3, <1>4

(* No row has the fact_id of no row. *)
LEMMA NoRowHasNone ==
    ASSUME RowInv PROVE \A r \in facts : r.id # NoRow
BY DEF RowInv, NoRow, Log!NoRow

(* The rows after a commit: those of before, the held one retired, and     *)
(* the new one; numbered without gaps still.                               *)
LEMMA CommitRows ==
    ASSUME StoreTypeOK, CallInv, RowInv, HeldInv, SeqInv,
           NEW i \in Instance, Commit(i)
    PROVE  /\ facts' \subseteq Log!Row
           /\ Numbered(facts')
           /\ Cardinality(facts') = Cardinality(facts)
                 + (IF op[i].kind = "supersede" THEN 0 ELSE 1)
           /\ Cardinality(facts) \in Nat
           /\ op[i].kind # "supersede" => NewRow(i) \in facts'
           /\ \A r \in facts : \E q \in facts' : Became(i, r, q)
           /\ \A q \in facts' :
                 \/ op[i].kind # "supersede" /\ q = NewRow(i)
                 \/ \E r \in facts : Became(i, r, q)
<1> DEFINE sup == op[i].kind = "supersede"
           state == IF sup THEN "invalid" ELSE "replaced"
           by == IF sup THEN op[i].id ELSE NoRow
           old == {r \in facts : r.id = held[i]}
           gone(r) == Log!Retired(r, state, by)
           kept == (facts \ old) \cup {gone(r) : r \in old}
<1>0. /\ pc[i] = "commit" /\ op[i] \in Op /\ facts \subseteq Log!Row
      /\ Numbered(facts) /\ Cardinality(facts) \in Nat
  BY FS_CardinalityType DEF Commit, CallInv, StoreTypeOK, RowInv, Numbered
<1>1. state \in Log!State /\ by \in Nat
  BY <1>0 DEF Log!State, Op, NoRow, Log!NoRow
<1>2. facts' = kept \cup (IF sup THEN {} ELSE {NewRow(i)})
  <2>1. CASE sup
    BY <2>1 DEF Commit
  <2>2. CASE ~ sup
    BY <2>2 DEF Commit
  <2> QED
    BY <2>1, <2>2
<1>3. ASSUME NEW r \in facts
      PROVE  /\ gone(r) \in Log!Row
             /\ r \in old => Became(i, r, gone(r))
             /\ r \notin old => Became(i, r, r)
  <2>1. r \in Log!Row
    BY <1>0
  <2>2. /\ gone(r) \in Log!Row /\ gone(r).id = r.id /\ gone(r).key = r.key
        /\ gone(r).content = r.content /\ gone(r).seq = r.seq
        /\ gone(r).state = state /\ gone(r).by = by
    <3> HIDE DEF state, by
    <3> QED
      BY <1>1, <2>1, RetiredRow
  <2> HIDE DEF gone
  <2> QED
    BY <2>2 DEF Became
<1> HIDE DEF gone
<1>4. /\ \A r \in facts : \E q \in kept : Became(i, r, q)
      /\ \A q \in kept : \E r \in facts : Became(i, r, q)
      /\ kept \subseteq Log!Row
  <2>1. \A r \in facts : \E q \in kept : Became(i, r, q)
    <3> TAKE r \in facts
    <3>1. CASE r \in old
      BY <1>3, <3>1
    <3>2. CASE r \notin old
      BY <1>3, <3>2
    <3> QED
      BY <3>1, <3>2
  <2>2. \A q \in kept : q \in Log!Row /\ \E r \in facts : Became(i, r, q)
    <3> TAKE q \in kept
    <3>1. CASE q \in facts \ old
      BY <1>0, <1>3, <3>1
    <3>2. CASE q \in {gone(r) : r \in old}
      <4>1. PICK r \in old : q = gone(r)
        BY <3>2
      <4> QED
        BY <1>3, <4>1
    <3> QED
      BY <3>1, <3>2
  <2> QED
    BY <2>1, <2>2
<1>5. Numbered(kept) /\ Cardinality(kept) = Cardinality(facts)
  <2>1. CASE held[i] = NoRow
    <3>1. old = {}
      BY <2>1, NoRowHasNone
    <3>2. kept = facts
      BY <3>1
    <3> QED
      BY <1>0, <3>2
  <2>2. CASE held[i] # NoRow
    <3>1. PICK h \in facts : old = {h}
      BY <1>0, <2>2, HeldRow DEF Holding
    <3>2. kept = (facts \ {h}) \cup {gone(h)}
      BY <3>1
    <3>3. Became(i, h, gone(h)) /\ gone(h) \in Log!Row
      BY <1>3, <3>1
    <3>4. gone(h).id = h.id /\ gone(h).seq = h.seq
      BY <3>3 DEF Became
    <3> QED
      BY <1>0, <3>2, <3>3, <3>4, RetireNumbered
  <2> QED
    BY <2>1, <2>2
<1> HIDE DEF kept
<1>6. CASE sup
  BY <1>0, <1>2, <1>4, <1>5, <1>6
<1>7. CASE ~ sup
  <2>1. /\ NewRow(i) \in Log!Row /\ NewRow(i).id = op[i].id
        /\ NewRow(i).seq = Cardinality(kept)
    BY <1>0, <1>5, <1>7, NewRowFields
  <2>2. \A q \in kept : q.id # NewRow(i).id
    <3> TAKE q \in kept
    <3>1. PICK r \in facts : q.id = r.id
      BY <1>4 DEF Became
    <3>2. op[i].id # r.id
      BY <1>0 DEF CallInv, Unwritten
    <3> QED
      BY <2>1, <3>1, <3>2
  <2>3. facts' = kept \cup {NewRow(i)}
    BY <1>2, <1>7
  <2>4. Numbered(facts') /\ Cardinality(facts') = Cardinality(kept) + 1
    BY <1>4, <1>5, <2>1, <2>2, <2>3, AddNumbered
  <2> QED
    BY <1>0, <1>4, <1>5, <1>7, <2>1, <2>3, <2>4
<1> QED
  BY <1>6, <1>7

-----------------------------------------------------------------------------
(* The state of the store stays well typed. *)
LEMMA TypeStep ==
    ASSUME StoreTypeOK, CallInv, RowInv, HeldInv, SeqInv, [StoreNext]_storeVars
    PROVE  StoreTypeOK'
<1>0. NoRow \in Nat /\ NoRow = 0
  BY DEF NoRow, Log!NoRow
<1>1. ASSUME NEW i \in Instance, NEW o \in Incoming, Begin(i, o)
      PROVE  StoreTypeOK'
  <2>1. o \in Op /\ drawn + 1 \in Nat
    BY DEF Incoming, Op, StoreTypeOK
  <2>2. op' \in [Instance -> Op \cup {NoOp}] /\ pc' \in [Instance -> Statement]
    BY <1>1, <2>1 DEF Begin, Goto, StoreTypeOK, Statement
  <2> QED
    BY <1>1, <2>1, <2>2 DEF Begin, Silent, StoreTypeOK
<1>2. ASSUME NEW i \in Instance, Ends(i) PROVE StoreTypeOK'
  <2>1. PICK ret \in Ret, got \in Nat : Finish(i, ret, got)
    BY <1>2 DEF Ends
  <2>2. op[i] \in Op
    BY <1>2 DEF Ends, CallInv
  <2>3. answer' \in [op : Op, ret : Ret, got : Nat]
    BY <2>1, <2>2 DEF Finish
  <2>4. /\ pc' \in [Instance -> Statement] /\ op' \in [Instance -> Op \cup {NoOp}]
        /\ existing' \in [Instance -> Nat] /\ seqno' \in [Instance -> Nat]
        /\ held' \in [Instance -> Nat]
    BY <1>0, <2>1 DEF Finish, Goto, Release, Hold, StoreTypeOK, Statement
  <2>5. writer' \in Instance \cup {Nobody}
    BY <2>1 DEF Finish, Release, StoreTypeOK
  <2> QED
    BY <1>2, <2>3, <2>4, <2>5 DEF Ends, StoreTypeOK
<1>3. ASSUME NEW i \in Instance, ReadOn(i) PROVE StoreTypeOK'
  <2>1. ActiveId(op[i].key) \in Nat
    BY ActiveIdFound
  <2> QED
    BY <1>3, <2>1 DEF ReadOn, TakeWrite, Goto, Silent, StoreTypeOK, Statement
<1>4. ASSUME NEW i \in Instance, CompareOn(i) PROVE StoreTypeOK'
  BY <1>0, <1>4 DEF CompareOn, Hold, Goto, Silent, StoreTypeOK, Statement
<1>5. ASSUME NEW i \in Instance, UpdateOn(i) PROVE StoreTypeOK'
  BY <1>5 DEF UpdateOn, TakeWrite, Hold, Goto, Silent, StoreTypeOK, Statement
<1>6. ASSUME NEW i \in Instance, Insert(i) PROVE StoreTypeOK'
  <2>1. NextSeq \in Nat
    BY NextSeqIsCount DEF RowInv
  <2> QED
    BY <1>6, <2>1 DEF Insert, TakeWrite, Goto, Silent, StoreTypeOK, Statement
<1>7. ASSUME NEW i \in Instance, IndexOn(i) \/ SeqOn(i) PROVE StoreTypeOK'
  BY <1>7 DEF IndexOn, SeqOn, dbVars, Goto, Silent, StoreTypeOK, Statement
<1>8. ASSUME NEW i \in Instance, Commit(i) PROVE StoreTypeOK'
  <2>1. facts' \subseteq Log!Row
    BY <1>8, CommitRows
  <2>2. writer' \in Instance \cup {Nobody} /\ held' \in [Instance -> Nat]
    BY <1>0, <1>8 DEF Commit, Release, Hold, StoreTypeOK
  <2>3. pc' \in [Instance -> Statement]
    BY <1>8 DEF Commit, Goto, StoreTypeOK, Statement
  <2> QED
    BY <1>8, <2>1, <2>2, <2>3 DEF Commit, Silent, StoreTypeOK
<1>9. CASE UNCHANGED storeVars
  BY <1>9 DEF storeVars, dbVars, StoreTypeOK
<1> QED
  BY <1>1, <1>2, <1>3, <1>4, <1>5, <1>6, <1>7, <1>8, <1>9, StepCases DEF Step

(* A step changes one call, and the rows only if it commits. *)
LEMMA OneCall ==
    ASSUME StoreTypeOK, NEW i \in Instance, Step(i)
    PROVE  /\ \A j \in Instance : j # i =>
                 /\ pc'[j] = pc[j] /\ op'[j] = op[j] /\ held'[j] = held[j]
                 /\ existing'[j] = existing[j] /\ seqno'[j] = seqno[j]
           /\ facts' = facts \/ Commit(i)
           /\ drawn' = drawn \/ pc[i] = "idle"
<1>1. CASE \E o \in Incoming : Begin(i, o)
  BY <1>1 DEF Begin, Goto, StoreTypeOK
<1>2. CASE Ends(i)
  BY <1>2 DEF Ends, Finish, Goto, Release, Hold, StoreTypeOK
<1>3. CASE ReadOn(i)
  BY <1>3 DEF ReadOn, Goto, StoreTypeOK
<1>4. CASE CompareOn(i)
  BY <1>4 DEF CompareOn, Hold, Goto, StoreTypeOK
<1>5. CASE UpdateOn(i)
  BY <1>5 DEF UpdateOn, Hold, Goto, StoreTypeOK
<1>6. CASE Insert(i) \/ IndexOn(i) \/ SeqOn(i)
  BY <1>6 DEF Insert, IndexOn, SeqOn, dbVars, Goto, StoreTypeOK
<1>7. CASE Commit(i)
  BY <1>7 DEF Commit, Release, Hold, Goto, StoreTypeOK
<1> QED
  BY <1>1, <1>2, <1>3, <1>4, <1>5, <1>6, <1>7 DEF Step

(* What each step does to the state of its own call. *)
LEMMA OwnCall ==
    ASSUME StoreTypeOK, NEW i \in Instance
    PROVE  /\ \A o \in Incoming : Begin(i, o) =>
                 /\ pc[i] = "idle" /\ pc'[i] = "read" /\ op'[i] = o
                 /\ UNCHANGED <<held, existing, seqno>>
                 /\ o.id = drawn + 1 /\ drawn' = drawn + 1 /\ drawn < MaxCalls
           /\ Ends(i) =>
                 /\ pc[i] # "idle" /\ pc'[i] = "idle" /\ op'[i] = NoOp
                 /\ held'[i] = NoRow /\ existing'[i] = NoRow /\ seqno'[i] = 0
           /\ ReadOn(i) =>
                 /\ pc[i] = "read" /\ pc'[i] \in {"compare", "update", "insert"}
                 /\ pc'[i] = "compare" <=> op[i].kind = "put_if"
                 /\ pc'[i] = "update" => existing'[i] # NoRow
                 /\ pc'[i] = "insert" => op[i].kind = "put" /\ existing'[i] = NoRow
                 /\ existing'[i] = ActiveId(op[i].key)
                 /\ UNCHANGED <<op, held, seqno>>
           /\ CompareOn(i) =>
                 /\ pc[i] = "compare" /\ existing'[i] \in {existing[i], NoRow}
                 /\ held'[i] = existing'[i]
                 /\ existing'[i] # NoRow => IsActive(existing'[i])
                 /\ ContentOf(existing'[i]) = op[i].expected
                 /\ pc'[i] = IF existing'[i] = NoRow THEN "insert" ELSE "update"
                 /\ UNCHANGED <<op, seqno>>
           /\ UpdateOn(i) =>
                 /\ pc[i] = "update" /\ held'[i] = existing[i]
                 /\ pc'[i] = IF op[i].kind = "supersede" THEN "commit" ELSE "insert"
                 /\ UNCHANGED <<op, existing, seqno>>
           /\ Insert(i) =>
                 /\ pc[i] = "insert" /\ pc'[i] = "index" /\ seqno'[i] = NextSeq
                 /\ UNCHANGED <<op, existing, held>>
           /\ IndexOn(i) =>
                 /\ pc[i] = "index" /\ pc'[i] = "seq"
                 /\ UNCHANGED <<op, existing, held, seqno>>
           /\ SeqOn(i) =>
                 /\ pc[i] = "seq" /\ pc'[i] = "commit"
                 /\ UNCHANGED <<op, existing, held, seqno>>
           /\ Commit(i) =>
                 /\ pc[i] = "commit" /\ pc'[i] = "reread" /\ held'[i] = NoRow
                 /\ UNCHANGED <<op, existing, seqno>>
<1>1. ASSUME NEW o \in Incoming, Begin(i, o)
      PROVE  /\ pc[i] = "idle" /\ pc'[i] = "read" /\ op'[i] = o
             /\ UNCHANGED <<held, existing, seqno>>
             /\ o.id = drawn + 1 /\ drawn' = drawn + 1 /\ drawn < MaxCalls
  BY <1>1 DEF Begin, Goto, StoreTypeOK
<1>2. ASSUME Ends(i)
      PROVE  /\ pc[i] # "idle" /\ pc'[i] = "idle" /\ op'[i] = NoOp
             /\ held'[i] = NoRow /\ existing'[i] = NoRow /\ seqno'[i] = 0
  BY <1>2 DEF Ends, Finish, Goto, Release, Hold, StoreTypeOK
<1>3. ASSUME ReadOn(i)
      PROVE  /\ pc[i] = "read" /\ pc'[i] \in {"compare", "update", "insert"}
             /\ pc'[i] = "compare" <=> op[i].kind = "put_if"
             /\ pc'[i] = "update" => existing'[i] # NoRow
             /\ pc'[i] = "insert" => op[i].kind = "put" /\ existing'[i] = NoRow
             /\ existing'[i] = ActiveId(op[i].key)
             /\ UNCHANGED <<op, held, seqno>>
  BY <1>3 DEF ReadOn, Goto, StoreTypeOK
<1>4. ASSUME CompareOn(i)
      PROVE  /\ pc[i] = "compare" /\ existing'[i] \in {existing[i], NoRow}
             /\ held'[i] = existing'[i]
             /\ existing'[i] # NoRow => IsActive(existing'[i])
             /\ ContentOf(existing'[i]) = op[i].expected
             /\ pc'[i] = IF existing'[i] = NoRow THEN "insert" ELSE "update"
             /\ UNCHANGED <<op, seqno>>
  <2>1. PICK row \in {existing[i], NoRow} :
              /\ row # NoRow => IsActive(row)
              /\ ContentOf(row) = op[i].expected
              /\ held' = [held EXCEPT ![i] = row]
              /\ existing' = [existing EXCEPT ![i] = row]
              /\ pc' = [pc EXCEPT ![i] = IF row = NoRow THEN "insert" ELSE "update"]
    BY <1>4 DEF CompareOn, Hold, Goto
  <2>2. existing'[i] = row /\ held'[i] = row
    BY <2>1 DEF StoreTypeOK
  <2>3. pc'[i] = IF row = NoRow THEN "insert" ELSE "update"
    BY <2>1 DEF StoreTypeOK
  <2> QED
    BY <1>4, <2>1, <2>2, <2>3 DEF CompareOn
<1>5. ASSUME UpdateOn(i)
      PROVE  /\ pc[i] = "update" /\ held'[i] = existing[i]
             /\ pc'[i] = IF op[i].kind = "supersede" THEN "commit" ELSE "insert"
             /\ UNCHANGED <<op, existing, seqno>>
  BY <1>5 DEF UpdateOn, Hold, Goto, StoreTypeOK
<1>6. /\ Insert(i) =>
             /\ pc[i] = "insert" /\ pc'[i] = "index" /\ seqno'[i] = NextSeq
             /\ UNCHANGED <<op, existing, held>>
      /\ IndexOn(i) =>
             /\ pc[i] = "index" /\ pc'[i] = "seq"
             /\ UNCHANGED <<op, existing, held, seqno>>
      /\ SeqOn(i) =>
             /\ pc[i] = "seq" /\ pc'[i] = "commit"
             /\ UNCHANGED <<op, existing, held, seqno>>
  BY DEF Insert, IndexOn, SeqOn, Goto, dbVars, StoreTypeOK
<1>7. ASSUME Commit(i)
      PROVE  /\ pc[i] = "commit" /\ pc'[i] = "reread" /\ held'[i] = NoRow
             /\ UNCHANGED <<op, existing, seqno>>
  BY <1>7 DEF Commit, Release, Hold, Goto, StoreTypeOK
<1> QED
  BY <1>1, <1>2, <1>3, <1>4, <1>5, <1>6, <1>7

(* The calls in flight keep fact_ids of their own. *)
LEMMA CallStep ==
    ASSUME StoreTypeOK, CallInv, RowInv, HeldInv, SeqInv,
           NEW i \in Instance, Step(i)
    PROVE  CallInv'
<1>0. /\ \A j \in Instance : j # i => pc'[j] = pc[j] /\ op'[j] = op[j]
      /\ facts' = facts \/ Commit(i)
      /\ drawn \in Nat
  BY OneCall DEF StoreTypeOK
<1>1. ASSUME NEW o \in Incoming, Begin(i, o) PROVE CallInv'
  <2>1. /\ pc'[i] = "read" /\ op'[i] = o /\ o.id = drawn + 1
        /\ drawn' = drawn + 1 /\ drawn < MaxCalls /\ facts' = facts
    BY <1>1, OwnCall DEF Begin
  <2>2. o \in Op /\ (o.kind = "supersede" <=> o.content = NoContent)
    BY DEF Incoming, Op, StoreTypeOK
  <2>3. \A r \in facts : r.id \in Nat /\ r.by \in Nat /\ r.id <= drawn /\ r.by <= drawn
    BY DEF RowInv, StoreTypeOK, Log!Row
  <2>4. /\ op'[i] \in Op /\ op'[i].id \in 1 .. drawn'
        /\ \A r \in facts : op'[i].id # r.id /\ op'[i].id # r.by
    BY <1>0, <2>1, <2>2, <2>3
  <2>5. \A j \in Instance : j # i /\ pc[j] # "idle" =>
            op[j].id \in 1 .. drawn' /\ op[j].id # op'[i].id
    BY <1>0, <2>1 DEF CallInv
  <2>6. drawn' <= MaxCalls
    BY <1>0, <2>1, FactStoreAssumption
  <2> QED
    BY <1>0, <2>1, <2>2, <2>4, <2>5, <2>6 DEF CallInv
<1>2. CASE Ends(i)
  <2>1. pc'[i] = "idle" /\ UNCHANGED <<facts, drawn>>
    BY <1>2, OwnCall DEF Ends
  <2> QED
    BY <1>0, <2>1 DEF CallInv
<1>3. CASE ReadOn(i) \/ CompareOn(i) \/ UpdateOn(i) \/ Insert(i)
           \/ IndexOn(i) \/ SeqOn(i)
  <2>1. pc[i] \in Unwritten /\ op' = op /\ UNCHANGED <<facts, drawn>>
    BY <1>3, OwnCall
      DEF ReadOn, CompareOn, UpdateOn, Insert, IndexOn, SeqOn, dbVars, Unwritten
  <2> QED
    BY <1>0, <2>1 DEF CallInv, Unwritten
<1>4. CASE Commit(i)
  <2>1. /\ pc[i] = "commit" /\ pc'[i] = "reread" /\ op' = op /\ drawn' = drawn
    BY <1>4, OwnCall DEF Commit
  <2>2. ASSUME NEW j \in Instance, j # i, pc[j] \in Unwritten, NEW q \in facts'
        PROVE  op[j].id # q.id /\ op[j].id # q.by
    <3>0. op[j].id # op[i].id /\ op[j].id # NoRow
      BY <2>1, <2>2 DEF CallInv, Unwritten, NoRow, Log!NoRow
    <3>1. CASE op[i].kind # "supersede" /\ q = NewRow(i)
      BY <3>0, <3>1 DEF NewRow
    <3>2. ASSUME NEW r \in facts, Became(i, r, q)
          PROVE  op[j].id # q.id /\ op[j].id # q.by
      BY <2>2, <3>0, <3>2 DEF Became, CallInv, Unwritten
    <3> QED
      BY <1>4, <2>2, <3>1, <3>2, CommitRows
  <2> QED
    BY <1>0, <2>1, <2>2 DEF CallInv, Unwritten
<1> QED
  BY <1>1, <1>2, <1>3, <1>4 DEF Step

(* The rows keep fact_ids of their own and a numbering without gaps. *)
LEMMA RowStep ==
    ASSUME StoreTypeOK, CallInv, RowInv, HeldInv, SeqInv,
           NEW i \in Instance, Step(i)
    PROVE  RowInv'
<1>0. drawn \in Nat /\ (drawn' = drawn \/ drawn' = drawn + 1)
  BY OneCall, OwnCall DEF Step, StoreTypeOK, Begin, Ends, ReadOn, CompareOn,
     UpdateOn, Insert, IndexOn, SeqOn, Commit, dbVars
<1>1. CASE facts' = facts
  <2>1. \A r \in facts : r.id \in 1 .. drawn' /\ r.by <= drawn'
    BY <1>0 DEF RowInv, StoreTypeOK, Log!Row
  <2> QED
    BY <1>1, <2>1 DEF RowInv
<1>2. CASE Commit(i)
  <2>0. drawn' = drawn /\ pc[i] = "commit" /\ op[i].id \in 1 .. drawn
    BY <1>2 DEF Commit, CallInv
  <2>1. ASSUME NEW q \in facts' PROVE q.id \in 1 .. drawn /\ q.by <= drawn
    <3>1. CASE op[i].kind # "supersede" /\ q = NewRow(i)
      BY <1>0, <2>0, <3>1 DEF NewRow, NoRow, Log!NoRow
    <3>2. ASSUME NEW r \in facts, Became(i, r, q)
          PROVE  q.id \in 1 .. drawn /\ q.by <= drawn
      <4>1. r.id \in 1 .. drawn /\ r.by <= drawn
        BY DEF RowInv
      <4> QED
        BY <1>0, <2>0, <3>2, <4>1 DEF Became, NoRow, Log!NoRow
    <3> QED
      BY <1>2, <3>1, <3>2, CommitRows
  <2>2. Numbered(facts')
    BY <1>2, CommitRows
  <2>3. ASSUME NEW q \in facts', q.state = "active" PROVE q.by = NoRow
    <3>1. CASE q = NewRow(i)
      BY <3>1 DEF NewRow
    <3>2. ASSUME NEW r \in facts, Became(i, r, q) PROVE q.by = NoRow
      BY <2>3, <3>2 DEF Became, RowInv
    <3> QED
      BY <1>2, <3>1, <3>2, CommitRows
  <2> QED
    BY <2>0, <2>1, <2>2, <2>3 DEF RowInv, Numbered
<1> QED
  BY <1>1, <1>2, OneCall

(* Whatever row of the key is active when a put commits, it holds it. *)
LEMMA PutRetiresActive ==
    ASSUME StoreTypeOK, RowInv, IndexInv, NEW i \in Instance,
           pc[i] = "commit", op[i].kind # "supersede",
           NEW r \in facts, r.key = op[i].key, r.state = "active"
    PROVE  r.id = held[i]
BY DEF IndexInv, Indexed, ActiveRow

(* Only the latest row of a key is active. *)
LEMMA LatestStep ==
    ASSUME StoreTypeOK, CallInv, RowInv, LatestInv, HeldInv, IndexInv, SeqInv,
           NEW i \in Instance, Step(i)
    PROVE  LatestInv'
<1>1. CASE facts' = facts
  BY <1>1 DEF LatestInv
<1>2. CASE Commit(i)
  <2>0. /\ pc[i] = "commit"
        /\ Cardinality(facts) \in Nat
        /\ \A r \in facts : r.seq \in Nat /\ r.seq < Cardinality(facts)
    BY <1>2, CommitRows DEF Commit, RowInv, Numbered, StoreTypeOK, Log!Row
  <2> DEFINE put == op[i].kind # "supersede"
  <2>1. put => /\ NewRow(i) \in facts' /\ NewRow(i).key = op[i].key
               /\ NewRow(i).seq = Cardinality(facts) /\ NewRow(i).state = "active"
    BY <1>2, <2>0, CommitRows, NewRowFields
  <2>2. ASSUME NEW q \in facts'
        PROVE  /\ (put /\ q = NewRow(i)) \/ \E r \in facts : Became(i, r, q)
               /\ q.seq \in Nat
               /\ q.seq <= Cardinality(facts)
    BY <1>2, <2>0, <2>1, CommitRows DEF Became
  <2>3. ASSUME NEW q \in facts', q.state = "active", NEW p \in facts', p.key = q.key
        PROVE  p.seq <= q.seq
    <3>1. CASE put /\ q = NewRow(i)
      BY <2>1, <2>2, <3>1
    <3>2. ASSUME NEW r \in facts, Became(i, r, q) PROVE p.seq <= q.seq
      <4>1. r = q /\ r.id # held[i]
        BY <2>3, <3>2 DEF Became
      <4>2. CASE put /\ p = NewRow(i)
        BY <2>0, <2>1, <2>3, <4>1, <4>2, PutRetiresActive
      <4>3. ASSUME NEW u \in facts, Became(i, u, p) PROVE p.seq <= q.seq
        BY <2>3, <4>1, <4>3 DEF Became, LatestInv
      <4> QED
        BY <2>2, <4>2, <4>3
    <3> QED
      BY <2>2, <3>1, <3>2
  <2>4. ASSUME NEW q \in facts', q.state = "replaced"
        PROVE  \E p \in facts' : p.key = q.key /\ p.seq > q.seq
    <3>0. PICK r \in facts : Became(i, r, q)
      BY <2>1, <2>2, <2>4
    <3>1. CASE r.id = held[i]
      <4>1. put /\ held[i] # NoRow
        BY <2>4, <3>0, <3>1, NoRowHasNone DEF Became
      <4>2. r.key = op[i].key
        BY <2>0, <3>1, <4>1, HeldRow DEF Holding
      <4> QED
        BY <2>0, <2>1, <3>0, <4>1, <4>2 DEF Became
    <3>2. CASE r.id # held[i]
      <4>1. r = q
        BY <3>0, <3>2 DEF Became
      <4>2. PICK u \in facts : u.key = q.key /\ u.seq > q.seq
        BY <2>4, <4>1 DEF LatestInv
      <4>3. PICK p \in facts' : Became(i, u, p)
        BY <1>2, CommitRows
      <4> QED
        BY <4>2, <4>3 DEF Became
    <3> QED
      BY <3>1, <3>2
  <2> QED
    BY <2>3, <2>4 DEF LatestInv
<1> QED
  BY <1>1, <1>2, OneCall

(* A row that a call has seen is there to stay, and one that another call  *)
(* holds stays active.                                                     *)
LEMMA SeenStep ==
    ASSUME StoreTypeOK, CallInv, RowInv, HeldInv, SeqInv,
           NEW i \in Instance, Step(i)
    PROVE  /\ \A r \in facts : \E q \in facts' :
                 q.id = r.id /\ q.key = r.key /\ q.content = r.content /\ q.seq = r.seq
           /\ \A r \in facts : r.state # "active" => r \in facts'
           /\ \A j \in Instance : j # i /\ held[j] # NoRow => IsActive(held[j])'
<1>1. CASE facts' = facts
  BY <1>1, OneCall DEF HeldInv, IsActive
<1>2. CASE Commit(i)
  <2>0. pc[i] = "commit" /\ \A r \in facts : \E q \in facts' : Became(i, r, q)
    BY <1>2, CommitRows DEF Commit
  <2>1. \A r \in facts : \E q \in facts' :
            q.id = r.id /\ q.key = r.key /\ q.content = r.content /\ q.seq = r.seq
    BY <2>0 DEF Became
  <2>2. \A r \in facts : r.id = held[i] => r.state = "active"
    <3> TAKE r \in facts
    <3> HAVE r.id = held[i]
    <3>1. held[i] # NoRow
      BY NoRowHasNone
    <3>2. PICK h \in facts : {x \in facts : x.id = held[i]} = {h} /\ h.state = "active"
      BY <2>0, <3>1, HeldRow DEF Holding
    <3> QED
      BY <3>2
  <2>3. \A r \in facts : r.state # "active" => r \in facts'
    BY <2>0, <2>2 DEF Became
  <2>4. ASSUME NEW j \in Instance, j # i, held[j] # NoRow PROVE IsActive(held[j])'
    <3>1. held'[j] = held[j] /\ held[j] # held[i]
      BY <2>4, OneCall DEF HeldInv
    <3>2. PICK r \in facts : r.id = held[j] /\ r.state = "active"
      BY <2>4 DEF HeldInv, IsActive
    <3>3. r \in facts'
      BY <2>0, <3>1, <3>2 DEF Became
    <3> QED
      BY <3>1, <3>2, <3>3 DEF IsActive
  <2> QED
    BY <2>1, <2>3, <2>4
<1> QED
  BY <1>1, <1>2, OneCall

(* A row is held by one call at a time, and only while it is active. *)
LEMMA HeldStep ==
    ASSUME StoreTypeOK, CallInv, RowInv, HeldInv, SeqInv,
           NEW i \in Instance, Step(i)
    PROVE  HeldInv'
<1> DEFINE
      Seen(j) == existing[j] # NoRow =>
                    \E r \in facts : r.id = existing[j] /\ r.key = op[j].key
      Held(j) == held[j] # NoRow =>
                    /\ pc[j] \in Holding
                    /\ held[j] = existing[j]
                    /\ IsActive(held[j])
      Place(j) ==
         /\ pc[j] \in Holding \ {"update"} => held[j] = existing[j]
         /\ pc[j] = "update" => existing[j] # NoRow
         /\ pc[j] \in {"idle", "read"} => existing[j] = NoRow
         /\ pc[j] # "idle" /\ op[j].kind = "supersede" =>
               /\ pc[j] \notin {"compare", "insert", "index", "seq"}
               /\ pc[j] = "commit" => existing[j] # NoRow
      Alone(j) == \A k \in Instance : held[j] # NoRow /\ held[j] = held[k] => j = k
<1>d. HeldInv <=> \A j \in Instance : Seen(j) /\ Held(j) /\ Place(j) /\ Alone(j)
  BY DEF HeldInv
<1>e. HeldInv' <=> \A j \in Instance : Seen(j)' /\ Held(j)' /\ Place(j)' /\ Alone(j)'
  BY DEF HeldInv
<1>0. /\ \A j \in Instance : j # i =>
            /\ pc'[j] = pc[j] /\ op'[j] = op[j] /\ held'[j] = held[j]
            /\ existing'[j] = existing[j]
      /\ facts' = facts \/ Commit(i)
  BY OneCall
<1>1. ASSUME NEW j \in Instance, j # i PROVE Seen(j)' /\ Held(j)' /\ Place(j)'
  <2>1. Seen(j)'
    BY <1>0, <1>1, <1>d, SeenStep
  <2>2. Held(j)'
    BY <1>0, <1>1, <1>d, SeenStep
  <2>3. Place(j)'
    BY <1>0, <1>1, <1>d
  <2> QED
    BY <2>1, <2>2, <2>3
<1>2. Seen(i)' /\ Held(i)' /\ Place(i)'
  <2>1. ASSUME NEW o \in Incoming, Begin(i, o) PROVE Seen(i)' /\ Held(i)' /\ Place(i)'
    <3>1. existing'[i] = NoRow /\ held'[i] = NoRow /\ pc'[i] = "read"
      <4>1. existing[i] = NoRow
        BY <2>1, <1>d DEF Begin
      <4> QED
        BY <2>1, <4>1, <1>d, OwnCall DEF Holding
    <3> QED
      BY <3>1 DEF Holding
  <2>2. CASE Ends(i)
    BY <2>2, OwnCall DEF Holding
  <2>3. CASE ReadOn(i)
    <3>1. /\ pc[i] = "read" /\ pc'[i] \in {"compare", "update", "insert"}
          /\ pc'[i] = "compare" <=> op[i].kind = "put_if"
          /\ pc'[i] = "update" => existing'[i] # NoRow
          /\ pc'[i] = "insert" => op[i].kind = "put" /\ existing'[i] = NoRow
          /\ existing'[i] = ActiveId(op[i].key)
          /\ UNCHANGED <<op, held, facts>>
      BY <2>3, OwnCall DEF ReadOn
    <3>2. held[i] = NoRow
      BY <1>d, <3>1 DEF Holding
    <3>3. Seen(i)'
      BY <3>1, ActiveIdFound
    <3> QED
      BY <3>1, <3>2, <3>3 DEF Holding
  <2>4. CASE CompareOn(i)
    <3>1. /\ pc[i] = "compare" /\ existing'[i] \in {existing[i], NoRow}
          /\ held'[i] = existing'[i]
          /\ existing'[i] # NoRow => IsActive(existing'[i])
          /\ pc'[i] = IF existing'[i] = NoRow THEN "insert" ELSE "update"
          /\ UNCHANGED <<op, facts>>
      BY <2>4, OwnCall DEF CompareOn
    <3>2. op[i].kind # "supersede"
      BY <1>d, <3>1
    <3>3. held'[i] # NoRow => IsActive(held[i])'
      BY <3>1 DEF IsActive
    <3>4. Seen(i)'
      BY <1>d, <3>1
    <3> QED
      BY <3>1, <3>2, <3>3, <3>4 DEF Holding
  <2>5. CASE UpdateOn(i)
    <3>1. /\ pc[i] = "update" /\ held'[i] = existing[i]
          /\ pc'[i] = IF op[i].kind = "supersede" THEN "commit" ELSE "insert"
          /\ IsActive(existing[i])
          /\ UNCHANGED <<op, existing, facts>>
      BY <2>5, OwnCall DEF UpdateOn
    <3>2. IsActive(held[i])'
      BY <3>1 DEF IsActive
    <3>3. existing[i] # NoRow /\ Seen(i)'
      BY <1>d, <3>1
    <3> QED
      BY <3>1, <3>2, <3>3 DEF Holding
  <2>6. CASE Insert(i) \/ IndexOn(i) \/ SeqOn(i)
    <3>1. /\ pc[i] \in {"insert", "index", "seq"}
          /\ pc'[i] \in {"index", "seq", "commit"}
          /\ UNCHANGED <<op, existing, held, facts>>
      BY <2>6, OwnCall DEF Insert, IndexOn, SeqOn, dbVars
    <3>2. IsActive(held[i])' <=> IsActive(held[i])
      BY <3>1 DEF IsActive
    <3> QED
      BY <1>d, <3>1, <3>2 DEF Holding
  <2>7. CASE Commit(i)
    <3>1. pc'[i] = "reread" /\ held'[i] = NoRow /\ UNCHANGED <<op, existing>>
      BY <2>7, OwnCall
    <3>2. Seen(i)'
      BY <1>d, <3>1, SeenStep
    <3> QED
      BY <3>1, <3>2 DEF Holding
  <2> QED
    BY <2>1, <2>2, <2>3, <2>4, <2>5, <2>6, <2>7 DEF Step
<1>3. ASSUME NEW j \in Instance PROVE Alone(j)'
  <2>1. held'[i] = held[i] \/ held'[i] = NoRow \/
            \A k \in Instance : k # i => held[k] # held'[i]
    <3>1. CASE CompareOn(i)
      <4>1. held'[i] \in {existing[i], NoRow} /\ RowFree(i, existing[i])
        BY <3>1, OwnCall DEF CompareOn
      <4> QED
        BY <4>1 DEF RowFree, Others
    <3>2. CASE UpdateOn(i)
      <4>1. held'[i] = existing[i] /\ RowFree(i, existing[i])
        BY <3>2, OwnCall DEF UpdateOn
      <4> QED
        BY <4>1 DEF RowFree, Others
    <3>3. CASE ~ CompareOn(i) /\ ~ UpdateOn(i)
      BY <3>3, OwnCall DEF Step
    <3> QED
      BY <3>1, <3>2, <3>3
  <2> QED
    BY <1>0, <1>d, <2>1
<1> HIDE DEF Seen, Held, Place, Alone
<1> QED
  BY <1>1, <1>2, <1>3, <1>e

(* Who enters the index on active rows, and who stays in it. *)
LEMMA IndexedAfter ==
    ASSUME StoreTypeOK, NEW i \in Instance, Step(i)
    PROVE  /\ \A j \in Instance : j # i => Indexed(j)' = Indexed(j)
           /\ Indexed(i)' => IndexOn(i) \/ (SeqOn(i) /\ Indexed(i))
           /\ pc'[i] = "commit" /\ Indexed(i)' => SeqOn(i)
           /\ Commit(i) => ~ Indexed(i)'
<1>1. \A j \in Instance : j # i => Indexed(j)' = Indexed(j)
  BY OneCall DEF Indexed
<1>2. CASE IndexOn(i)
  BY <1>1, <1>2, OwnCall DEF Indexed
<1>3. CASE SeqOn(i)
  BY <1>1, <1>3, OwnCall DEF Indexed
<1>4. CASE UpdateOn(i)
  BY <1>1, <1>4, OwnCall DEF Indexed
<1>5. CASE ~ IndexOn(i) /\ ~ SeqOn(i) /\ ~ UpdateOn(i)
  <2>1. pc'[i] \notin {"seq", "commit"}
    BY <1>5, OwnCall DEF Step
  <2> QED
    BY <1>1, <1>5, <2>1 DEF Indexed
<1> QED
  BY <1>2, <1>3, <1>4, <1>5

(* One call per key is past the index on active rows. *)
LEMMA IndexStep ==
    ASSUME StoreTypeOK, CallInv, RowInv, HeldInv, IndexInv, SeqInv,
           NEW i \in Instance, Step(i)
    PROVE  IndexInv'
<1>0. /\ \A j \in Instance : j # i =>
            /\ pc'[j] = pc[j] /\ op'[j] = op[j] /\ held'[j] = held[j]
      /\ facts' = facts \/ Commit(i)
  BY OneCall
<1>i. Indexed(i)' => UNCHANGED <<op, held, facts>>
  BY IndexedAfter, OwnCall DEF IndexOn, SeqOn, dbVars
<1>1. ASSUME NEW j \in Instance, Indexed(j)', NEW q \in ActiveRow(op[j].key)'
      PROVE  q.id = held'[j]
  <2>0. q \in facts' /\ q.key = op'[j].key /\ q.state = "active"
    BY <1>1 DEF ActiveRow
  <2>1. CASE j = i
    <3>1. UNCHANGED <<op, held, facts>> /\ (IndexOn(i) \/ (SeqOn(i) /\ Indexed(i)))
      BY <1>1, <1>i, <2>1, IndexedAfter
    <3>2. q \in ActiveRow(op[i].key)
      BY <2>0, <2>1, <3>1 DEF ActiveRow
    <3> QED
      BY <2>1, <3>1, <3>2 DEF IndexOn, IndexInv
  <2>2. CASE j # i
    <3>0. Indexed(j) /\ op'[j] = op[j] /\ held'[j] = held[j]
      BY <1>0, <1>1, <2>2, IndexedAfter
    <3>1. CASE facts' = facts
      BY <2>0, <3>0, <3>1 DEF IndexInv, ActiveRow
    <3>2. CASE Commit(i)
      <4>1. CASE op[i].kind # "supersede" /\ q = NewRow(i)
        <5>1. Indexed(i) /\ op[i].key = op[j].key
          BY <2>0, <3>0, <3>2, <4>1 DEF Commit, Indexed, NewRow
        <5> QED
          BY <2>2, <3>0, <5>1 DEF IndexInv
      <4>2. ASSUME NEW r \in facts, Became(i, r, q) PROVE q.id = held[j]
        <5>1. q = r
          BY <2>0, <4>2 DEF Became
        <5> QED
          BY <2>0, <3>0, <4>2, <5>1 DEF IndexInv, ActiveRow
      <4> QED
        BY <2>0, <3>0, <3>2, <4>1, <4>2, CommitRows
    <3> QED
      BY <1>0, <3>1, <3>2
  <2> QED
    BY <2>1, <2>2
<1>2. ASSUME NEW j \in Instance, j # i, Indexed(i)', Indexed(j)'
      PROVE  op'[i].key # op'[j].key
  <2>1. Indexed(j) /\ op' = op
    BY <1>2, <1>i, IndexedAfter
  <2>2. CASE IndexOn(i)
    BY <1>2, <2>1, <2>2 DEF IndexOn, Others
  <2>3. CASE Indexed(i)
    BY <1>2, <2>1, <2>3 DEF IndexInv
  <2> QED
    BY <1>2, <2>1, <2>2, <2>3, IndexedAfter
<1>3. ASSUME NEW j \in Instance, NEW k \in Instance, Indexed(j)', Indexed(k)',
             op'[j].key = op'[k].key
      PROVE  j = k
  <2>1. CASE j # i /\ k # i
    BY <1>0, <1>3, <2>1, IndexedAfter DEF IndexInv
  <2> QED
    BY <1>2, <1>3, <2>1
<1> QED
  BY <1>1, <1>3 DEF IndexInv

(* One call at a time is past the index on seq, with the next number. *)
LEMMA SeqStep ==
    ASSUME StoreTypeOK, CallInv, RowInv, HeldInv, IndexInv, SeqInv,
           NEW i \in Instance, Step(i)
    PROVE  SeqInv'
<1> DEFINE Last(j) == pc[j] = "commit" /\ Indexed(j)
<1>0. /\ \A j \in Instance : j # i => pc'[j] = pc[j] /\ seqno'[j] = seqno[j]
      /\ facts' = facts \/ Commit(i)
      /\ \A j \in Instance : seqno[j] \in Nat
      /\ Cardinality(facts) \in Nat /\ NextSeq = Cardinality(facts)
  BY OneCall, NextSeqIsCount DEF StoreTypeOK, RowInv
<1>s. /\ \A j \in Instance : j # i => Last(j)' = Last(j)
      /\ Last(i)' => SeqOn(i)
  BY <1>0, IndexedAfter
<1>n. ASSUME SeqOn(i) PROVE seqno'[i] = Cardinality(facts) /\ seqno[i] = Cardinality(facts)
  <2>1. seqno[i] <= Cardinality(facts) /\ seqno'[i] = seqno[i]
    BY <1>n, OwnCall DEF SeqInv
  <2>2. ~ seqno[i] \in 0 .. Cardinality(facts) - 1
    BY <1>n DEF SeqOn, RowInv, Numbered
  <2> QED
    BY <1>0, <2>1, <2>2
<1>1. CASE facts' = facts
  <2>1. ASSUME NEW j \in Instance PROVE seqno'[j] <= Cardinality(facts')
    <3>1. CASE j # i
      BY <1>0, <1>1, <3>1 DEF SeqInv
    <3>2. seqno'[i] \in {seqno[i], 0, NextSeq}
      BY OwnCall DEF Step
    <3> QED
      BY <1>0, <1>1, <3>1, <3>2 DEF SeqInv
  <2>2. ASSUME NEW j \in Instance, Last(j)' PROVE seqno'[j] = Cardinality(facts')
    BY <1>0, <1>1, <1>n, <1>s, <2>2 DEF SeqInv
  <2>3. ASSUME NEW j \in Instance, j # i, Last(i)', Last(j)' PROVE FALSE
    <3>1. SeqOn(i) /\ Last(j)
      BY <1>s, <2>3
    <3>2. seqno[j] = Cardinality(facts) /\ seqno[i] = Cardinality(facts)
      BY <1>n, <3>1 DEF SeqInv
    <3> QED
      BY <2>3, <3>1, <3>2 DEF SeqOn, Others
  <2>4. ASSUME NEW j \in Instance, NEW k \in Instance, Last(j)', Last(k)' PROVE j = k
    <3>1. CASE j # i /\ k # i
      BY <1>s, <2>4, <3>1 DEF SeqInv
    <3> QED
      BY <2>3, <2>4, <3>1
  <2> QED
    BY <2>1, <2>2, <2>4 DEF SeqInv
<1>2. CASE Commit(i)
  <2>1. ~ Last(i)' /\ pc[i] = "commit" /\ seqno' = seqno
    BY <1>2, IndexedAfter, OwnCall
  <2>2. /\ Cardinality(facts') = Cardinality(facts)
              + (IF op[i].kind = "supersede" THEN 0 ELSE 1)
    BY <1>2, CommitRows
  <2>3. \A j \in Instance : seqno'[j] <= Cardinality(facts')
    BY <1>0, <2>1, <2>2 DEF SeqInv
  <2>4. ASSUME NEW j \in Instance, Last(j)' PROVE seqno'[j] = Cardinality(facts') /\ Last(j)
    <3>1. j # i /\ Last(j)
      BY <1>s, <2>1, <2>4
    <3>2. op[i].kind = "supersede"
      BY <2>1, <3>1 DEF SeqInv, Indexed
    <3> QED
      BY <1>0, <2>1, <2>2, <3>1, <3>2 DEF SeqInv
  <2> QED
    BY <2>3, <2>4 DEF SeqInv
<1> QED
  BY <1>0, <1>1, <1>2

-----------------------------------------------------------------------------
(* What a row followed when it was written it follows for good: rows that  *)
(* come later have higher numbers, and a retired row does not change.      *)
LEMMA FollowsKept ==
    ASSUME StoreTypeOK, CallInv, RowInv, HeldInv, SeqInv,
           NEW i \in Instance, Commit(i),
           NEW o, o.id # op[i].id, Follows(o)
    PROVE  Follows(o)'
<1>0. /\ pc[i] = "commit" /\ Cardinality(facts) \in Nat
      /\ \A r \in facts : r.seq \in Nat /\ r.seq < Cardinality(facts)
      /\ op[i].kind # "supersede" =>
            NewRow(i).id = op[i].id /\ NewRow(i).seq = Cardinality(facts)
  BY CommitRows, NewRowFields DEF Commit, RowInv, Numbered, StoreTypeOK, Log!Row
<1>1. \A r \in facts : \E q \in facts' : Became(i, r, q)
  BY CommitRows
<1>2. \A q \in facts' : \/ op[i].kind # "supersede" /\ q = NewRow(i)
                        \/ \E r \in facts : Became(i, r, q)
  BY CommitRows
<1>3. \A r \in facts : r.state # "active" => r \in facts'
  BY SeenStep DEF Step
<1> SUFFICES ASSUME NEW r \in facts', r.id = o.id
             PROVE  IF o.expected = NoContent
                      THEN \A q \in Previous(r)' : q.state = "invalid"
                      ELSE \E q \in Previous(r)' :
                              q.content = o.expected /\ q.state = "replaced"
  BY DEF Follows
<1>4. PICK u \in facts : Became(i, u, r)
  BY <1>0, <1>2
<1>5. u.id = o.id /\ u.key = r.key /\ u.seq = r.seq
  BY <1>4 DEF Became
<1>6. ASSUME NEW q \in Older(r)' PROVE \E p \in Older(u) : Became(i, p, q)
  <2>1. q \in facts' /\ q.key = r.key /\ q.seq < r.seq
    BY DEF Older
  <2>2. PICK p \in facts : Became(i, p, q)
    BY <1>0, <1>2, <1>5, <2>1
  <2> QED
    BY <1>5, <2>1, <2>2 DEF Became, Older
<1>7. ASSUME NEW p \in Older(u) PROVE \E q \in Older(r)' : Became(i, p, q)
  <2>1. PICK q \in facts' : Became(i, p, q)
    BY <1>1 DEF Older
  <2> QED
    BY <1>5, <2>1 DEF Became, Older
<1>8. ASSUME NEW q \in Previous(r)' PROVE \E p \in Previous(u) : Became(i, p, q)
  <2>0. q \in Older(r)' /\ \A x \in Older(r)' : x.seq <= q.seq
    BY DEF Previous
  <2>1. PICK p \in Older(u) : Became(i, p, q)
    BY <1>6, <2>0
  <2>2. ASSUME NEW x \in Older(u) PROVE x.seq <= p.seq
    <3>1. PICK y \in Older(r)' : Became(i, x, y)
      BY <1>7
    <3> QED
      BY <2>0, <2>1, <3>1 DEF Became
  <2> QED
    BY <2>1, <2>2 DEF Previous
<1>9. ASSUME NEW p \in Previous(u), p.state # "active" PROVE p \in Previous(r)'
  <2>0. p \in Older(u) /\ \A x \in Older(u) : x.seq <= p.seq
    BY DEF Previous
  <2>1. p \in Older(r)'
    BY <1>3, <1>5, <1>9, <2>0 DEF Older
  <2>2. ASSUME NEW y \in Older(r)' PROVE y.seq <= p.seq
    <3>1. PICK x \in Older(u) : Became(i, x, y)
      BY <1>6
    <3> QED
      BY <2>0, <3>1 DEF Became
  <2> QED
    BY <2>1, <2>2 DEF Previous
<1>10. CASE o.expected = NoContent
  <2>1. ASSUME NEW q \in Previous(r)' PROVE q.state = "invalid"
    <3>1. PICK p \in Previous(u) : Became(i, p, q)
      BY <1>8
    <3>2. p.state = "invalid" /\ p \in facts
      BY <1>5, <1>10 DEF Follows, Previous, Older
    <3>3. p \in facts' /\ p.id = q.id /\ q \in facts'
      BY <1>3, <3>1, <3>2 DEF Became, Previous, Older
    <3>4. p = q
      <4>1. Numbered(facts')
        BY CommitRows
      <4> QED
        BY <3>3, <4>1 DEF Numbered
    <3> QED
      BY <3>2, <3>4
  <2> QED
    BY <1>10, <2>1
<1>11. CASE o.expected # NoContent
  <2>1. PICK p \in Previous(u) : p.content = o.expected /\ p.state = "replaced"
    BY <1>5, <1>11 DEF Follows
  <2> QED
    BY <1>9, <1>11, <2>1
<1> QED
  BY <1>10, <1>11

(* The row that a compare-and-set commits follows the version expected. *)
LEMMA CasCommit ==
    ASSUME StoreTypeOK, CallInv, RowInv, LatestInv, HeldInv, IndexInv, SeqInv,
           CasInv, NEW i \in Instance, Commit(i), op[i].kind = "put_if"
    PROVE  Follows(op[i])'
<1>0. /\ pc[i] = "commit" /\ op' = op
      /\ Cardinality(facts) \in Nat
      /\ \A r \in facts : r.seq \in Nat /\ r.seq < Cardinality(facts)
  BY CommitRows, OwnCall DEF RowInv, Numbered, StoreTypeOK, Log!Row
<1>s. \A r \in facts : r.state \in {"active", "replaced", "invalid"}
  BY DEF StoreTypeOK, Log!Row, Log!State
<1>o. PICK o : o = op[i]
  OBVIOUS
<1>p. PICK new : new = NewRow(i)
  OBVIOUS
<1>n. new.id = o.id /\ new.key = o.key /\ new.seq = Cardinality(facts)
  BY <1>0, <1>o, <1>p, NewRowFields
<1>1. \A r \in facts : \E q \in facts' : Became(i, r, q)
  BY CommitRows
<1>2. \A q \in facts' : q = new \/ \E r \in facts : Became(i, r, q)
  BY <1>p, CommitRows
<1>3. ASSUME NEW r \in facts', r.id = o.id PROVE r = new
  <2>1. ASSUME NEW u \in facts, Became(i, u, r) PROVE FALSE
    BY <1>0, <1>o, <1>3, <2>1 DEF Became, CallInv, Unwritten
  <2> QED
    BY <1>2, <2>1
<1>4. ASSUME NEW q \in Older(new)'
      PROVE  \E r \in facts : Became(i, r, q) /\ r.key = o.key
  <2>1. q \in facts' /\ q.key = new.key /\ q.seq < new.seq
    BY DEF Older
  <2>2. q # new
    BY <1>0, <1>n, <2>1
  <2>3. PICK r \in facts : Became(i, r, q)
    BY <1>2, <2>1, <2>2
  <2> QED
    BY <1>n, <2>1, <2>3 DEF Became
<1>5. ASSUME NEW r \in facts, r.key = o.key
      PROVE  \E q \in Older(new)' : Became(i, r, q)
  <2>1. PICK q \in facts' : Became(i, r, q)
    BY <1>1
  <2> QED
    BY <1>0, <1>n, <1>5, <2>1 DEF Became, Older
<1>6. CASE o.expected = NoContent
  <2>0. held[i] = NoRow
    BY <1>0, <1>o, <1>6 DEF CasInv, HeldInv, Holding
  <2>1. ASSUME NEW q \in Previous(new)' PROVE q.state = "invalid"
    <3>0. q \in Older(new)' /\ \A x \in Older(new)' : x.seq <= q.seq
      BY DEF Previous
    <3>1. PICK r \in facts : Became(i, r, q) /\ r.key = o.key
      BY <1>4, <3>0
    <3>2. r = q
      BY <2>0, <3>1, NoRowHasNone DEF Became
    <3>3. r.state # "active"
      BY <1>0, <1>o, <2>0, <3>1, NoRowHasNone, PutRetiresActive
    <3>4. r.state # "replaced"
      <4> SUFFICES ASSUME r.state = "replaced" PROVE FALSE
        OBVIOUS
      <4>1. PICK u \in facts : u.key = r.key /\ u.seq > r.seq
        BY DEF LatestInv
      <4>2. PICK x \in Older(new)' : Became(i, u, x)
        BY <1>5, <3>1, <4>1
      <4> QED
        BY <1>0, <3>0, <3>2, <4>1, <4>2 DEF Became
    <3> QED
      BY <1>s, <3>2, <3>3, <3>4
  <2> QED
    BY <1>0, <1>3, <1>6, <1>o, <2>1 DEF Follows
<1>7. CASE o.expected # NoContent
  <2>0. held[i] # NoRow /\ \E r \in facts : r.id = held[i] /\ r.content = o.expected
    BY <1>0, <1>o, <1>7 DEF CasInv, Holding
  <2>1. PICK h \in facts : /\ {r \in facts : r.id = held[i]} = {h}
                           /\ h.id = held[i] /\ h.key = op[i].key /\ h.state = "active"
    BY <1>0, <2>0, HeldRow DEF Holding
  <2>2. h.content = o.expected
    BY <2>0, <2>1
  <2>3. PICK q \in Older(new)' : Became(i, h, q)
    BY <1>5, <1>o, <2>1
  <2>4. q.content = o.expected /\ q.state = "replaced" /\ q.seq = h.seq
    BY <2>1, <2>2, <2>3 DEF Became
  <2>5. ASSUME NEW x \in Older(new)' PROVE x.seq <= q.seq
    <3>1. PICK r \in facts : Became(i, r, x) /\ r.key = o.key
      BY <1>4
    <3> QED
      BY <1>o, <2>1, <2>4, <3>1 DEF Became, LatestInv
  <2>6. q \in Previous(new)'
    BY <2>3, <2>5 DEF Previous
  <2> QED
    BY <1>0, <1>3, <1>7, <1>o, <2>4, <2>6 DEF Follows
<1> QED
  BY <1>6, <1>7

(* A compare-and-set holds the row of the version it expects, or has found *)
(* none, until it commits; and follows it afterwards.                      *)
LEMMA CasStep ==
    ASSUME StoreTypeOK, CallInv, RowInv, LatestInv, HeldInv, IndexInv, SeqInv,
           CasInv, NEW i \in Instance, Step(i)
    PROVE  CasInv'
<1> DEFINE
      Cas(j) == pc[j] # "idle" /\ op[j].kind = "put_if"
      Expects(j) ==
         IF op[j].expected = NoContent
           THEN existing[j] = NoRow
           ELSE /\ held[j] # NoRow
                /\ \E r \in facts : r.id = held[j] /\ r.content = op[j].expected
<1>0. /\ \A j \in Instance : j # i =>
            /\ pc'[j] = pc[j] /\ op'[j] = op[j] /\ held'[j] = held[j]
            /\ existing'[j] = existing[j]
      /\ facts' = facts \/ Commit(i)
  BY OneCall
<1>1. ASSUME NEW j \in Instance, j # i, Cas(j)', pc'[j] \in Holding
      PROVE  Expects(j)'
  <2>1. Expects(j)
    BY <1>0, <1>1 DEF CasInv
  <2>2. \A r \in facts : \E q \in facts' : q.id = r.id /\ q.content = r.content
    BY SeenStep
  <2> QED
    BY <1>0, <1>1, <2>1, <2>2
<1>2. ASSUME NEW j \in Instance, j # i, Cas(j)', pc'[j] = "reread"
      PROVE  Follows(op[j])'
  <2>1. Follows(op[j]) /\ op'[j] = op[j]
    BY <1>0, <1>2 DEF CasInv
  <2>2. CASE facts' = facts
    BY <2>1, <2>2 DEF Follows, Previous, Older
  <2>3. CASE Commit(i)
    <3>1. PICK o : o = op[j]
      OBVIOUS
    <3>2. o.id # op[i].id
      BY <1>0, <1>2, <2>3, <3>1 DEF CallInv, Commit
    <3>3. Follows(o)
      BY <2>1, <3>1 DEF Follows
    <3>4. Follows(o)'
      BY <2>3, <3>2, <3>3, FollowsKept
    <3> QED
      BY <2>1, <3>1, <3>4 DEF Follows
  <2> QED
    BY <1>0, <2>2, <2>3
<1>3. ASSUME Cas(i)', pc'[i] \in Holding PROVE Expects(i)'
  <2>1. CASE CompareOn(i)
    <3>0. /\ op' = op /\ facts' = facts /\ existing'[i] \in {existing[i], NoRow}
          /\ held'[i] = existing'[i] /\ pc[i] = "compare"
          /\ existing'[i] # NoRow => IsActive(existing'[i])
          /\ ContentOf(existing'[i]) = op[i].expected
      BY <2>1, OwnCall DEF CompareOn
    <3>1. CASE existing'[i] = NoRow
      <4>1. op[i].expected = NoContent
        BY <3>0, <3>1 DEF ContentOf
      <4> QED
        BY <3>0, <3>1, <4>1
    <3>2. CASE existing'[i] # NoRow
      <4>1. PICK r \in facts : r.id = existing'[i]
        BY <3>0, <3>2 DEF IsActive
      <4>2. r = CHOOSE q \in facts : q.id = existing'[i]
        BY <4>1 DEF RowInv, Numbered
      <4>3. ContentOf(existing'[i]) = r.content
        BY <3>2, <4>2 DEF ContentOf
      <4>4. r.content \in Content
        BY DEF StoreTypeOK, Log!Row
      <4> QED
        BY <3>0, <3>2, <4>1, <4>3, <4>4, FactStoreAssumption
    <3> QED
      BY <3>1, <3>2
  <2>2. CASE UpdateOn(i) \/ Insert(i) \/ IndexOn(i) \/ SeqOn(i)
    <3>1. /\ pc[i] \in Holding /\ UNCHANGED <<op, existing, facts>>
          /\ held'[i] \in {held[i], existing[i]}
      BY <2>2, OwnCall DEF UpdateOn, Insert, IndexOn, SeqOn, dbVars, Holding
    <3>2. Expects(i)
      BY <1>3, <3>1 DEF CasInv, Holding
    <3>3. op[i].expected # NoContent => held'[i] = held[i]
      BY <3>1, <3>2 DEF HeldInv
    <3> QED
      BY <3>1, <3>2, <3>3
  <2>3. ~ ReadOn(i)
    BY <1>3, OwnCall DEF Holding
  <2>4. CASE ~ CompareOn(i) /\ ~ UpdateOn(i) /\ ~ Insert(i) /\ ~ IndexOn(i) /\ ~ SeqOn(i)
    BY <1>3, <2>3, <2>4, OwnCall DEF Step, Holding
  <2> QED
    BY <2>1, <2>2, <2>4
<1>4. ASSUME Cas(i)', pc'[i] = "reread" PROVE Follows(op[i])'
  <2>1. Commit(i)
    BY <1>4, OwnCall DEF Step
  <2>2. op' = op
    BY <2>1, OwnCall
  <2> QED
    BY <1>4, <2>1, <2>2, CasCommit
<1> QED
  BY <1>1, <1>2, <1>3, <1>4 DEF CasInv

(* What a call has written stays written. *)
LEMMA WroteStep ==
    ASSUME StoreTypeOK, CallInv, RowInv, HeldInv, SeqInv, WroteInv,
           NEW i \in Instance, Step(i)
    PROVE  WroteInv'
<1> SUFFICES ASSUME NEW j \in Instance, pc'[j] = "reread"
             PROVE  \E r \in facts' :
                       IF op'[j].kind = "supersede"
                         THEN r.id = existing'[j] /\ r.by = op'[j].id
                         ELSE r.id = op'[j].id
  BY DEF WroteInv
<1>1. CASE j # i
  <2>0. pc[j] = "reread" /\ op'[j] = op[j] /\ existing'[j] = existing[j]
    BY <1>1, OneCall
  <2>1. PICK r \in facts :
            IF op[j].kind = "supersede"
              THEN r.id = existing[j] /\ r.by = op[j].id ELSE r.id = op[j].id
    BY <2>0 DEF WroteInv
  <2>2. CASE facts' = facts
    BY <2>0, <2>1, <2>2
  <2>3. CASE Commit(i) /\ op[j].kind # "supersede"
    BY <2>0, <2>1, <2>3, SeenStep
  <2>4. CASE Commit(i) /\ op[j].kind = "supersede"
    <3>1. PICK q \in facts' : Became(i, r, q)
      BY <2>4, CommitRows
    <3>2. r.by # NoRow
      BY <2>0, <2>1, <2>4 DEF CallInv, NoRow, Log!NoRow
    <3>3. r.id # held[i]
      <4> SUFFICES ASSUME r.id = held[i] PROVE FALSE
        OBVIOUS
      <4>1. held[i] # NoRow
        BY NoRowHasNone
      <4>2. r.state = "active"
        BY <2>4, <4>1, HeldRow DEF Holding, Commit
      <4> QED
        BY <3>2, <4>2 DEF RowInv
    <3> QED
      BY <2>0, <2>1, <2>4, <3>1, <3>3 DEF Became
  <2> QED
    BY <2>2, <2>3, <2>4, OneCall
<1>2. CASE j = i
  <2>1. Commit(i)
    BY <1>2, OwnCall DEF Step
  <2>2. pc[i] = "commit" /\ UNCHANGED <<op, existing>>
    BY <2>1, OwnCall
  <2>3. CASE op[i].kind # "supersede"
    <3>1. NewRow(i) \in facts' /\ NewRow(i).id = op[i].id
      BY <2>1, <2>2, <2>3, CommitRows, NewRowFields
    <3> QED
      BY <1>2, <2>2, <2>3, <3>1
  <2>4. CASE op[i].kind = "supersede"
    <3>1. held[i] # NoRow /\ held[i] = existing[i]
      BY <2>2, <2>4 DEF HeldInv, Holding
    <3>2. PICK h \in facts : h.id = held[i]
      BY <2>2, <3>1, HeldRow DEF Holding
    <3>3. PICK q \in facts' : Became(i, h, q)
      BY <2>1, CommitRows
    <3> QED
      BY <1>2, <2>2, <2>4, <3>1, <3>2, <3>3 DEF Became
  <2> QED
    BY <2>3, <2>4
<1> QED
  BY <1>1, <1>2

(* SQLite's write lock is taken by the first statement that writes, and    *)
(* kept until the transaction ends.                                        *)
LEMMA LockStep ==
    ASSUME StoreTypeOK, HeldInv, LockInv, NEW i \in Instance, Step(i)
    PROVE  LockInv'
<1>0. /\ backend' = backend
      /\ \A j \in Instance : j # i => pc'[j] = pc[j] /\ held'[j] = held[j]
  <2>1. backend' = backend
    BY DEF Step, Begin, Ends, ReadOn, CompareOn, UpdateOn, Insert, IndexOn, SeqOn,
       Commit, dbVars
  <2> QED
    BY <2>1, OneCall
<1>n. \A j \in Instance : j # Nobody
  BY FactStoreAssumption
<1>1. ASSUME CanWrite(i), TakeWrite(i), pc'[i] \in Holding \cup {"compare"}
      PROVE  LockInv'
  BY <1>0, <1>1, <1>n DEF CanWrite, TakeWrite, LockInv
<1>2. ASSUME Release(i), pc'[i] \in {"idle", "reread"} PROVE LockInv'
  <2>1. held'[i] = NoRow
    BY <1>2 DEF Release, Hold, StoreTypeOK
  <2>2. writer' = IF writer = i THEN Nobody ELSE writer
    BY <1>2 DEF Release
  <2> QED
    BY <1>0, <1>2, <1>n, <2>1, <2>2 DEF LockInv
<1>3. ASSUME UNCHANGED writer,
             backend = "sqlite" /\ (\/ pc'[i] \in {"compare", "index", "seq", "commit"}
                                   \/ held'[i] # NoRow)
                => writer = i,
             writer = i => pc'[i] \in Holding \cup {"compare"}
      PROVE  LockInv'
  BY <1>0, <1>3 DEF LockInv
<1>4. CASE \E o \in Incoming : Begin(i, o)
  <2>1. UNCHANGED <<writer, held>> /\ pc[i] = "idle" /\ pc'[i] = "read"
    BY <1>4 DEF Begin, Goto, StoreTypeOK
  <2> QED
    BY <1>3, <2>1 DEF LockInv, Holding
<1>5. CASE Ends(i)
  <2>1. Release(i) /\ pc'[i] = "idle"
    BY <1>5 DEF Ends, Finish, Goto, StoreTypeOK
  <2> QED
    BY <1>2, <2>1
<1>6. CASE ReadOn(i)
  <2>1. PICK to \in {"compare", "update", "insert"} :
            /\ Goto(i, to)
            /\ IF to = "compare" THEN CanWrite(i) /\ TakeWrite(i) ELSE UNCHANGED writer
    BY <1>6 DEF ReadOn
  <2>2. pc[i] = "read" /\ pc'[i] = to /\ held' = held
    BY <1>6, <2>1 DEF ReadOn, Goto, StoreTypeOK
  <2>3. CASE to = "compare"
    BY <1>1, <2>1, <2>2, <2>3
  <2>4. CASE to # "compare"
    BY <1>3, <2>1, <2>2, <2>4 DEF LockInv, Holding
  <2> QED
    BY <2>3, <2>4
<1>7. CASE CompareOn(i)
  <2>1. /\ pc[i] = "compare" /\ pc'[i] \in {"insert", "update"}
        /\ UNCHANGED writer
    BY <1>7 DEF CompareOn, Goto, StoreTypeOK
  <2> QED
    BY <1>3, <2>1 DEF LockInv, Holding
<1>8. CASE UpdateOn(i) \/ Insert(i)
  <2>1. /\ CanWrite(i) /\ TakeWrite(i)
        /\ pc'[i] \in {"commit", "insert", "index"}
    BY <1>8 DEF UpdateOn, Insert, Goto, StoreTypeOK
  <2> QED
    BY <1>1, <2>1 DEF Holding
<1>9. CASE IndexOn(i) \/ SeqOn(i)
  <2>1. /\ pc[i] \in {"index", "seq"} /\ pc'[i] \in {"seq", "commit"}
        /\ UNCHANGED <<writer, held>>
    BY <1>9 DEF IndexOn, SeqOn, Goto, StoreTypeOK, dbVars
  <2> QED
    BY <1>3, <2>1 DEF LockInv, Holding
<1>10. CASE Commit(i)
  <2>1. Release(i) /\ pc'[i] = "reread"
    BY <1>10 DEF Commit, Goto, StoreTypeOK
  <2> QED
    BY <1>2, <2>1
<1> QED
  BY <1>4, <1>5, <1>6, <1>7, <1>8, <1>9, <1>10 DEF Step

-----------------------------------------------------------------------------
(* The inductive invariant. *)
StoreInv ==
    /\ StoreTypeOK
    /\ CallInv
    /\ RowInv
    /\ LatestInv
    /\ HeldInv
    /\ IndexInv
    /\ SeqInv
    /\ LockInv
    /\ CasInv
    /\ WroteInv

(* An empty table, and no call. *)
LEMMA StoreStart == StoreInit => StoreInv
<1> SUFFICES ASSUME StoreInit PROVE StoreInv
  OBVIOUS
<1> USE DEF StoreInit
<1>0. NoRow \in Nat /\ Cardinality({}) = 0 /\ IsFiniteSet({})
  BY FS_EmptySet DEF NoRow, Log!NoRow
<1>1. StoreTypeOK
  BY <1>0 DEF StoreTypeOK, Statement
<1>2. CallInv
  BY FactStoreAssumption DEF CallInv
<1>3. RowInv /\ LatestInv
  BY <1>0 DEF RowInv, Numbered, LatestInv
<1>4. HeldInv
  BY DEF HeldInv, Holding
<1>5. IndexInv /\ SeqInv
  BY <1>0 DEF IndexInv, SeqInv, Indexed
<1>6. CasInv /\ WroteInv
  BY DEF CasInv, WroteInv
<1>7. LockInv
  BY FactStoreAssumption DEF LockInv
<1> QED
  BY <1>1, <1>2, <1>3, <1>4, <1>5, <1>6, <1>7 DEF StoreInv

(* Every statement of every instance keeps the invariant. *)
LEMMA StoreStep == StoreInv /\ [StoreNext]_storeVars => StoreInv'
<1> SUFFICES ASSUME StoreInv, [StoreNext]_storeVars PROVE StoreInv'
  OBVIOUS
<1>1. StoreTypeOK'
  BY TypeStep DEF StoreInv
<1>2. CASE UNCHANGED storeVars
  BY <1>1, <1>2 DEF storeVars, dbVars, StoreInv, CallInv, RowInv, LatestInv,
     HeldInv, IndexInv, SeqInv, LockInv, CasInv, WroteInv, Indexed, IsActive, ActiveRow,
     Follows, Previous, Older
<1>3. CASE StoreNext
  <2>1. PICK i \in Instance : Step(i)
    BY <1>3, StepCases DEF StoreInv
  <2>2. CallInv' /\ RowInv' /\ HeldInv'
    BY <2>1, CallStep, RowStep, HeldStep DEF StoreInv
  <2>3. LatestInv' /\ IndexInv' /\ SeqInv'
    BY <2>1, LatestStep, IndexStep, SeqStep DEF StoreInv
  <2>4. CasInv' /\ WroteInv'
    BY <2>1, CasStep, WroteStep DEF StoreInv
  <2>5. LockInv'
    BY <2>1, LockStep DEF StoreInv
  <2> QED
    BY <1>1, <2>2, <2>3, <2>4, <2>5 DEF StoreInv
<1> QED
  BY <1>2, <1>3

(* The invariant holds in every state of the store. *)
THEOREM StoreSafe == StoreSpec => []StoreInv
BY StoreStart, StoreStep, PTL DEF StoreSpec

(* Rows, calls and locks are what the schema says (sqlite.py, postgres.py). *)
THEOREM StoreTyped == StoreSpec => []StoreTypeOK
<1>1. StoreInv => StoreTypeOK
  BY DEF StoreInv
<1> QED
  BY <1>1, StoreSafe, PTL

(* An answer is given by the step that ends the call, and is true of the   *)
(* rows that are there then.                                               *)
LEMMA AnswerStep ==
    ASSUME StoreInv, AnswersAreTrue, CasNoLostUpdate, [StoreNext]_storeVars
    PROVE  AnswersAreTrue' /\ CasNoLostUpdate'
<1>1. CASE UNCHANGED storeVars
  BY <1>1 DEF storeVars, dbVars, AnswersAreTrue, CasNoLostUpdate, Previous, Older
<1>2. CASE answer' = NoAnswer
  BY <1>2 DEF AnswersAreTrue, CasNoLostUpdate
<1>3. ASSUME NEW i \in Instance, Ends(i) PROVE AnswersAreTrue' /\ CasNoLostUpdate'
  <2>1. PICK ret \in Ret, got \in Nat :
            /\ Finish(i, ret, got)
            /\ ret = "row" =>
                  /\ pc[i] = "reread"
                  /\ op[i].kind = "supersede" => got = existing[i]
            /\ ret \in {"none", "conflict", "raised"} => pc[i] \in Unwritten
    BY <1>3 DEF Ends
  <2>2. PICK o : o = op[i]
    OBVIOUS
  <2>3. /\ facts' = facts
        /\ answer'.op = o /\ answer'.ret = ret /\ answer'.got = got
    BY <1>3, <2>1, <2>2 DEF Ends, Finish
  <2>4. pc[i] \in Unwritten \/ pc[i] = "reread"
    BY <1>3 DEF Ends, StoreInv, StoreTypeOK, Statement, Unwritten
  <2>5. pc[i] \in Unwritten => \A r \in facts : o.id # r.id /\ o.id # r.by
    BY <1>3, <2>2 DEF Ends, StoreInv, CallInv
  <2>6. pc[i] = "reread" =>
           \E r \in facts : IF o.kind = "supersede"
                              THEN r.id = existing[i] /\ r.by = o.id
                              ELSE r.id = o.id
    BY <2>2 DEF StoreInv, WroteInv
  <2>7. AnswersAreTrue'
    <3>1. ret = "row" => \E r \in facts : o.id \in {r.id, r.by}
      BY <2>1, <2>6
    <3>2. ret \in {"none", "conflict", "raised"} =>
             ~ \E r \in facts : o.id \in {r.id, r.by}
      BY <2>1, <2>5
    <3>3. ret = "row" /\ o.kind = "supersede" =>
             \E r \in facts : r.id = got /\ r.by = o.id
      BY <2>1, <2>2, <2>6
    <3> QED
      BY <2>3, <3>1, <3>2, <3>3 DEF AnswersAreTrue
  <2>8. CasNoLostUpdate'
    <3>1. o.kind = "put_if" => Follows(o)
      BY <2>2, <2>4, <2>5 DEF StoreInv, CasInv, Follows
    <3> QED
      BY <2>3, <3>1 DEF CasNoLostUpdate, Follows, Previous, Older
  <2> QED
    BY <2>7, <2>8
<1>4. CASE StoreNext
  <2>1. PICK i \in Instance : Step(i)
    BY <1>4, StepCases DEF StoreInv
  <2>2. answer' = NoAnswer \/ Ends(i)
    BY <2>1 DEF Step, Begin, ReadOn, CompareOn, UpdateOn, Insert, IndexOn, SeqOn,
       Commit, Silent
  <2> QED
    BY <1>2, <1>3, <2>2
<1> QED
  BY <1>1, <1>4

(* Before the first call nobody was answered. *)
LEMMA AnswerStart == StoreInit => AnswersAreTrue /\ CasNoLostUpdate
BY DEF StoreInit, AnswersAreTrue, CasNoLostUpdate

(* A caller is told the truth about what it has written, on both backends  *)
(* (sqlite.py and postgres.py: put_fact, put_fact_if, supersede).          *)
THEOREM StoreAnswersTrue == StoreSpec => []AnswersAreTrue
<1>1. StoreInv /\ AnswersAreTrue /\ CasNoLostUpdate /\ [StoreNext]_storeVars
        => AnswersAreTrue' /\ CasNoLostUpdate'
  BY AnswerStep
<1> QED
  BY <1>1, AnswerStart, StoreSafe, PTL DEF StoreSpec

(* Compare-and-set loses no update, on both backends (put_fact_if). *)
THEOREM StoreCasExact == StoreSpec => []CasNoLostUpdate
<1>1. StoreInv /\ AnswersAreTrue /\ CasNoLostUpdate /\ [StoreNext]_storeVars
        => AnswersAreTrue' /\ CasNoLostUpdate'
  BY AnswerStep
<1> QED
  BY <1>1, AnswerStart, StoreSafe, PTL DEF StoreSpec

-----------------------------------------------------------------------------
(* A key has at most one active row. *)
LEMMA ActiveUnique ==
    ASSUME StoreTypeOK, RowInv, LatestInv, NEW r \in facts, NEW q \in facts,
           r.key = q.key, r.state = "active", q.state = "active"
    PROVE  r = q
<1>1. r.seq <= q.seq /\ q.seq <= r.seq /\ r.seq \in Nat /\ q.seq \in Nat
  BY DEF LatestInv, StoreTypeOK, Log!Row
<1>2. r.seq = q.seq
  BY <1>1
<1> QED
  BY <1>2 DEF RowInv, Numbered

(* On SQLite the transaction that has the write lock waits for nobody, and *)
(* while nobody has it nobody holds a row or an index entry.               *)
LEMMA SQLiteProceeds ==
    ASSUME StoreInv, backend = "sqlite", NEW a \in Instance, pc[a] # "idle"
    PROVE  \E i \in Instance : pc[i] # "idle" /\ ~ Waits(i)
<1> USE DEF StoreInv
<1>1. ASSUME NEW i \in Instance, writer \in {Nobody, i} PROVE ~ Waits(i)
  <2>0. \A j \in Others(i) :
           held[j] = NoRow /\ pc[j] \notin {"compare", "index", "seq", "commit"}
    BY <1>1, FactStoreAssumption DEF LockInv, Others
  <2>1. CanWrite(i)
    BY <1>1 DEF CanWrite
  <2>2. RowFree(i, existing[i])
    BY <2>0 DEF RowFree
  <2>3. KeyFree(i)
    BY <2>0, NoRowHasNone DEF KeyFree, ActiveRow
  <2>4. SeqFree(i)
    BY <2>0 DEF SeqFree
  <2> QED
    BY <2>1, <2>2, <2>3, <2>4 DEF Waits
<1>2. CASE writer = Nobody
  BY <1>1, <1>2
<1>3. CASE writer # Nobody
  <2>1. writer \in Instance /\ pc[writer] \in Holding \cup {"compare"}
    BY <1>3 DEF StoreTypeOK, LockInv
  <2> QED
    BY <1>1, <2>1 DEF Holding
<1> QED
  BY <1>2, <1>3

(* On PostgreSQL a call waits only for one that is further on, or for the  *)
(* holder of a row, who does not wait for that row itself.                 *)
LEMMA PostgresProceeds ==
    ASSUME StoreInv, backend # "sqlite", NEW a \in Instance, pc[a] # "idle"
    PROVE  \E i \in Instance : pc[i] # "idle" /\ ~ Waits(i)
<1> USE DEF StoreInv
<1> SUFFICES ASSUME \A i \in Instance : pc[i] # "idle" => Waits(i) PROVE FALSE
  OBVIOUS
<1>0. ASSUME NEW i \in Instance
      PROVE  \/ pc[i] = "idle"
             \/ pc[i] \in {"compare", "update"} /\ ~ RowFree(i, existing[i])
             \/ pc[i] = "index" /\ ~ KeyFree(i)
             \/ pc[i] = "seq" /\ ~ SeqFree(i)
  BY DEF Waits, CanWrite
<1>1. ASSUME NEW i \in Instance PROVE pc[i] # "seq"
  BY <1>0 DEF SeqFree, Others
<1>2. ASSUME NEW i \in Instance, ~ KeyFree(i), pc[i] = "index"
      PROVE  \E j \in Instance, r \in ActiveRow(op[i].key) :
                j # i /\ held[j] = r.id /\ pc[j] = "index"
  <2>1. PICK r \in ActiveRow(op[i].key), j \in Others(i) :
            held[j] = r.id /\ pc[j] # "update"
    BY <1>0, <1>1, <1>2 DEF KeyFree, Others
  <2>2. held[j] # NoRow /\ j \in Instance /\ j # i
    BY <2>1, NoRowHasNone DEF ActiveRow, Others
  <2>3. pc[j] \in Holding
    BY <2>2 DEF HeldInv
  <2> QED
    BY <1>0, <1>1, <2>1, <2>2, <2>3 DEF Holding
<1>3. ASSUME NEW i \in Instance PROVE pc[i] # "index"
  <2> SUFFICES ASSUME pc[i] = "index" PROVE FALSE
    OBVIOUS
  <2>1. PICK j \in Instance, r \in ActiveRow(op[i].key) :
            j # i /\ held[j] = r.id /\ pc[j] = "index"
    BY <1>0, <1>2
  <2>2. PICK k \in Instance, q \in ActiveRow(op[j].key) :
            k # j /\ held[k] = q.id /\ pc[k] = "index"
    BY <1>0, <1>2, <2>1
  <2>3. held[j] # NoRow
    BY <2>1, NoRowHasNone DEF ActiveRow
  <2>4. PICK h \in facts :
            h.id = held[j] /\ h.key = op[j].key /\ h.state = "active"
    BY <2>1, <2>3, HeldRow DEF Holding
  <2>5. q = h
    BY <2>2, <2>4, ActiveUnique DEF ActiveRow
  <2> QED
    BY <2>2, <2>3, <2>4, <2>5 DEF HeldInv
<1>4. ASSUME NEW i \in Instance, ~ RowFree(i, existing[i])
      PROVE  \E j \in Instance : j # i /\ held[j] = existing[i] /\ held[j] # NoRow
  BY <1>4 DEF RowFree, Others
<1>5. ASSUME NEW j \in Instance, held[j] # NoRow PROVE FALSE
  <2>1. pc[j] \in Holding /\ held[j] = existing[j]
    BY <1>5 DEF HeldInv
  <2>2. ~ RowFree(j, existing[j])
    BY <1>0, <1>1, <1>3, <2>1 DEF Holding
  <2> QED
    BY <1>4, <1>5, <2>1, <2>2 DEF HeldInv
<1> QED
  BY <1>0, <1>1, <1>3, <1>4, <1>5

(* The statements of the calls never wait for each other in a circle, on   *)
(* both backends, whatever the instances, keys and calls (the order in     *)
(* which put_fact, put_fact_if and supersede take their locks).            *)
THEOREM StoreNoWaitCycle == StoreSpec => []NoWaitCycle
<1>1. StoreInv => NoWaitCycle
  BY SQLiteProceeds, PostgresProceeds DEF NoWaitCycle
<1> QED
  BY <1>1, StoreSafe, PTL

(* The order of the statements of a call. *)
Place(statement) ==
    CASE statement = "read" -> 1  [] statement = "compare" -> 2
      [] statement = "update" -> 3 [] statement = "insert" -> 4
      [] statement = "index" -> 5 [] statement = "seq" -> 6
      [] statement = "commit" -> 7 [] statement = "reread" -> 8
      [] statement = "idle" -> 9

(* A step begins a call or takes one call further. *)
StoreForward ==
    \E i \in Instance :
        /\ \/ pc[i] = "idle" /\ pc'[i] = "read" /\ drawn' = drawn + 1
           \/ Place(pc[i]) < Place(pc'[i]) /\ drawn' = drawn
        /\ \A j \in Instance : j # i => pc'[j] = pc[j]

(* No statement is repeated and no method retries (sqlite.py, postgres.py: *)
(* put_fact, put_fact_if, supersede), so that a call has at most eight     *)
(* steps.  With StoreNoWaitCycle: the calls that were made end, if         *)
(* whatever statement can be executed is.                                  *)
THEOREM StoreGoesOn == StoreSpec => [][StoreForward]_storeVars
<1>1. StoreInv /\ [StoreNext]_storeVars => [StoreForward]_storeVars
  <2> SUFFICES ASSUME StoreInv, StoreNext PROVE StoreForward
    OBVIOUS
  <2>0. StoreTypeOK /\ CallInv
    BY DEF StoreInv
  <2>1. PICK i \in Instance : Step(i)
    BY <2>0, StepCases
  <2>2. \A j \in Instance : j # i => pc'[j] = pc[j]
    BY <2>0, <2>1, OneCall
  <2>3. CASE \E o \in Incoming : Begin(i, o)
    BY <2>0, <2>2, <2>3 DEF Begin, Goto, StoreTypeOK, StoreForward
  <2>4. CASE ~ \E o \in Incoming : Begin(i, o)
    <3>1. Place(pc[i]) < Place(pc'[i]) /\ drawn' = drawn
      <4> USE <2>0 DEF Goto, StoreTypeOK, Place
      <4>1. CASE Ends(i)
        BY <4>1 DEF Ends, Finish, Statement
      <4>2. CASE ReadOn(i) \/ CompareOn(i)
        BY <4>2 DEF ReadOn, CompareOn
      <4>3. CASE UpdateOn(i) \/ Insert(i)
        BY <4>3 DEF UpdateOn, Insert
      <4>4. CASE IndexOn(i) \/ SeqOn(i) \/ Commit(i)
        BY <4>4 DEF IndexOn, SeqOn, Commit, dbVars
      <4> QED
        BY <2>1, <2>4, <4>1, <4>2, <4>3, <4>4 DEF Step
    <3> QED
      BY <2>2, <3>1 DEF StoreForward
  <2> QED
    BY <2>3, <2>4
<1> QED
  BY <1>1, StoreSafe, PTL DEF StoreSpec

-----------------------------------------------------------------------------
(* A commit is one step of the promised table, and no other step touches   *)
(* it.                                                                     *)
LEMMA StoreStepIsLogStep ==
    StoreInv /\ [StoreNext]_storeVars => [Log!Next]_facts
<1> SUFFICES ASSUME StoreInv, StoreNext, facts' # facts PROVE Log!Next
  BY DEF storeVars, dbVars
<1> USE DEF StoreInv
<1>1. PICK i \in Instance : Commit(i)
  BY StepCases, OneCall
<1>2. /\ pc[i] = "commit" /\ op[i] \in Op /\ op[i].id \in 1 .. drawn
      /\ drawn <= MaxCalls /\ drawn \in Nat
  BY <1>1 DEF Commit, CallInv, StoreTypeOK
<1>3. op[i].id \in 1 .. MaxCalls
  BY <1>2, FactStoreAssumption
<1>4. CASE op[i].kind = "supersede"
  <2>1. held[i] # NoRow
    BY <1>2, <1>4 DEF HeldInv, Holding
  <2>2. PICK h \in facts : /\ {r \in facts : r.id = held[i]} = {h}
                           /\ h.state = "active"
    BY <1>2, <2>1, HeldRow DEF Holding
  <2>3. facts' = (facts \ {h}) \cup {Log!Retired(h, "invalid", op[i].id)}
    BY <1>1, <1>4, <2>2 DEF Commit
  <2>4. Log!Invalidate(h, op[i].id)
    BY <2>2, <2>3 DEF Log!Invalidate
  <2> QED
    BY <1>3, <2>4 DEF Log!Next
<1>5. CASE op[i].kind # "supersede"
  <2> DEFINE k == op[i].key
             old == {r \in facts : r.id = held[i]}
  <2>1. old = Log!ActiveRows(k)
    <3>1. \A r \in Log!ActiveRows(k) : r \in old
      BY <1>2, <1>5, PutRetiresActive DEF Log!ActiveRows
    <3>2. CASE held[i] = NoRow
      BY <3>1, <3>2, NoRowHasNone DEF Log!ActiveRows
    <3>3. CASE held[i] # NoRow
      <4>1. PICK h \in facts : old = {h} /\ h.key = k /\ h.state = "active"
        BY <1>2, <3>3, HeldRow DEF Holding
      <4> QED
        BY <3>1, <4>1 DEF Log!ActiveRows
    <3> QED
      BY <3>2, <3>3
  <2>2. /\ op[i].content \in Content /\ k \in Key /\ seqno[i] = Cardinality(facts)
    BY <1>2, <1>5, NewRowFields DEF Op, SeqInv, Indexed
  <2>3. facts' = (facts \ old)
                    \cup {Log!Retired(r, "replaced", NoRow) : r \in old}
                    \cup {NewRow(i)}
    BY <1>1, <1>5 DEF Commit
  <2>4. \A r \in facts : r.id # op[i].id
    BY <1>2 DEF CallInv, Unwritten
  <2>5. Log!Put(k, op[i].content, op[i].id)
    <3>1. facts' = (facts \ Log!ActiveRows(k))
                      \cup {Log!Retired(r, "replaced", NoRow) : r \in Log!ActiveRows(k)}
                      \cup {NewRow(i)}
      BY <2>1, <2>3, Zenon
    <3>2. NewRow(i) = [id |-> op[i].id, key |-> k, content |-> op[i].content,
                       seq |-> Cardinality(facts), state |-> "active",
                       by |-> Log!NoRow]
      BY <2>2, Zenon DEF NewRow, NoRow
    <3>3. Log!Cardinality(facts) = Cardinality(facts)
      BY Zenon DEF Log!Cardinality, Cardinality
    <3> QED
      BY <2>4, <3>1, <3>2, <3>3, Zenon DEF Log!Put, NoRow
  <2> QED
    BY <1>3, <2>2, <2>5 DEF Log!Next
<1> QED
  BY <1>4, <1>5

(* Both backends implement the promised table: rows are only added, in     *)
(* recorded order and numbered without gaps, at most one is active per     *)
(* key, and a row is retired once.                                         *)
THEOREM StoreImplementsLog == StoreSpec => ImplementsFactLog
<1>1. StoreInit => Log!Init
  BY DEF StoreInit, Log!Init
<1> QED
  BY <1>1, StoreSafe, StoreStepIsLogStep, PTL DEF StoreSpec, Log!Spec, ImplementsFactLog
-----------------------------------------------------------------------------
(* What the users of the store rely on.  The table of active rows that     *)
(* list_active and get_active show, and the writes of Drift on it.         *)
OneActive(rows) ==
    \A r, q \in rows :
        r.key = q.key /\ r.state = "active" /\ q.state = "active" => r = q

TableOf(rows) ==
    [k \in {r.key : r \in {q \in rows : q.state = "active"}} |->
        (CHOOSE r \in rows : r.key = k /\ r.state = "active").content]

Stored(table, k, v) ==
    [j \in DOMAIN table \cup {k} |-> IF j = k THEN v ELSE table[j]]

Without(table, k) == [j \in DOMAIN table \ {k} |-> table[j]]

(* What a call makes of the table when it commits. *)
Effect(o, table) ==
    IF o.kind = "supersede" THEN Without(table, o.key)
                            ELSE Stored(table, o.key, o.content)

(* A step shows the whole effect of one call, or none. *)
TableStep ==
    \/ TableOf(facts') = TableOf(facts)
    \/ \E i \in Instance :
          /\ pc[i] = "commit"
          /\ op[i].kind = "supersede" => op[i].key \in DOMAIN TableOf(facts)
          /\ TableOf(facts') = Effect(op[i], TableOf(facts))

(* No step changes what a row says, or anything of a row that is no longer *)
(* active.                                                                 *)
HistoryStep ==
    \A r \in facts : \E q \in facts' :
        /\ q.id = r.id /\ q.key = r.key /\ q.content = r.content /\ q.seq = r.seq
        /\ r.state # "active" => q = r

(* The entries of the table are the active rows. *)
LEMMA TableEntries ==
    ASSUME NEW rows, OneActive(rows)
    PROVE  /\ \A r \in rows : r.state = "active" =>
                 r.key \in DOMAIN TableOf(rows) /\ TableOf(rows)[r.key] = r.content
           /\ \A k \in DOMAIN TableOf(rows) :
                 \E r \in rows : r.key = k /\ r.state = "active"
<1>1. ASSUME NEW r \in rows, r.state = "active"
      PROVE  r.key \in DOMAIN TableOf(rows) /\ TableOf(rows)[r.key] = r.content
  <2>1. r.key \in DOMAIN TableOf(rows)
    BY <1>1 DEF TableOf
  <2>2. r = CHOOSE q \in rows : q.key = r.key /\ q.state = "active"
    BY <1>1 DEF OneActive
  <2> QED
    BY <2>1, <2>2 DEF TableOf
<1>2. ASSUME NEW k \in DOMAIN TableOf(rows)
      PROVE  \E r \in rows : r.key = k /\ r.state = "active"
  BY DEF TableOf
<1> QED
  BY <1>1, <1>2

(* A table is known by its domain and its entries. *)
LEMMA TableIs ==
    ASSUME NEW rows, NEW t, t = [k \in DOMAIN t |-> t[k]],
           DOMAIN TableOf(rows) = DOMAIN t,
           \A k \in DOMAIN t : TableOf(rows)[k] = t[k]
    PROVE  TableOf(rows) = t
BY DEF TableOf

(* A call changes the table in one step, at its commit. *)
LEMMA CommitTable ==
    ASSUME StoreInv, OneActive(facts), OneActive(facts'), NEW i \in Instance, Commit(i)
    PROVE  /\ op[i].kind = "supersede" => op[i].key \in DOMAIN TableOf(facts)
           /\ TableOf(facts') = Effect(op[i], TableOf(facts))
<1> USE DEF StoreInv
<1> DEFINE before == TableOf(facts)
           after == TableOf(facts')
           k == op[i].key
<1>0. pc[i] = "commit"
  BY DEF Commit
<1>1. \A r \in facts : \E q \in facts' : Became(i, r, q)
  BY CommitRows
<1>2. \A q \in facts' : \/ op[i].kind # "supersede" /\ q = NewRow(i)
                        \/ \E r \in facts : Became(i, r, q)
  BY CommitRows
<1>3. ASSUME NEW r \in facts, r.state = "active"
      PROVE  r.key \in DOMAIN before /\ before[r.key] = r.content
  BY <1>3, TableEntries
<1>4. ASSUME NEW q \in facts', q.state = "active"
      PROVE  q.key \in DOMAIN after /\ after[q.key] = q.content
  BY <1>4, TableEntries
<1>5. ASSUME NEW j \in DOMAIN before
      PROVE  \E r \in facts : r.key = j /\ r.state = "active"
  BY TableEntries
<1>6. ASSUME NEW j \in DOMAIN after
      PROVE  \E q \in facts' : q.key = j /\ q.state = "active"
  BY TableEntries
<1>7. ASSUME NEW r \in facts, r.state = "active", r.key = k PROVE r.id = held[i]
  <2>1. CASE op[i].kind # "supersede"
    BY <1>0, <1>7, <2>1, PutRetiresActive
  <2>2. CASE op[i].kind = "supersede"
    <3>1. held[i] # NoRow
      BY <1>0, <2>2 DEF HeldInv, Holding
    <3>2. PICK h \in facts : h.id = held[i] /\ h.key = k /\ h.state = "active"
      BY <1>0, <3>1, HeldRow DEF Holding
    <3> QED
      BY <1>7, <3>2 DEF OneActive
  <2> QED
    BY <2>1, <2>2
<1>8. ASSUME NEW r \in facts, r.id = held[i] PROVE r.key = k
  <2>1. held[i] # NoRow
    BY <1>8, NoRowHasNone
  <2> QED
    BY <1>0, <1>8, <2>1, HeldRow DEF Holding
<1>9. ASSUME NEW j, j # k
      PROVE  /\ j \in DOMAIN before <=> j \in DOMAIN after
             /\ j \in DOMAIN before => after[j] = before[j]
  <2>1. ASSUME NEW r \in facts, r.key = j PROVE r \in facts'
    <3>1. r.id # held[i]
      BY <1>8, <1>9, <2>1
    <3> QED
      BY <1>1, <3>1 DEF Became
  <2>2. ASSUME NEW q \in facts', q.key = j PROVE q \in facts
    <3>1. PICK r \in facts : Became(i, r, q)
      BY <1>0, <1>2, <1>9, <2>2, NewRowFields
    <3>2. r.id # held[i]
      BY <1>8, <1>9, <2>2, <3>1 DEF Became
    <3> QED
      BY <3>1, <3>2 DEF Became
  <2>3. ASSUME j \in DOMAIN before PROVE j \in DOMAIN after /\ after[j] = before[j]
    <3>1. PICK r \in facts : r.key = j /\ r.state = "active"
      BY <1>5, <2>3
    <3>2. r \in facts'
      BY <2>1, <3>1
    <3> QED
      BY <1>3, <1>4, <3>1, <3>2
  <2>4. ASSUME j \in DOMAIN after PROVE j \in DOMAIN before
    BY <1>3, <1>6, <2>2, <2>4
  <2> QED
    BY <2>3, <2>4
<1> HIDE DEF before, after
<1>10. CASE op[i].kind = "supersede"
  <2>1. held[i] # NoRow
    BY <1>0, <1>10 DEF HeldInv, Holding
  <2>2. PICK h \in facts : h.id = held[i] /\ h.key = k /\ h.state = "active"
    BY <1>0, <2>1, HeldRow DEF Holding
  <2>3. k \in DOMAIN before
    BY <1>3, <2>2
  <2>4. k \notin DOMAIN after
    <3> SUFFICES ASSUME NEW q \in facts', q.key = k, q.state = "active" PROVE FALSE
      BY <1>6
    <3>1. PICK r \in facts : Became(i, r, q)
      BY <1>2, <1>10
    <3>2. r.id # held[i]
      BY <1>10, <3>1 DEF Became
    <3> QED
      BY <1>7, <3>1, <3>2 DEF Became
  <2>5. DOMAIN after = DOMAIN before \ {k}
    BY <1>9, <2>4
  <2>6. after = Without(before, k)
    <3>1. DOMAIN after = DOMAIN Without(before, k)
      BY <2>5 DEF Without
    <3>2. \A j \in DOMAIN Without(before, k) : after[j] = Without(before, k)[j]
      BY <1>9 DEF Without
    <3>3. Without(before, k) = [j \in DOMAIN Without(before, k) |-> Without(before, k)[j]]
      BY DEF Without
    <3> QED
      BY <3>1, <3>2, <3>3, TableIs DEF after
  <2> QED
    BY <1>10, <2>3, <2>6 DEF Effect, before, after
<1>11. CASE op[i].kind # "supersede"
  <2>1. /\ NewRow(i) \in facts' /\ NewRow(i).key = k
        /\ NewRow(i).content = op[i].content /\ NewRow(i).state = "active"
    BY <1>0, <1>11, CommitRows, NewRowFields
  <2>2. k \in DOMAIN after /\ after[k] = op[i].content
    BY <1>4, <2>1
  <2>3. DOMAIN after = DOMAIN before \cup {k}
    BY <1>9, <2>2
  <2> DEFINE new == Stored(before, k, op[i].content)
  <2>4. DOMAIN after = DOMAIN new
    BY <2>3 DEF Stored
  <2>5. \A j \in DOMAIN new : after[j] = new[j]
    BY <1>9, <2>2 DEF Stored
  <2>6. new = [j \in DOMAIN new |-> new[j]]
    BY DEF Stored
  <2>7. after = new
    <3> HIDE DEF new
    <3> QED
      BY <2>4, <2>5, <2>6, TableIs DEF after
  <2> QED
    BY <1>11, <2>7 DEF Effect, before, after
<1> QED
  BY <1>10, <1>11

(* A key has at most one active row: the unique index on active rows, and  *)
(* the row locks, keep it so between any two statements.                   *)
THEOREM StoreOneActive == StoreSpec => []OneActive(facts)
<1>1. StoreInv => OneActive(facts)
  BY ActiveUnique DEF StoreInv, OneActive
<1> QED
  BY <1>1, StoreSafe, PTL

(* put_fact, put_fact_if and supersede are atomic to who reads the active  *)
(* rows (list_active in drift_scan): each takes its whole effect in the    *)
(* step in which it commits, and no other step has one.                    *)
THEOREM StoreCallsAtomic == StoreSpec => [][TableStep]_storeVars
<1>1. StoreInv /\ StoreInv' /\ [StoreNext]_storeVars => [TableStep]_storeVars
  <2> SUFFICES ASSUME StoreInv, StoreInv', StoreNext PROVE TableStep
    OBVIOUS
  <2>1. OneActive(facts)
    BY ActiveUnique DEF StoreInv, OneActive
  <2>2. OneActive(facts')
    <3> SUFFICES ASSUME NEW r \in facts', NEW q \in facts', r.key = q.key,
                        r.state = "active", q.state = "active"
                 PROVE  r = q
      BY DEF OneActive
    <3>1. r.seq <= q.seq /\ q.seq <= r.seq /\ r.seq \in Nat /\ q.seq \in Nat
      BY DEF StoreInv, LatestInv, StoreTypeOK, Log!Row
    <3>2. r.seq = q.seq
      BY <3>1
    <3> QED
      BY <3>2 DEF StoreInv, RowInv, Numbered
  <2>3. PICK i \in Instance : Step(i)
    BY StepCases DEF StoreInv
  <2>4. CASE facts' = facts
    BY <2>4 DEF TableStep
  <2>5. CASE Commit(i)
    BY <2>1, <2>2, <2>5, CommitTable DEF TableStep, Commit
  <2> QED
    BY <2>3, <2>4, <2>5, OneCall DEF StoreInv
<1> QED
  BY <1>1, StoreSafe, PTL DEF StoreSpec

(* The table is append-only (the triggers of the schema, SEC-10): a row    *)
(* keeps its id, key, content and seq, and once it was superseded          *)
(* everything, in whatever transaction and whatever is rolled back.        *)
THEOREM StoreHistoryKept == StoreSpec => [][HistoryStep]_storeVars
<1>1. StoreInv /\ StoreInv' /\ [StoreNext]_storeVars => [HistoryStep]_storeVars
  <2> SUFFICES ASSUME StoreInv, StoreInv', StoreNext PROVE HistoryStep
    OBVIOUS
  <2>1. PICK i \in Instance : Step(i)
    BY StepCases DEF StoreInv
  <2> SUFFICES ASSUME NEW r \in facts
               PROVE  \E q \in facts' :
                         /\ q.id = r.id /\ q.key = r.key
                         /\ q.content = r.content /\ q.seq = r.seq
                         /\ r.state # "active" => q = r
    BY DEF HistoryStep
  <2>2. CASE r.state = "active"
    BY <2>1, <2>2, SeenStep DEF StoreInv
  <2>3. CASE r.state # "active"
    BY <2>1, <2>3, SeenStep DEF StoreInv
  <2> QED
    BY <2>2, <2>3
<1> QED
  BY <1>1, StoreSafe, PTL DEF StoreSpec
=============================================================================
