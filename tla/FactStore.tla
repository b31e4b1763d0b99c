----------------------------- MODULE FactStore -----------------------------
(***************************************************************************)
(* The fact store (store/sqlite.py, store/postgres.py): several store      *)
(* instances, each with a connection of its own, on one database.  The     *)
(* instance's RLock is held for a whole method, so an instance is one      *)
(* process of the model; the database sees the statements of different     *)
(* instances interleaved.                                                  *)
(*                                                                         *)
(* The two backends issue the same statements.  They differ in how a       *)
(* transaction excludes the others: SQLite has one write lock, taken by    *)
(* the first statement that writes (BEGIN IMMEDIATE in put_fact_if) and    *)
(* waited for with a timeout; PostgreSQL locks rows and waits on the       *)
(* uncommitted entries of a unique index.  Readers see committed rows.     *)
(* put_edge is put_fact on a table of the same shape.                      *)
(***************************************************************************)
EXTENDS Integers, FiniteSets, FiniteSetsExt

CONSTANTS
    Instance,       \* the store instances on the database
    Key,            \* (subject, predicate, fact_type)
    Content,        \* what content_hash covers, beside the key
    Backends,       \* of "sqlite" and "postgres"
    MaxCalls        \* bound: the calls of a behaviour

NoContent == "absent"       \* expected_version None
Nobody == "nobody"          \* no instance has the write lock

ASSUME FactStoreAssumption ==
    /\ NoContent \notin Content     \* a content_hash is never None
    /\ Nobody \notin Instance
    /\ Backends \subseteq {"sqlite", "postgres"}
    /\ MaxCalls \in Nat

VARIABLES
    backend,    \* the backend of this deployment
    facts,      \* the committed rows
    pc,         \* pc[i]: the statement that instance i issues next
    op,         \* op[i]: the call it serves
    existing,   \* existing[i]: the fact_id it read as active
    seqno,      \* seqno[i]: the seq its INSERT computed
    held,       \* held[i]: the row its transaction has locked or updated
    writer,     \* SQLite: who has the write lock
    drawn       \* the number of calls made; also draws the fact_ids

VARIABLE answer     \* history: the call that ended in the last step, and how

dbVars == <<backend, facts, held, writer, drawn>>
storeVars == <<dbVars, pc, op, existing, seqno, answer>>

Log == INSTANCE FactLog

NoRow == Log!NoRow

Kind == {"put", "put_if", "supersede"}

Op == [kind : Kind, key : Key, content : Content \cup {NoContent},
       expected : Content \cup {NoContent}, id : Nat]

NoOp == [id |-> 0]          \* no call is being served

Statement == {"idle", "read", "compare", "update", "insert", "index", "seq",
              "commit", "reread"}

(* How a call ends: with a row, with None, with VersionConflict, with      *)
(* another exception, with one after its COMMIT took effect, with the      *)
(* RuntimeError of its last check, or with the end of its process.         *)
Ret == {"row", "none", "conflict", "raised", "unsure", "invariant", "lost"}

NoAnswer == [op |-> NoOp, ret |-> "none", got |-> NoRow]

StoreTypeOK ==
    /\ backend \in Backends
    /\ facts \subseteq Log!Row
    /\ pc \in [Instance -> Statement]
    /\ op \in [Instance -> Op \cup {NoOp}]
    /\ existing \in [Instance -> Nat]
    /\ seqno \in [Instance -> Nat]
    /\ held \in [Instance -> Nat]
    /\ writer \in Instance \cup {Nobody}
    /\ drawn \in Nat
    /\ answer \in [op : Op, ret : Ret, got : Nat] \cup {NoAnswer}

StoreInit ==
    /\ backend \in Backends
    /\ facts = {}
    /\ pc = [i \in Instance |-> "idle"]
    /\ op = [i \in Instance |-> NoOp]
    /\ existing = [i \in Instance |-> NoRow]
    /\ seqno = [i \in Instance |-> 0]
    /\ held = [i \in Instance |-> NoRow]
    /\ writer = Nobody
    /\ drawn = 0
    /\ answer = NoAnswer

-----------------------------------------------------------------------------
(* get_active: the committed active row of a key. *)
ActiveRow(k) == {r \in facts : r.key = k /\ r.state = "active"}

ActiveId(k) ==
    IF ActiveRow(k) = {} THEN NoRow ELSE (CHOOSE r \in ActiveRow(k) : TRUE).id

IsActive(id) == \E r \in facts : r.id = id /\ r.state = "active"

ContentOf(id) ==
    IF id = NoRow THEN NoContent ELSE (CHOOSE r \in facts : r.id = id).content

(* No call ends in this step. *)
Silent == answer' = NoAnswer

Goto(i, statement) == pc' = [pc EXCEPT ![i] = statement]

Others(i) == Instance \ {i}

(* The locks.  The next statement of an instance may need SQLite's write   *)
(* lock: it updates, inserts, or is BEGIN IMMEDIATE.                       *)
NeedsWrite(i) ==
    \/ pc[i] \in {"update", "insert"}
    \/ pc[i] = "read" /\ op[i].kind = "put_if"

CanWrite(i) == backend = "sqlite" => writer \in {Nobody, i}

TakeWrite(i) == writer' = IF backend = "sqlite" THEN i ELSE writer

RowFree(i, id) == \A j \in Others(i) : id # NoRow => held[j] # id

Hold(i, id) == held' = [held EXCEPT ![i] = id]

(* Mutant: the write lock survives the transaction. *)
ReleaseRows(i) ==
    /\ Hold(i, NoRow)
    /\ UNCHANGED writer

(* COMMIT or ROLLBACK. *)
Release(i) ==
    /\ Hold(i, NoRow)
    /\ writer' = IF writer = i THEN Nobody ELSE writer

(* The method returns or raises; a transaction still open is rolled back. *)
Finish(i, ret, got) ==
    /\ Goto(i, "idle")
    /\ Release(i)
    /\ answer' = [op |-> op[i], ret |-> ret, got |-> got]
    /\ op' = [op EXCEPT ![i] = NoOp]
    /\ existing' = [existing EXCEPT ![i] = NoRow]
    /\ seqno' = [seqno EXCEPT ![i] = 0]

-----------------------------------------------------------------------------
(* A method is called; its fact_id is drawn. *)
Begin(i, o) ==
    /\ pc[i] = "idle"
    /\ drawn < MaxCalls
    /\ drawn' = drawn + 1
    /\ o.id = drawn + 1
    /\ op' = [op EXCEPT ![i] = o]
    /\ Goto(i, "read")
    /\ Silent
    /\ UNCHANGED <<backend, facts, held, writer, existing, seqno>>

(* get_active.  In put_fact_if it comes after BEGIN IMMEDIATE (SQLite), or *)
(* is the first half of SELECT ... FOR UPDATE (PostgreSQL).                *)
Read(i) ==
    /\ pc[i] = "read"
    /\ LET row == ActiveId(op[i].key) IN
       CASE op[i].kind = "put_if" ->
              /\ CanWrite(i)
              /\ TakeWrite(i)
              /\ Goto(i, "compare")
              /\ existing' = [existing EXCEPT ![i] = row]
              /\ Silent
              /\ UNCHANGED <<held, op, seqno>>
         [] op[i].kind = "supersede" /\ row = NoRow ->
              Finish(i, "none", NoRow)
         [] OTHER ->
              /\ Goto(i, IF row = NoRow THEN "insert" ELSE "update")
              /\ existing' = [existing EXCEPT ![i] = row]
              /\ Silent
              /\ UNCHANGED <<held, writer, op, seqno>>
    /\ UNCHANGED <<backend, facts, drawn>>

(* Mutant: the hash is that of the row first seen, and the row locked the  *)
(* one that is active after the wait.                                      *)
CompareStale(i) ==
    /\ pc[i] = "compare"
    /\ RowFree(i, ActiveId(op[i].key))
    /\ LET row == ActiveId(op[i].key) IN
       IF ContentOf(existing[i]) = op[i].expected
         THEN /\ Hold(i, row)
              /\ existing' = [existing EXCEPT ![i] = row]
              /\ Goto(i, IF row = NoRow THEN "insert" ELSE "update")
              /\ Silent
              /\ UNCHANGED <<writer, op, seqno>>
         ELSE Finish(i, "conflict", NoRow)
    /\ UNCHANGED <<backend, facts, drawn>>

(* put_fact_if: the row, once nobody else has it locked, is there if it is *)
(* still active; its content is compared with the expected version.        *)
Compare(i) ==
    /\ pc[i] = "compare"
    /\ RowFree(i, existing[i])
    /\ LET row == IF IsActive(existing[i]) THEN existing[i] ELSE NoRow IN
       IF ContentOf(row) = op[i].expected
         THEN /\ Hold(i, row)
              /\ existing' = [existing EXCEPT ![i] = row]
              /\ Goto(i, IF row = NoRow THEN "insert" ELSE "update")
              /\ Silent
              /\ UNCHANGED <<writer, op, seqno>>
         ELSE Finish(i, "conflict", NoRow)
    /\ UNCHANGED <<backend, facts, drawn>>

(* Mutant: supersede does not look at the number of rows updated. *)
UpdateUncounted(i) ==
    /\ pc[i] = "update"
    /\ CanWrite(i)
    /\ RowFree(i, existing[i])
    /\ IF IsActive(existing[i])
         THEN /\ Hold(i, existing[i])
              /\ TakeWrite(i)
              /\ Goto(i, IF op[i].kind = "supersede" THEN "commit" ELSE "insert")
              /\ Silent
              /\ UNCHANGED <<op, existing, seqno>>
         ELSE IF op[i].kind = "supersede" THEN Finish(i, "row", existing[i])
                                          ELSE Finish(i, "raised", NoRow)
    /\ UNCHANGED <<backend, facts, drawn>>

(* Mutant: no trigger refuses the update of a superseded row. *)
UpdateUntriggered(i) ==
    /\ pc[i] = "update"
    /\ CanWrite(i)
    /\ RowFree(i, existing[i])
    /\ Hold(i, existing[i])
    /\ TakeWrite(i)
    /\ Goto(i, IF op[i].kind = "supersede" THEN "commit" ELSE "insert")
    /\ Silent
    /\ UNCHANGED <<op, existing, seqno>>
    /\ UNCHANGED <<backend, facts, drawn>>

(* UPDATE of the row that was read.  If it has been superseded since, the  *)
(* append-only trigger aborts a put; supersede has it in its WHERE clause, *)
(* counts no row and returns None.                                         *)
Update(i) ==
    /\ pc[i] = "update"
    /\ CanWrite(i)
    /\ RowFree(i, existing[i])
    /\ IF IsActive(existing[i])
         THEN /\ Hold(i, existing[i])
              /\ TakeWrite(i)
              /\ Goto(i, IF op[i].kind = "supersede" THEN "commit" ELSE "insert")
              /\ Silent
              /\ UNCHANGED <<op, existing, seqno>>
         ELSE IF op[i].kind = "supersede" THEN Finish(i, "none", NoRow)
                                          ELSE Finish(i, "raised", NoRow)
    /\ UNCHANGED <<backend, facts, drawn>>

(* Mutant: an empty table is numbered from -1. *)
NextSeqFromMinusOne == IF facts = {} THEN -1 ELSE Max({r.seq : r \in facts}) + 1

(* COALESCE(MAX(seq), -1) + 1 *)
NextSeq == IF facts = {} THEN 0 ELSE Max({r.seq : r \in facts}) + 1

(* The INSERT computes its seq, ... *)
Insert(i) ==
    /\ pc[i] = "insert"
    /\ CanWrite(i)
    /\ TakeWrite(i)
    /\ seqno' = [seqno EXCEPT ![i] = NextSeq]
    /\ Goto(i, "index")
    /\ Silent
    /\ UNCHANGED <<backend, facts, held, drawn, op, existing>>

(* A unique index refuses the row.  put_fact_if on PostgreSQL takes this   *)
(* for a lost race if it had found no row to lock.                         *)
Violate(i) ==
    Finish(i, IF /\ backend = "postgres"
                 /\ op[i].kind = "put_if"
                 /\ existing[i] = NoRow
                THEN "conflict" ELSE "raised", NoRow)

(* No other open transaction has inserted a row of the key of instance i   *)
(* or superseded its active row; none has inserted a row of its seq.       *)
KeyFree(i) ==
    /\ \A j \in Others(i) :
          pc[j] \in {"seq", "commit"} /\ op[j].kind # "supersede"
              => op[j].key # op[i].key
    /\ \A r \in ActiveRow(op[i].key), j \in Others(i) :
          held[j] = r.id => pc[j] = "update"

SeqFree(i) ==
    \A j \in Others(i) :
        pc[j] = "commit" /\ op[j].kind # "supersede" => seqno[j] # seqno[i]

(* ... enters the index on active rows, once its key is free, ... *)
IndexActive(i) ==
    /\ pc[i] = "index"
    /\ KeyFree(i)
    /\ IF \E r \in ActiveRow(op[i].key) : r.id # held[i]
         THEN Violate(i)
         ELSE /\ Goto(i, "seq")
              /\ Silent
              /\ UNCHANGED <<held, writer, op, existing, seqno>>
    /\ UNCHANGED <<backend, facts, drawn>>

(* ... and the index on seq. *)
IndexSeq(i) ==
    /\ pc[i] = "seq"
    /\ SeqFree(i)
    /\ IF \E r \in facts : r.seq = seqno[i]
         THEN Violate(i)
         ELSE /\ Goto(i, "commit")
              /\ Silent
              /\ UNCHANGED <<held, writer, op, existing, seqno>>
    /\ UNCHANGED <<backend, facts, drawn>>

NewRow(i) ==
    [id |-> op[i].id, key |-> op[i].key, content |-> op[i].content,
     seq |-> seqno[i], state |-> "active", by |-> NoRow]

Commit(i) ==
    /\ pc[i] = "commit"
    /\ LET old == {r \in facts : r.id = held[i]} IN
       facts' =
          (facts \ old) \cup
             IF op[i].kind = "supersede"
               THEN {Log!Retired(r, "invalid", op[i].id) : r \in old}
               ELSE {Log!Retired(r, "replaced", NoRow) : r \in old}
                       \cup {NewRow(i)}
    /\ Release(i)
    /\ Goto(i, "reread")
    /\ Silent
    /\ UNCHANGED <<backend, drawn, op, existing, seqno>>

(* After the transaction the row is read again: the row of that fact_id by *)
(* supersede, whatever row is active by put_fact and put_fact_if, which    *)
(* raise if there is none.                                                 *)
Reread(i) ==
    /\ pc[i] = "reread"
    /\ LET row == ActiveId(op[i].key) IN
       IF op[i].kind = "supersede" THEN Finish(i, "row", existing[i])
       ELSE IF row = NoRow         THEN Finish(i, "invariant", NoRow)
                                   ELSE Finish(i, "row", row)
    /\ UNCHANGED <<backend, facts, drawn>>

(* SQLite: the write lock is not had within busy_timeout. *)
Busy(i) ==
    /\ NeedsWrite(i)
    /\ ~ CanWrite(i)
    /\ Finish(i, "raised", NoRow)
    /\ UNCHANGED <<backend, facts, drawn>>

(* A statement fails, and what was not committed is rolled back.  When the *)
(* answer to the COMMIT is lost, or the read that comes after it fails,    *)
(* the call raises although it has written.                                *)
Fail(i) ==
    /\ pc[i] # "idle"
    /\ Finish(i, IF pc[i] = "reread" THEN "unsure" ELSE "raised", NoRow)
    /\ UNCHANGED <<backend, facts, drawn>>

(* The process of an instance stops; the database rolls it back. *)
Die(i) ==
    /\ pc[i] # "idle"
    /\ Finish(i, "lost", NoRow)
    /\ UNCHANGED <<backend, facts, drawn>>

Issue(i) ==
    \/ Read(i) \/ Compare(i) \/ Update(i) \/ Insert(i) \/ IndexActive(i)
    \/ IndexSeq(i) \/ Commit(i) \/ Reread(i)

(* What may be called: only put_fact_if has an expected version, and       *)
(* supersede has no content.                                               *)
Incoming ==
    {o \in [kind : Kind, key : Key, content : Content \cup {NoContent},
            expected : Content \cup {NoContent}, id : {drawn + 1}] :
        /\ o.kind # "put_if" => o.expected = NoContent
        /\ (o.kind = "supersede") <=> (o.content = NoContent)}

(* The instances that can be called. *)
Ready == {i \in Instance : pc[i] = "idle"}

StoreNext ==
    \/ \E i \in Ready : \E o \in Incoming : Begin(i, o)
    \/ \E i \in Instance : Issue(i)
    \/ \E i \in Instance : Busy(i)
    \/ \E i \in Instance : Fail(i)
    \/ \E i \in Instance : Die(i)

StoreSpec == StoreInit /\ [][StoreNext]_storeVars

-----------------------------------------------------------------------------
(* Both backends implement the promise of the store: rows are only added,  *)
(* numbered without gaps in the order in which they are committed, at most *)
(* one is active per key, a row is retired once and keeps the provenance   *)
(* of that moment (SEC-10, BL-068), however instances interleave, wait,    *)
(* time out and die.                                                       *)
ImplementsFactLog == Log!Spec

Older(r) == {q \in facts : q.key = r.key /\ q.seq < r.seq}

Previous(r) == {q \in Older(r) : \A p \in Older(r) : p.seq <= q.seq}

(* Compare-and-set loses no update: the row written by put_fact_if follows *)
(* a row of exactly the version the caller expected, which it replaced, or *)
(* no active row if it expected none (BL-027, SEC-6).                      *)
CasNoLostUpdate ==
    \A r \in facts :
        answer # NoAnswer /\ answer.op.kind = "put_if" /\ r.id = answer.op.id =>
            IF answer.op.expected = NoContent
              THEN \A q \in Previous(r) : q.state = "invalid"
              ELSE \E q \in Previous(r) : /\ q.content = answer.op.expected
                                         /\ q.state = "replaced"

(* A caller is told the truth: whoever is handed the row it superseded did *)
(* supersede it, in its own name (F-007); a put that returns a row wrote   *)
(* one; and a call that ends in None, VersionConflict or an exception of   *)
(* its transaction has written nothing.  (An exception from behind the     *)
(* COMMIT promises nothing: the caller cannot tell it from the others.)    *)
AnswersAreTrue ==
    LET wrote == \E r \in facts : answer.op.id \in {r.id, r.by} IN
    answer # NoAnswer =>
        /\ answer.ret = "row" => wrote
        /\ answer.ret \in {"none", "conflict", "raised"} => ~ wrote
        /\ answer.ret = "row" /\ answer.op.kind = "supersede" =>
              \E r \in facts : r.id = answer.got /\ r.by = answer.op.id

(* What the statement of an instance waits for: the write lock, a row that *)
(* another has locked, or an entry of a unique index that another has not  *)
(* committed.                                                              *)
Waits(i) ==
    \/ NeedsWrite(i) /\ ~ CanWrite(i)
    \/ pc[i] \in {"compare", "update"} /\ ~ RowFree(i, existing[i])
    \/ pc[i] = "index" /\ ~ KeyFree(i)
    \/ pc[i] = "seq" /\ ~ SeqFree(i)

(* The statements never wait for each other in a circle: while calls are   *)
(* being served, one of them can go on, without timeouts and whatever each *)
(* of them has locked.                                                     *)
NoWaitCycle ==
    (\E i \in Instance : pc[i] # "idle") =>
        \E i \in Instance : pc[i] # "idle" /\ ~ Waits(i)
=============================================================================
