-------------------------------- MODULE Drift --------------------------------
(***************************************************************************)
(* Drift detection: the drift_scan tool (tools/drift.py), the diff         *)
(* (drift/engine.py), the CIS baseline and its waivers (drift/cis.py), the *)
(* CIS collector (collectors/cis.py) and the ingest tool that stores what  *)
(* it parses (tools/collect.py).                                           *)
(*                                                                         *)
(* The fact store is abstracted to its active rows: FactStore shows that   *)
(* put_fact and list_active are atomic and that a key has one active row.  *)
(* What is not atomic is what is built on top: a scan reads twice, and an  *)
(* ingest or a seed stores one fact after the other.                       *)
(***************************************************************************)
EXTENDS Integers, Sequences, FiniteSets, SequencesExt

CONSTANTS
    Node,           \* the hosts
    ControlPlane,   \* those that run the control plane
    ClusterName,    \* the clusters
    Control,        \* the controls of the baseline
    ScopeOf,        \* ScopeOf[c]: "node", "controlplane" or "cluster"
    Desired,        \* Desired[c]: the setting the baseline wants, unnormalized
    TALOS_SATISFIED,\* the controls Talos enforces by construction
    Waivers,        \* what the operator may make of CIS_SUPPRESSED
    Predicate,      \* the predicates that are no cis: controls
    SecurityPredicates, \* those of _SECURITY_PREDICATES
    Evidence,       \* the evidence documents: control |-> raw setting
    Writable,       \* bound: the keys that others write
    Blessed,        \* the values they write
    Scan,           \* the threads that scan
    ScanSubject,    \* bound: the subjects they are asked for
    Backlog,        \* bound: what ingests have to store when another begins
    MaxEvents       \* bound: ingests, seeds, writes by others and restarts

Subject == Node \cup ClusterName

ASSUME DriftAssumption ==
    /\ ControlPlane \subseteq Node
    /\ ScopeOf \in [Control -> {"node", "controlplane", "cluster"}]
    /\ DOMAIN Desired = Control
    /\ TALOS_SATISFIED \subseteq Control
    /\ Waivers \subseteq SUBSET Control
    /\ Control \cap Predicate = {}
    /\ SecurityPredicates \subseteq Predicate
    /\ Writable \subseteq Subject \X (Control \cup Predicate)
    /\ ScanSubject \subseteq Subject
    /\ Backlog \in Nat
    /\ MaxEvents \in Nat

Key == Subject \X (Control \cup Predicate)
SubjectOf(k) == k[1]
PredicateOf(k) == k[2]
IsCis(p) == p \in Control

VARIABLES
    observed,   \* the active OBSERVED rows: key |-> value
    known,      \* the active KNOWN_GOOD rows
    suppressed, \* CIS_SUPPRESSED of the running code
    ingesting,  \* the facts that ingests have parsed and not yet stored
    seeding,    \* the facts a seed has materialized and not yet stored
    scan,       \* scan[s]: where scan s is and what it has read
    tainted,    \* the SessionTaint latch
    events      \* how many ingests, seeds, writes and restarts there were

(* History, read by no action. *)
VARIABLES
    evidence,   \* evidence[k]: the raw setting behind observed[k]
    seeded      \* "yes": a seed under these waivers was completed, and nobody
                \* has written a known-good CIS fact since it began

tables == <<observed, known>>
jobs == <<ingesting, seeding>>
driftVars == <<tables, suppressed, jobs, scan, tainted, events, evidence,
               seeded>>

-----------------------------------------------------------------------------
(* Settings.  A raw setting is a scalar or a list; either way items is a   *)
(* sequence of texts, one text for a scalar, and a text is a sequence of   *)
(* comma-separated parts.  A part is a token, written plainly or with      *)
(* stray whitespace or capitals (FALSE for false): noise that strip() and  *)
(* lower() remove.                                                         *)
Plain(tok) == [tok |-> tok, noise |-> FALSE]
Noisy(tok) == [tok |-> tok, noise |-> TRUE]
Scalar(text) == [list |-> FALSE, items |-> <<text>>]
List(texts) == [list |-> TRUE, items |-> texts]

(* A scalar is split at its commas; the items of a list are not. *)
ItemsOf(raw) ==
    IF raw.list THEN raw.items
                ELSE [i \in DOMAIN raw.items[1] |-> <<raw.items[1][i]>>]

CleanItem(item) == [i \in DOMAIN item |-> Plain(item[i].tok)]

(* Mutant: only scalars are trimmed. *)
NormalizeScalarsOnly(raw) ==
    LET clean == [i \in DOMAIN ItemsOf(raw) |->
                    IF raw.list THEN ItemsOf(raw)[i]
                                ELSE CleanItem(ItemsOf(raw)[i])]
    IN  FlattenSeq(SortSeq(clean, LAMBDA a, b : a[1].tok < b[1].tok))

(* normalize_value: trim, lowercase booleans, sort, join.  Texts are       *)
(* ordered by their first token.                                           *)
NormalizeValue(raw) ==
    LET clean == [i \in DOMAIN ItemsOf(raw) |-> CleanItem(ItemsOf(raw)[i])]
    IN  FlattenSeq(SortSeq(clean, LAMBDA a, b : a[1].tok < b[1].tok))

(* What a setting says: how often it names each token. *)
Meaning(raw) ==
    LET parts == FlattenSeq(raw.items)
        Count(tok) == Cardinality({i \in DOMAIN parts : parts[i].tok = tok})
    IN  {<<tok, Count(tok)>> : tok \in {parts[i].tok : i \in DOMAIN parts}}

(* A list whose items are free of commas. *)
Flat(raw) == raw.list => \A i \in DOMAIN raw.items : Len(raw.items[i]) = 1

-----------------------------------------------------------------------------
(* The CIS baseline. *)

(* CIS_BASELINE: the table of vetted controls, each with its scope and the *)
(* setting it wants.                                                       *)
CIS_BASELINE ==
    {[control |-> c, scope |-> ScopeOf[c],
      desired |-> NormalizeValue(Desired[c])] : c \in Control}

(* active_controls: neither platform-guaranteed nor waived. *)
ActiveControls ==
    {c \in CIS_BASELINE : c.control \notin TALOS_SATISFIED \cup suppressed}

ActiveControlKeys == {c.control : c \in ActiveControls}

(* _subjects_for *)
SubjectsFor(scope) ==
    CASE scope = "node"         -> Node
      [] scope = "controlplane" -> ControlPlane
      [] scope = "cluster"      -> ClusterName

(* Mutant: subject and predicate are swapped. *)
CisBaselineFactsSwapped ==
    UNION {{[key |-> <<c.control, s>>, value |-> c.desired] :
              s \in SubjectsFor(c.scope)} : c \in ActiveControls}

(* cis_baseline_facts: the known-good facts of the active controls. *)
CisBaselineFacts ==
    UNION {{[key |-> <<s, c.control>>, value |-> c.desired] :
              s \in SubjectsFor(c.scope)} : c \in ActiveControls}

BaselineKeys == {f.key : f \in CisBaselineFacts}

-----------------------------------------------------------------------------
(* The diff.  A table of facts is a function on the keys that have one     *)
(* (_index); the findings are a set, since no two have the same key.       *)

(* default_severity *)
DefaultSeverity(p, kind) ==
    IF p \in SecurityPredicates THEN "critical"
    ELSE IF kind = "unexpected" THEN "info"
    ELSE "warning"

(* cis_severity *)
CisSeverity(p, kind) == IF IsCis(p) THEN "critical" ELSE DefaultSeverity(p, kind)

Finding(k, kind) ==
    [key |-> k, kind |-> kind, severity |-> CisSeverity(PredicateOf(k), kind)]

Diff(obs, des, flag_unexpected) ==
    {Finding(k, "missing") : k \in DOMAIN des \ DOMAIN obs}
    \cup {Finding(k, "changed") :
            k \in {k \in DOMAIN des \cap DOMAIN obs : obs[k] # des[k]}}
    \cup {Finding(k, "unexpected") :
            k \in {k \in DOMAIN obs \ DOMAIN des : flag_unexpected}}

AsTable(facts) ==
    [k \in {f.key : f \in facts} |-> (CHOOSE f \in facts : f.key = k).value]

(* cis_drift: the library's check against the materialized baseline. *)
CisDrift(obs) == Diff(obs, AsTable(CisBaselineFacts), FALSE)

-----------------------------------------------------------------------------
EmptyTable == [k \in {} |-> <<>>]
Anywhere == "anywhere"          \* a scan whose subject is None

Idle == [pc |-> "idle", subject |-> Anywhere, obs |-> EmptyTable, found |-> {},
         desThen |-> EmptyTable]    \* history: the baseline at the first read

DriftInit ==
    /\ observed = EmptyTable
    /\ known = EmptyTable
    /\ suppressed \in Waivers
    /\ ingesting = {} /\ seeding = {}
    /\ scan = [s \in Scan |-> Idle]
    /\ tainted = FALSE
    /\ events = 0
    /\ evidence = EmptyTable
    /\ seeded = "no"

Event == events < MaxEvents /\ events' = events + 1

Stored(table, k, v) ==
    [j \in DOMAIN table \cup {k} |-> IF j = k THEN v ELSE table[j]]
Without(table, k) == [j \in DOMAIN table \ {k} |-> table[j]]

(* StoreProtocol.list_active(subject, fact_type), one statement. *)
ListActive(table, subject) ==
    [k \in {k \in DOMAIN table : subject \in {Anywhere, SubjectOf(k)}}
        |-> table[k]]

(* drift_scan, the observed facts.  The latch is armed if there are any. *)
ReadObserved(s, subject) ==
    /\ scan[s].pc # "observed"
    /\ LET obs == ListActive(observed, subject) IN
       /\ scan' = [scan EXCEPT ![s] =
                     [Idle EXCEPT !.pc = "observed", !.subject = subject,
                                  !.obs = obs,
                                  !.desThen = ListActive(known, subject)]]
       /\ tainted' = (tainted \/ DOMAIN obs # {})
    /\ UNCHANGED <<tables, suppressed, jobs, events, evidence, seeded>>

Answer(s, des) ==
    scan' = [scan EXCEPT ![s] =
               [Idle EXCEPT !.pc = "answered",
                            !.found = Diff(scan[s].obs, des, TRUE)]]

(* Mutant: the baseline is read for every subject. *)
ReadKnownGoodUnfiltered(s) ==
    /\ scan[s].pc = "observed"
    /\ Answer(s, known)
    /\ UNCHANGED <<tables, suppressed, jobs, tainted, events, evidence, seeded>>

(* drift_scan, the known-good facts and the answer. *)
ReadKnownGood(s) ==
    /\ scan[s].pc = "observed"
    /\ Answer(s, ListActive(known, scan[s].subject))
    /\ UNCHANGED <<tables, suppressed, jobs, tainted, events, evidence, seeded>>

(* ingest_observation with collector "cis": the latch is armed, and the    *)
(* evidence parsed, before anything is stored.  Controls that are not      *)
(* active are dropped.  The evidence names no scope.  Over HTTP another    *)
(* ingest may be under way.                                                *)
BeginIngest(subject, doc) ==
    /\ Event
    /\ Cardinality(ingesting) <= Backlog
    /\ tainted' = TRUE
    /\ ingesting' = ingesting \cup
                      {[key |-> <<subject, c>>, raw |-> doc[c]] :
                         c \in DOMAIN doc \cap ActiveControlKeys}
    /\ UNCHANGED <<tables, suppressed, seeding, scan, evidence, seeded>>

StoreObserved(f) ==
    /\ f \in ingesting
    /\ ingesting' = ingesting \ {f}
    /\ observed' = Stored(observed, f.key, NormalizeValue(f.raw))
    /\ evidence' = Stored(evidence, f.key, f.raw)
    /\ UNCHANGED <<known, suppressed, seeding, scan, tainted, events, seeded>>

(* seed_cis_baseline: materialize, then store one by one. *)
BeginSeed ==
    /\ Event
    /\ seeding = {}
    /\ seeding' = CisBaselineFacts
    /\ seeded' = IF seeded = "yes" THEN "yes" ELSE "running"
    /\ UNCHANGED <<tables, suppressed, ingesting, scan, tainted, evidence>>

(* Mutant: a key that has a known-good fact keeps it. *)
StoreKnownGoodIfAbsent(f) ==
    /\ f \in seeding
    /\ seeding' = seeding \ {f}
    /\ known' = IF f.key \in DOMAIN known THEN known
                                          ELSE Stored(known, f.key, f.value)
    /\ seeded' = IF seeded = "running" /\ seeding' = {} THEN "yes" ELSE seeded
    /\ UNCHANGED <<observed, suppressed, ingesting, scan, tainted, events,
                   evidence>>

StoreKnownGood(f) ==
    /\ f \in seeding
    /\ seeding' = seeding \ {f}
    /\ known' = Stored(known, f.key, f.value)
    /\ seeded' = IF seeded = "running" /\ seeding' = {} THEN "yes" ELSE seeded
    /\ UNCHANGED <<observed, suppressed, ingesting, scan, tainted, events,
                   evidence>>

(* A store write raises: the rest of the ingests, or of the seed, is not   *)
(* done.  (What is left of one that ends alone is just never stored.)      *)
Abort ==
    /\ \/ ingesting # {} /\ ingesting' = {} /\ UNCHANGED <<seeding, seeded>>
       \/ /\ seeding # {} /\ seeding' = {}
          /\ seeded' = IF seeded = "running" THEN "no" ELSE seeded
          /\ UNCHANGED ingesting
    /\ UNCHANGED <<tables, suppressed, scan, tainted, events, evidence>>

Overruled(k) == IF IsCis(PredicateOf(k)) THEN "no" ELSE seeded

(* Writes of others: another collector's observation, an operator who      *)
(* blesses a value or supersedes a row by hand.                            *)
WriteObserved(k, v) ==
    /\ Event
    /\ observed' = Stored(observed, k, v)
    /\ evidence' = Without(evidence, k)
    /\ UNCHANGED <<known, suppressed, jobs, scan, tainted, seeded>>

Bless(k, v) ==
    /\ Event
    /\ known' = Stored(known, k, v)
    /\ seeded' = Overruled(k)
    /\ UNCHANGED <<observed, suppressed, jobs, scan, tainted, evidence>>

SupersedeRow(k) ==
    /\ Event
    /\ \/ /\ k \in DOMAIN observed
          /\ observed' = Without(observed, k)
          /\ evidence' = Without(evidence, k)
          /\ UNCHANGED <<known, seeded>>
       \/ /\ k \in DOMAIN known
          /\ known' = Without(known, k)
          /\ seeded' = Overruled(k)
          /\ UNCHANGED <<observed, evidence>>
    /\ UNCHANGED <<suppressed, jobs, scan, tainted>>

(* The operator edits CIS_SUPPRESSED and starts the code again.  The store *)
(* is kept; what was under way is lost.                                    *)
Restart ==
    /\ Event
    /\ suppressed' \in Waivers
    /\ ingesting' = {} /\ seeding' = {}
    /\ scan' = [s \in Scan |-> IF scan[s].pc = "observed" THEN Idle ELSE scan[s]]
    /\ tainted' = FALSE
    /\ seeded' = IF seeded = "yes" /\ suppressed' = suppressed THEN "yes" ELSE "no"
    /\ UNCHANGED <<tables, evidence>>

DriftNext ==
    \/ \E s \in Scan, subject \in ScanSubject \cup {Anywhere} :
          ReadObserved(s, subject)
    \/ \E s \in Scan : ReadKnownGood(s)
    \/ \E subject \in Subject, doc \in Evidence : BeginIngest(subject, doc)
    \/ \E f \in ingesting : StoreObserved(f)
    \/ BeginSeed
    \/ \E f \in seeding : StoreKnownGood(f)
    \/ Abort
    \/ \E k \in Writable, v \in Blessed : WriteObserved(k, v) \/ Bless(k, v)
    \/ \E k \in Writable : SupersedeRow(k)
    \/ Restart

DriftSpec == DriftInit /\ [][DriftNext]_driftVars

-----------------------------------------------------------------------------
IsTable(t) == DOMAIN t \subseteq Key

(* Type correctness. *)
DriftTypeOK ==
    /\ IsTable(observed) /\ IsTable(known) /\ IsTable(evidence)
    /\ DOMAIN evidence \subseteq DOMAIN observed
    /\ suppressed \in Waivers
    /\ \A f \in ingesting \cup seeding : f.key \in Key
    /\ \A s \in Scan :
          /\ scan[s].pc \in {"idle", "observed", "answered"}
          /\ scan[s].subject \in Subject \cup {Anywhere}
          /\ IsTable(scan[s].obs)
          /\ \A f \in scan[s].found :
                /\ f.key \in Key
                /\ f.kind \in {"missing", "changed", "unexpected"}
                /\ f.severity \in {"info", "warning", "critical"}
    /\ tainted \in BOOLEAN /\ seeded \in {"no", "running", "yes"}

(* The drift of one key, without reference to the code. *)
DriftOf(k, obs, des) ==
    CASE k \in DOMAIN obs /\ k \in DOMAIN des /\ obs[k] = des[k] -> {}
      [] k \in DOMAIN obs /\ k \in DOMAIN des /\ obs[k] # des[k] -> {"changed"}
      [] k \in DOMAIN obs /\ k \notin DOMAIN des -> {"unexpected"}
      [] k \notin DOMAIN obs /\ k \in DOMAIN des -> {"missing"}
      [] OTHER -> {}

Same(k, s, t) == (k \in DOMAIN s) = (k \in DOMAIN t) /\ (k \in DOMAIN s => s[k] = t[k])

(* What scan s answers in this step, judged by what the rows were at its   *)
(* first read and are now.                                                 *)
TrueAtARead(s) ==
    LET first == scan[s]
        obs == ListActive(observed, first.subject)
        des == ListActive(known, first.subject)
        found == scan'[s].found
    IN  /\ \A k \in Key :
              LET kinds == {f.kind : f \in {f \in found : f.key = k}} IN
              \/ kinds = DriftOf(k, first.obs, first.desThen)
              \/ kinds = DriftOf(k, obs, des)
              \/ ~ Same(k, first.obs, obs) /\ ~ Same(k, first.desThen, des)
        /\ \A f \in found :
              /\ f.key \in Key
              /\ PredicateOf(f.key) \in Control \cup SecurityPredicates
                    => f.severity = "critical"

(* A scan reads the two tables at different moments (tools/drift.py).  Of  *)
(* each key in its scope whose rows did not both change in between, its    *)
(* answer is what was true at one of the two moments, and nothing else is  *)
(* reported; drift of a CIS control or a security predicate is critical.   *)
ScanTrueAtARead ==
    [][\A s \in Scan :
          scan[s].pc = "observed" /\ scan'[s].pc = "answered" => TrueAtARead(s)]_driftVars

(* Evidence is judged by what it says.  Once the baseline is seeded, a     *)
(* control is reported as changed iff the last evidence collected for it   *)
(* says something else than the baseline, however the two are written      *)
(* (normalize_value, on both sides), whatever was waived or written by     *)
(* others before.                                                          *)
EvidenceJudged ==
    seeded = "yes" =>
        \A k \in BaselineKeys \cap DOMAIN evidence :
            Flat(evidence[k]) =>
                (Finding(k, "changed") \in Diff(observed, known, TRUE)
                    <=> Meaning(evidence[k]) # Meaning(Desired[PredicateOf(k)]))

(* normalize_value tells the settings that can meet apart by what they     *)
(* say: the part of EvidenceJudged that is about data.                     *)
NormalizeFaithful ==
    \A c \in Control : \A doc \in Evidence :
        c \in DOMAIN doc /\ Flat(doc[c]) =>
            (NormalizeValue(doc[c]) # NormalizeValue(Desired[c])
                <=> Meaning(doc[c]) # Meaning(Desired[c]))

(* Once a seed is complete, the generic scan of the store and the CIS      *)
(* check of the library report the same about every control of the         *)
(* baseline, although earlier seeds were interrupted, ran under other      *)
(* waivers or met facts that somebody had blessed (drift/cis.py).          *)
SeedAgrees ==
    seeded = "yes" =>
        {f \in Diff(observed, known, TRUE) : f.key \in BaselineKeys}
            = CisDrift(observed)

-----------------------------------------------------------------------------
(* Claims of the documentation that the code does not keep. *)

(* drift/cis.py: a waived control "is dropped from the active set so       *)
(* neither the CIS diff nor the generic scan alerts on it".                *)
WaivedNeverAlerts ==
    \A f \in CisDrift(observed) \cup Diff(observed, known, TRUE) :
        PredicateOf(f.key) \notin suppressed
=============================================================================
