----------------------------- MODULE DriftProofs -----------------------------
(***************************************************************************)
(* Proofs about drift detection, for every baseline, set of hosts, waivers *)
(* and evidence, and however scans, ingests, seeds, writes by others and   *)
(* restarts interleave.  What normalize_value makes of a setting is left   *)
(* open: nothing here depends on it, save where it is said.                *)
(***************************************************************************)
EXTENDS Drift, TLAPS

(* The known-good row of a baseline fact holds what the baseline wants. *)
Blesses(f) == f.key \in DOMAIN known /\ known[f.key] = f.value

(* What is still to be seeded belongs to the baseline of the running code; *)
(* what a seed in progress has stored, and what a completed one stored,    *)
(* is there as it was stored.                                              *)
SeedInv ==
    /\ seeding \subseteq CisBaselineFacts
    /\ seeded = "yes" => \A f \in CisBaselineFacts : Blesses(f)
    /\ seeded = "running" => \A f \in CisBaselineFacts \ seeding : Blesses(f)

(* A setting that was collected: of a control, as a document has it. *)
Collected(p, raw) == \E doc \in Evidence : p \in DOMAIN doc \cap Control /\ raw = doc[p]

(* An observed row with evidence behind it is that evidence, normalized. *)
EvidenceInv ==
    /\ \A f \in ingesting : Collected(PredicateOf(f.key), f.raw)
    /\ \A k \in DOMAIN evidence : /\ observed[k] = NormalizeValue(evidence[k])
                                  /\ Collected(PredicateOf(k), evidence[k])

(* Every scan has a state. *)
ScanInv == scan = [s \in Scan |-> scan[s]]

DriftInv == DriftTypeOK /\ ScanInv /\ SeedInv /\ EvidenceInv

-----------------------------------------------------------------------------
(* The facts of the baseline: keys of the store, on controls, one a key. *)
LEMMA BaselineType ==
    ASSUME NEW f \in CisBaselineFacts
    PROVE  /\ f.key \in Key
           /\ PredicateOf(f.key) \in Control
           /\ f.value = NormalizeValue(Desired[PredicateOf(f.key)])
<1>1. PICK c \in CIS_BASELINE : /\ c \in ActiveControls
                                /\ f \in {[key |-> <<s, c.control>>, value |-> c.desired] :
                                             s \in SubjectsFor(c.scope)}
  BY DEF CisBaselineFacts, ActiveControls
<1>2. PICK s \in SubjectsFor(c.scope) :
          f = [key |-> <<s, c.control>>, value |-> c.desired]
  BY <1>1
<1>3. /\ c.control \in Control /\ c.scope = ScopeOf[c.control]
      /\ c.desired = NormalizeValue(Desired[c.control])
  BY DEF CIS_BASELINE
<1>4. s \in Subject
  BY <1>2, <1>3, DriftAssumption DEF SubjectsFor, Subject
<1> QED
  BY <1>2, <1>3, <1>4 DEF Key, PredicateOf

LEMMA BaselineUnique ==
    ASSUME NEW f \in CisBaselineFacts, NEW g \in CisBaselineFacts, f.key = g.key
    PROVE  f.value = g.value
BY BaselineType

(* The baseline changes only with the waivers. *)
LEMMA BaselineKept ==
    ASSUME suppressed' = suppressed
    PROVE  CisBaselineFacts' = CisBaselineFacts
BY DEF CisBaselineFacts, ActiveControls, CIS_BASELINE

(* An active control is a control. *)
LEMMA ActiveKeysType == ActiveControlKeys \subseteq Control
BY DEF ActiveControlKeys, ActiveControls, CIS_BASELINE

(* What a scan reads and finds. *)
LEMMA ListActiveType ==
    ASSUME NEW t, NEW subject
    PROVE  /\ DOMAIN ListActive(t, subject) \subseteq DOMAIN t
           /\ \A k \in DOMAIN ListActive(t, subject) : ListActive(t, subject)[k] = t[k]
BY DEF ListActive

LEMMA DiffType ==
    ASSUME NEW obs, NEW des, NEW flag, IsTable(obs), IsTable(des),
           NEW f \in Diff(obs, des, flag)
    PROVE  /\ f.key \in Key
           /\ f.kind \in {"missing", "changed", "unexpected"}
           /\ f.severity \in {"info", "warning", "critical"}
<1>1. PICK k \in DOMAIN obs \cup DOMAIN des :
          \E kind \in {"missing", "changed", "unexpected"} : f = Finding(k, kind)
  BY DEF Diff
<1> QED
  BY <1>1 DEF IsTable, Finding, CisSeverity, DefaultSeverity

(* A scan, idle or in progress, with the findings of the last one. *)
ScanFine(v) ==
    /\ v.pc \in {"idle", "observed", "answered"}
    /\ v.subject \in Subject \cup {Anywhere}
    /\ IsTable(v.obs)
    /\ \A f \in v.found :
          /\ f.key \in Key
          /\ f.kind \in {"missing", "changed", "unexpected"}
          /\ f.severity \in {"info", "warning", "critical"}

(* Types. *)
LEMMA DriftTypeStep ==
    ASSUME DriftInv, [DriftNext]_driftVars
    PROVE  DriftTypeOK' /\ ScanInv'
<1> USE DEF tables, jobs, IsTable
<1>1. DriftTypeOK /\ ScanInv
  BY DEF DriftInv
<1> DEFINE RowsOK == /\ IsTable(observed) /\ IsTable(known) /\ IsTable(evidence)
                     /\ DOMAIN evidence \subseteq DOMAIN observed
           JobsOK == \A f \in ingesting \cup seeding : f.key \in Key
           ScanOK == ScanInv /\ \A s \in Scan : ScanFine(scan[s])
           RestOK == /\ suppressed \in Waivers /\ tainted \in BOOLEAN
                     /\ seeded \in {"no", "running", "yes"}
<1>2. RowsOK /\ JobsOK /\ ScanOK /\ RestOK
  BY <1>1 DEF DriftTypeOK, ScanFine
<1>3. ASSUME RowsOK', JobsOK', ScanOK', RestOK' PROVE DriftTypeOK' /\ ScanInv'
  BY <1>3 DEF DriftTypeOK, ScanFine
<1>4. ASSUME UNCHANGED tables, UNCHANGED evidence PROVE RowsOK'
  BY <1>2, <1>4
<1>5. ASSUME UNCHANGED jobs PROVE JobsOK'
  BY <1>2, <1>5
<1>6. ASSUME UNCHANGED scan PROVE ScanOK'
  BY <1>2, <1>6 DEF ScanInv
<1>7. ASSUME NEW s \in Scan, NEW subject \in ScanSubject \cup {Anywhere},
             ReadObserved(s, subject)
      PROVE  DriftTypeOK' /\ ScanInv'
  <2>1. subject \in Subject \cup {Anywhere}
    BY DriftAssumption
  <2>2. IsTable(ListActive(observed, subject))
    BY <1>2, ListActiveType
  <2>3. \A t \in Scan : scan'[t] = IF t = s
                          THEN [Idle EXCEPT !.pc = "observed", !.subject = subject,
                                            !.obs = ListActive(observed, subject),
                                            !.desThen = ListActive(known, subject)]
                          ELSE scan[t]
    BY <1>2, <1>7 DEF ReadObserved, ScanInv
  <2>4. ScanInv'
    BY <1>2, <1>7 DEF ReadObserved, ScanInv
  <2>5. ScanOK'
    <3>1. ASSUME NEW t \in Scan, t # s
          PROVE  scan'[t] = scan[t]
      BY <2>3, <3>1
    <3>2. /\ scan'[s].pc = "observed" /\ scan'[s].subject = subject
          /\ scan'[s].obs = ListActive(observed, subject) /\ scan'[s].found = {}
      BY <2>3 DEF Idle
    <3>3. ScanFine(scan'[s])
      BY <2>1, <2>2, <3>2 DEF ScanFine
    <3> QED
      BY <1>2, <2>4, <3>1, <3>3
  <2>6. RestOK'
    BY <1>2, <1>7 DEF ReadObserved
  <2> QED
    BY <1>3, <1>4, <1>5, <1>7, <2>5, <2>6 DEF ReadObserved
<1>8. ASSUME NEW s \in Scan, ReadKnownGood(s) PROVE DriftTypeOK' /\ ScanInv'
  <2> DEFINE des == ListActive(known, scan[s].subject)
  <2>1. IsTable(des)
    BY <1>2, ListActiveType
  <2>2. \A t \in Scan : scan'[t] = IF t = s
                          THEN [Idle EXCEPT !.pc = "answered",
                                            !.found = Diff(scan[s].obs, des, TRUE)]
                          ELSE scan[t]
    BY <1>2, <1>8 DEF ReadKnownGood, Answer, ScanInv
  <2>3. ScanInv'
    BY <1>2, <1>8 DEF ReadKnownGood, Answer, ScanInv
  <2>4. \A f \in Diff(scan[s].obs, des, TRUE) :
            /\ f.key \in Key
            /\ f.kind \in {"missing", "changed", "unexpected"}
            /\ f.severity \in {"info", "warning", "critical"}
    <3>1. IsTable(scan[s].obs)
      BY <1>2 DEF ScanFine
    <3> HIDE DEF des
    <3> QED
      BY <2>1, <3>1, DiffType
  <2> HIDE DEF des
  <2>5. ScanOK'
    <3>1. ASSUME NEW t \in Scan, t # s
          PROVE  scan'[t] = scan[t]
      BY <2>2, <3>1
    <3>2. /\ scan'[s].pc = "answered" /\ scan'[s].subject = Anywhere
          /\ DOMAIN scan'[s].obs = {} /\ scan'[s].found = Diff(scan[s].obs, des, TRUE)
      <4>1. PICK found : found = Diff(scan[s].obs, des, TRUE)
        OBVIOUS
      <4>2. scan'[s] = [pc |-> "answered", subject |-> Anywhere, obs |-> EmptyTable,
                        found |-> found, desThen |-> EmptyTable]
        BY <2>2, <4>1 DEF Idle
      <4> QED
        BY <4>1, <4>2 DEF EmptyTable
    <3>3. ScanFine(scan'[s])
      BY <2>4, <3>2 DEF ScanFine
    <3> QED
      BY <1>2, <2>3, <3>1, <3>3
  <2>6. RestOK'
    BY <1>2, <1>8 DEF ReadKnownGood
  <2> QED
    BY <1>3, <1>4, <1>5, <1>8, <2>5, <2>6 DEF ReadKnownGood
<1>9. ASSUME NEW subject \in Subject, NEW doc \in Evidence, BeginIngest(subject, doc)
      PROVE  DriftTypeOK' /\ ScanInv'
  <2>1. JobsOK'
    BY <1>2, <1>9, ActiveKeysType DEF BeginIngest, Key
  <2> QED
    BY <1>2, <1>3, <1>4, <1>6, <1>9, <2>1 DEF BeginIngest
<1>10. ASSUME NEW f \in ingesting, StoreObserved(f) PROVE DriftTypeOK' /\ ScanInv'
  <2>1. f.key \in Key
    BY <1>2
  <2>2. RowsOK' /\ JobsOK'
    BY <1>2, <1>10, <2>1 DEF StoreObserved, Stored
  <2> QED
    BY <1>2, <1>3, <1>6, <1>10, <2>2 DEF StoreObserved
<1>11. ASSUME BeginSeed PROVE DriftTypeOK' /\ ScanInv'
  <2>1. JobsOK'
    BY <1>2, <1>11, BaselineType DEF BeginSeed
  <2> QED
    BY <1>2, <1>3, <1>4, <1>6, <1>11, <2>1 DEF BeginSeed
<1>12. ASSUME NEW f \in seeding, StoreKnownGood(f) PROVE DriftTypeOK' /\ ScanInv'
  <2>1. f.key \in Key
    BY <1>2
  <2>2. RowsOK' /\ JobsOK'
    BY <1>2, <1>12, <2>1 DEF StoreKnownGood, Stored
  <2> QED
    BY <1>2, <1>3, <1>6, <1>12, <2>2 DEF StoreKnownGood
<1>13. ASSUME Abort PROVE DriftTypeOK' /\ ScanInv'
  BY <1>2, <1>3, <1>4, <1>6, <1>13 DEF Abort
<1>14. ASSUME NEW k \in Writable, NEW v, WriteObserved(k, v) \/ Bless(k, v) \/ SupersedeRow(k)
       PROVE  DriftTypeOK' /\ ScanInv'
  <2>1. k \in Key
    BY DriftAssumption DEF Key
  <2>2. RowsOK'
    BY <1>2, <1>14, <2>1 DEF WriteObserved, Bless, SupersedeRow, Stored, Without
  <2>3. RestOK'
    BY <1>2, <1>14 DEF WriteObserved, Bless, SupersedeRow, Overruled
  <2> QED
    BY <1>3, <1>5, <1>6, <1>14, <2>2, <2>3 DEF WriteObserved, Bless, SupersedeRow
<1>15. ASSUME Restart PROVE DriftTypeOK' /\ ScanInv'
  <2>1. ScanOK'
    <3>1. ScanFine(Idle)
      BY DEF ScanFine, Idle, EmptyTable
    <3>2. ScanInv' /\ \A s \in Scan : scan'[s] = Idle \/ scan'[s] = scan[s]
      BY <1>15 DEF Restart, ScanInv
    <3> QED
      BY <1>2, <3>1, <3>2
  <2>2. JobsOK' /\ RestOK'
    BY <1>2, <1>15 DEF Restart
  <2> QED
    BY <1>3, <1>4, <1>15, <2>1, <2>2 DEF Restart
<1>16. ASSUME UNCHANGED driftVars PROVE DriftTypeOK' /\ ScanInv'
  BY <1>2, <1>3, <1>4, <1>5, <1>6, <1>16 DEF driftVars
<1> QED
  BY <1>7, <1>8, <1>9, <1>10, <1>11, <1>12, <1>13, <1>14, <1>15, <1>16 DEF DriftNext

(* Seeds, whatever else is written while they run. *)
LEMMA SeedStep ==
    ASSUME DriftInv, [DriftNext]_driftVars
    PROVE  SeedInv'
<1> USE DEF tables, jobs
<1>1. SeedInv /\ DriftTypeOK
  BY DEF DriftInv
<1>2. ASSUME UNCHANGED <<known, suppressed, seeding, seeded>> PROVE SeedInv'
  <2>1. CisBaselineFacts' = CisBaselineFacts
    BY <1>2, BaselineKept
  <2> QED
    BY <1>1, <1>2, <2>1 DEF SeedInv, Blesses
<1>3. ASSUME BeginSeed PROVE SeedInv'
  <2>1. CisBaselineFacts' = CisBaselineFacts
    BY <1>3, BaselineKept DEF BeginSeed
  <2>2. /\ seeding' = CisBaselineFacts /\ known' = known
        /\ seeded' = "yes" => seeded = "yes"
    BY <1>3 DEF BeginSeed
  <2> QED
    BY <1>1, <2>1, <2>2 DEF SeedInv, Blesses
<1>4. ASSUME NEW f \in seeding, StoreKnownGood(f) PROVE SeedInv'
  <2>1. CisBaselineFacts' = CisBaselineFacts
    BY <1>4, BaselineKept DEF StoreKnownGood
  <2>2. /\ seeding' = seeding \ {f} /\ known' = Stored(known, f.key, f.value)
        /\ seeded' = IF seeded = "running" /\ seeding' = {} THEN "yes" ELSE seeded
        /\ f \in CisBaselineFacts
    BY <1>1, <1>4 DEF StoreKnownGood, SeedInv
  <2>3. ASSUME NEW g \in CisBaselineFacts, g = f \/ Blesses(g) PROVE Blesses(g)'
    <3>1. g.key = f.key => g.value = f.value
      BY <2>2, BaselineUnique
    <3> QED
      BY <2>2, <2>3, <3>1 DEF Blesses, Stored
  <2> QED
    BY <1>1, <2>1, <2>2, <2>3 DEF SeedInv
<1>5. ASSUME Abort PROVE SeedInv'
  <2>1. CisBaselineFacts' = CisBaselineFacts
    BY <1>5, BaselineKept DEF Abort
  <2>2. /\ known' = known /\ seeding' \subseteq seeding
        /\ \/ seeded' = seeded /\ (seeded = "running" => seeding' = seeding)
           \/ seeded' = "no"
    BY <1>1, <1>5 DEF Abort, DriftTypeOK
  <2> QED
    BY <1>1, <2>1, <2>2 DEF SeedInv, Blesses
<1>6. ASSUME NEW k \in Writable, UNCHANGED <<suppressed, seeding>>, seeded' = Overruled(k),
             DOMAIN known \ {k} \subseteq DOMAIN known',
             \A j \in DOMAIN known \ {k} : known'[j] = known[j]
      PROVE  SeedInv'
  <2>1. CisBaselineFacts' = CisBaselineFacts
    BY <1>6, BaselineKept
  <2>2. CASE IsCis(PredicateOf(k))
    BY <1>1, <1>6, <2>1, <2>2 DEF Overruled, SeedInv
  <2>3. CASE ~ IsCis(PredicateOf(k))
    <3>1. \A f \in CisBaselineFacts : f.key # k
      BY <2>3, BaselineType DEF IsCis
    <3>2. seeded' = seeded
      BY <1>6, <2>3 DEF Overruled
    <3>3. ASSUME NEW f \in CisBaselineFacts, Blesses(f) PROVE Blesses(f)'
      BY <1>6, <3>1, <3>3 DEF Blesses
    <3> QED
      BY <1>1, <1>6, <2>1, <3>2, <3>3 DEF SeedInv
  <2> QED
    BY <2>2, <2>3
<1>7. ASSUME NEW k \in Writable, NEW v, Bless(k, v) PROVE SeedInv'
  BY <1>6, <1>7 DEF Bless, Stored
<1>8. ASSUME NEW k \in Writable, SupersedeRow(k) PROVE SeedInv'
  <2>1. CASE UNCHANGED <<known, seeded>>
    BY <1>2, <1>8, <2>1 DEF SupersedeRow
  <2>2. CASE known' = Without(known, k) /\ seeded' = Overruled(k)
    BY <1>6, <1>8, <2>2 DEF SupersedeRow, Without
  <2> QED
    BY <1>8, <2>1, <2>2 DEF SupersedeRow
<1>9. ASSUME Restart PROVE SeedInv'
  <2>1. seeding' = {} /\ known' = known /\ seeded' \in {"yes", "no"}
        /\ (seeded' = "yes" => seeded = "yes" /\ suppressed' = suppressed)
    BY <1>9 DEF Restart
  <2>2. seeded' = "yes" => CisBaselineFacts' = CisBaselineFacts
    BY <2>1, BaselineKept
  <2> QED
    BY <1>1, <2>1, <2>2 DEF SeedInv, Blesses
<1>10. ASSUME NEW s \in Scan, NEW subject, ReadObserved(s, subject) \/ ReadKnownGood(s)
       PROVE  SeedInv'
  BY <1>2, <1>10 DEF ReadObserved, ReadKnownGood
<1>11. ASSUME NEW subject, NEW doc, BeginIngest(subject, doc) PROVE SeedInv'
  BY <1>2, <1>11 DEF BeginIngest
<1>12. ASSUME NEW f, StoreObserved(f) PROVE SeedInv'
  BY <1>2, <1>12 DEF StoreObserved
<1>13. ASSUME NEW k, NEW v, WriteObserved(k, v) PROVE SeedInv'
  BY <1>2, <1>13 DEF WriteObserved
<1>14. ASSUME UNCHANGED driftVars PROVE SeedInv'
  BY <1>2, <1>14 DEF driftVars
<1> QED
  BY <1>3, <1>4, <1>5, <1>7, <1>8, <1>9, <1>10, <1>11, <1>12, <1>13, <1>14 DEF DriftNext

(* Observations and the evidence behind them. *)
LEMMA EvidenceStep ==
    ASSUME DriftInv, [DriftNext]_driftVars
    PROVE  EvidenceInv'
<1> USE DEF tables, jobs
<1>1. EvidenceInv /\ DriftTypeOK /\ DOMAIN evidence \subseteq DOMAIN observed
  BY DEF DriftInv, DriftTypeOK
<1>2. ASSUME UNCHANGED <<observed, evidence>>, ingesting' \subseteq ingesting
      PROVE  EvidenceInv'
  BY <1>1, <1>2 DEF EvidenceInv, Collected
<1>3. ASSUME NEW subject \in Subject, NEW doc \in Evidence, BeginIngest(subject, doc)
      PROVE  EvidenceInv'
  <2>1. /\ UNCHANGED <<observed, evidence>>
        /\ ingesting' = ingesting \cup
                            {[key |-> <<subject, c>>, raw |-> doc[c]] :
                               c \in DOMAIN doc \cap ActiveControlKeys}
    BY <1>3 DEF BeginIngest
  <2>2. \A f \in ingesting' : Collected(PredicateOf(f.key), f.raw)
    BY <1>1, <2>1, ActiveKeysType DEF Collected, PredicateOf, EvidenceInv
  <2> QED
    BY <1>1, <2>1, <2>2 DEF EvidenceInv, Collected
<1>4. ASSUME NEW f \in ingesting, StoreObserved(f) PROVE EvidenceInv'
  <2>1. Collected(PredicateOf(f.key), f.raw)
    BY <1>1 DEF EvidenceInv
  <2>2. PICK v : v = NormalizeValue(f.raw)
    OBVIOUS
  <2>3. /\ ingesting' = ingesting \ {f} /\ observed' = Stored(observed, f.key, v)
        /\ evidence' = Stored(evidence, f.key, f.raw)
    BY <1>4, <2>2 DEF StoreObserved
  <2>4. ASSUME NEW k \in DOMAIN evidence'
        PROVE  /\ observed'[k] = NormalizeValue(evidence'[k])
               /\ Collected(PredicateOf(k), evidence'[k])
    <3>1. CASE k = f.key
      BY <2>1, <2>2, <2>3, <3>1 DEF Stored
    <3>2. CASE k # f.key
      BY <1>1, <2>3, <3>2 DEF Stored, EvidenceInv
    <3> QED
      BY <3>1, <3>2
  <2> QED
    BY <1>1, <2>3, <2>4 DEF EvidenceInv, Collected
<1>5. ASSUME NEW k, UNCHANGED ingesting, evidence' = Without(evidence, k),
             DOMAIN observed \ {k} \subseteq DOMAIN observed',
             \A j \in DOMAIN observed \ {k} : observed'[j] = observed[j]
      PROVE  EvidenceInv'
  <2>1. ASSUME NEW j \in DOMAIN evidence'
        PROVE  /\ observed'[j] = NormalizeValue(evidence'[j])
               /\ Collected(PredicateOf(j), evidence'[j])
    BY <1>1, <1>5 DEF Without, EvidenceInv
  <2> QED
    BY <1>1, <1>5, <2>1 DEF EvidenceInv, Collected
<1>6. ASSUME NEW k, NEW v, WriteObserved(k, v) PROVE EvidenceInv'
  BY <1>5, <1>6 DEF WriteObserved, Stored
<1>7. ASSUME NEW k, SupersedeRow(k) PROVE EvidenceInv'
  <2>1. CASE UNCHANGED <<observed, evidence>>
    BY <1>2, <1>7, <2>1 DEF SupersedeRow
  <2>2. CASE observed' = Without(observed, k) /\ evidence' = Without(evidence, k)
    BY <1>5, <1>7, <2>2 DEF SupersedeRow, Without
  <2> QED
    BY <1>7, <2>1, <2>2 DEF SupersedeRow
<1>8. ASSUME NEW s \in Scan, NEW subject, ReadObserved(s, subject) \/ ReadKnownGood(s)
      PROVE  EvidenceInv'
  BY <1>2, <1>8 DEF ReadObserved, ReadKnownGood
<1>9. ASSUME NEW f, StoreKnownGood(f) PROVE EvidenceInv'
  BY <1>2, <1>9 DEF StoreKnownGood
<1>10. ASSUME NEW k, NEW v, Bless(k, v) PROVE EvidenceInv'
  BY <1>2, <1>10 DEF Bless
<1>11. ASSUME BeginSeed \/ Abort \/ Restart \/ UNCHANGED driftVars PROVE EvidenceInv'
  BY <1>2, <1>11 DEF BeginSeed, Abort, Restart, driftVars
<1> QED
  BY <1>3, <1>4, <1>6, <1>7, <1>8, <1>9, <1>10, <1>11 DEF DriftNext

-----------------------------------------------------------------------------
(* The initial state. *)
LEMMA DriftInitInv == DriftInit => DriftInv
<1> SUFFICES ASSUME DriftInit PROVE DriftInv
  OBVIOUS
<1>1. DriftTypeOK
  BY DEF DriftInit, DriftTypeOK, IsTable, EmptyTable, Idle
<1>2. ScanInv
  BY DEF DriftInit, ScanInv
<1>3. SeedInv /\ EvidenceInv
  BY DEF DriftInit, SeedInv, EvidenceInv, EmptyTable
<1> QED
  BY <1>1, <1>2, <1>3 DEF DriftInv

(* The inductive invariant: what a seed has stored stays as it was stored  *)
(* until somebody overrules it (drift/cis.py), and an observed row is what *)
(* normalize_value made of its evidence (collectors/cis.py).               *)
THEOREM DriftSafe == DriftSpec => []DriftInv
<1>1. DriftInv /\ [DriftNext]_driftVars => DriftInv'
  BY DriftTypeStep, SeedStep, EvidenceStep DEF DriftInv
<1> QED
  BY <1>1, DriftInitInv, PTL DEF DriftSpec

(* Type correctness of the drift engine. *)
THEOREM DriftTyped == DriftSpec => []DriftTypeOK
<1>1. DriftInv => DriftTypeOK
  BY DEF DriftInv
<1> QED
  BY <1>1, DriftSafe, PTL

(* A finding names its key and its kind. *)
LEMMA FindingParts ==
    ASSUME NEW k, NEW kind
    PROVE  Finding(k, kind).key = k /\ Finding(k, kind).kind = kind
BY DEF Finding

(* Once a seed is complete, the generic scan of the store and the CIS      *)
(* check of the library report the same about the baseline (drift/cis.py). *)
THEOREM SeededScansAgree == DriftSpec => []SeedAgrees
<1>1. DriftInv => SeedAgrees
  <2> SUFFICES ASSUME DriftInv, seeded = "yes"
               PROVE  {f \in Diff(observed, known, TRUE) : f.key \in BaselineKeys}
                          = CisDrift(observed)
    BY DEF SeedAgrees
  <2>1. \A f \in CisBaselineFacts : Blesses(f)
    BY DEF DriftInv, SeedInv
  <2> DEFINE table == AsTable(CisBaselineFacts)
  <2>2. DOMAIN table = BaselineKeys
    BY DEF AsTable, BaselineKeys
  <2>3. ASSUME NEW k \in BaselineKeys PROVE k \in DOMAIN known /\ known[k] = table[k]
    <3>1. PICK f \in CisBaselineFacts : f.key = k
      BY DEF BaselineKeys
    <3>2. PICK g \in CisBaselineFacts : g.key = k /\ table[k] = g.value
      BY <3>1 DEF AsTable, BaselineKeys
    <3> QED
      BY <2>1, <3>2 DEF Blesses
  <2>4. CisDrift(observed) = Diff(observed, table, FALSE)
    BY DEF CisDrift
  <2> HIDE DEF table
  <2>5. ASSUME NEW f \in Diff(observed, known, TRUE), f.key \in BaselineKeys
        PROVE  f \in CisDrift(observed)
    <3>1. \/ \E k \in DOMAIN known : k \notin DOMAIN observed /\ f = Finding(k, "missing")
          \/ \E k \in DOMAIN known : /\ k \in DOMAIN observed /\ observed[k] # known[k]
                                     /\ f = Finding(k, "changed")
          \/ \E k \in DOMAIN observed : k \notin DOMAIN known
                                        /\ f = Finding(k, "unexpected")
      BY <2>5 DEF Diff
    <3>2. \/ \E k \in DOMAIN table : k \notin DOMAIN observed /\ f = Finding(k, "missing")
          \/ \E k \in DOMAIN table : /\ k \in DOMAIN observed /\ observed[k] # table[k]
                                     /\ f = Finding(k, "changed")
      BY <2>2, <2>3, <2>5, <3>1, FindingParts
    <3> QED
      BY <2>4, <3>2 DEF Diff
  <2>6. ASSUME NEW f \in CisDrift(observed)
        PROVE  f \in Diff(observed, known, TRUE) /\ f.key \in BaselineKeys
    <3>1. \/ \E k \in DOMAIN table : k \notin DOMAIN observed /\ f = Finding(k, "missing")
          \/ \E k \in DOMAIN table : /\ k \in DOMAIN observed /\ observed[k] # table[k]
                                     /\ f = Finding(k, "changed")
      BY <2>4, <2>6 DEF Diff
    <3>2. f.key \in BaselineKeys
      BY <2>2, <3>1, FindingParts
    <3>3. \/ \E k \in DOMAIN known : k \notin DOMAIN observed /\ f = Finding(k, "missing")
          \/ \E k \in DOMAIN known : /\ k \in DOMAIN observed /\ observed[k] # known[k]
                                     /\ f = Finding(k, "changed")
      BY <2>2, <2>3, <3>1
    <3> QED
      BY <3>2, <3>3 DEF Diff
  <2> QED
    BY <2>5, <2>6
<1> QED
  BY <1>1, DriftSafe, PTL

-----------------------------------------------------------------------------
(* The findings of drift_scan. *)
AllFindings(obs, des) == Diff(obs, des, TRUE)

(* The diff reports of each key its drift, once (drift/engine.py). *)
LEMMA DiffIsDrift ==
    ASSUME NEW obs, NEW des, NEW k
    PROVE  {f.kind : f \in {f \in AllFindings(obs, des) : f.key = k}} = DriftOf(k, obs, des)
<1> DEFINE kinds == {f.kind : f \in {f \in AllFindings(obs, des) : f.key = k}}
<1>1. /\ "missing" \in kinds <=> k \in DOMAIN des /\ k \notin DOMAIN obs
      /\ "changed" \in kinds <=> k \in DOMAIN des /\ k \in DOMAIN obs /\ obs[k] # des[k]
      /\ "unexpected" \in kinds <=> k \in DOMAIN obs /\ k \notin DOMAIN des
  <2>1. ASSUME NEW kind
        PROVE  kind \in kinds <=> \E f \in AllFindings(obs, des) : f.key = k /\ f.kind = kind
    OBVIOUS
  <2>2. ASSUME NEW kind \in {"missing", "changed", "unexpected"}
        PROVE  kind \in kinds <=> Finding(k, kind) \in AllFindings(obs, des)
    <3>1. ASSUME NEW f \in AllFindings(obs, des) PROVE f = Finding(f.key, f.kind)
      <4>1. PICK j, other : f = Finding(j, other)
        BY DEF AllFindings, Diff
      <4> QED
        BY <4>1, FindingParts
    <3> QED
      BY <2>1, <3>1, FindingParts
  <2> QED
    BY <2>2 DEF AllFindings, Diff, Finding
<1>2. kinds \subseteq {"missing", "changed", "unexpected"}
  BY DEF AllFindings, Diff, Finding
<1> HIDE DEF kinds
<1>3. CASE k \in DOMAIN obs /\ k \in DOMAIN des /\ obs[k] = des[k]
  <2>1. kinds = {}
    BY <1>1, <1>2, <1>3
  <2> QED
    BY <1>3, <2>1 DEF DriftOf, kinds
<1>4. CASE k \in DOMAIN obs /\ k \in DOMAIN des /\ obs[k] # des[k]
  <2>1. kinds = {"changed"}
    BY <1>1, <1>2, <1>4
  <2> QED
    BY <1>4, <2>1 DEF DriftOf, kinds
<1>5. CASE k \in DOMAIN obs /\ k \notin DOMAIN des
  <2>1. kinds = {"unexpected"}
    BY <1>1, <1>2, <1>5
  <2> QED
    BY <1>5, <2>1 DEF DriftOf, kinds
<1>6. CASE k \notin DOMAIN obs /\ k \in DOMAIN des
  <2>1. kinds = {"missing"}
    BY <1>1, <1>2, <1>6
  <2> QED
    BY <1>6, <2>1 DEF DriftOf, kinds
<1>7. CASE k \notin DOMAIN obs /\ k \notin DOMAIN des
  <2>1. kinds = {}
    BY <1>1, <1>2, <1>7
  <2> QED
    BY <1>7, <2>1 DEF DriftOf, kinds
<1> QED
  BY <1>3, <1>4, <1>5, <1>6, <1>7

(* The drift of a key depends on its two rows alone. *)
LEMMA DriftOfRows ==
    ASSUME NEW k, NEW obs1, NEW des1, NEW obs2, NEW des2,
           Same(k, obs1, obs2), Same(k, des1, des2)
    PROVE  DriftOf(k, obs1, des1) = DriftOf(k, obs2, des2)
BY DEF Same, DriftOf

(* Severities (drift/cis.py, drift/engine.py). *)
LEMMA SeverityOfControls ==
    ASSUME NEW obs, NEW des, NEW f \in AllFindings(obs, des),
           PredicateOf(f.key) \in Control \cup SecurityPredicates
    PROVE  f.severity = "critical"
<1>1. PICK j, kind : f = Finding(j, kind)
  BY DEF AllFindings, Diff
<1> QED
  BY <1>1 DEF Finding, CisSeverity, DefaultSeverity, IsCis

(* A scan answers in ReadKnownGood only. *)
LEMMA AnswerStep ==
    ASSUME ScanInv, [DriftNext]_driftVars, NEW s \in Scan,
           scan[s].pc = "observed", scan'[s].pc = "answered"
    PROVE  scan'[s].found = AllFindings(scan[s].obs, ListActive(known, scan[s].subject))
<1> USE DEF tables, jobs
<1>1. scan' # scan
  OBVIOUS
<1>2. ASSUME NEW t \in Scan, NEW subject, ReadObserved(t, subject) PROVE FALSE
  BY <1>2 DEF ReadObserved, ScanInv, Idle
<1>3. ASSUME Restart PROVE FALSE
  BY <1>3 DEF Restart, Idle
<1>4. ASSUME NEW t \in Scan, ReadKnownGood(t), t # s PROVE FALSE
  BY <1>4 DEF ReadKnownGood, Answer, ScanInv
<1>5. ASSUME ReadKnownGood(s)
      PROVE  scan'[s].found = AllFindings(scan[s].obs, ListActive(known, scan[s].subject))
  <2>1. PICK found : found = AllFindings(scan[s].obs, ListActive(known, scan[s].subject))
    OBVIOUS
  <2>2. scan' = [scan EXCEPT ![s] = [Idle EXCEPT !.pc = "answered", !.found = found]]
    BY <1>5, <2>1 DEF ReadKnownGood, Answer, AllFindings
  <2>3. scan'[s] = [Idle EXCEPT !.pc = "answered", !.found = found]
    BY <2>2 DEF ScanInv
  <2>4. scan'[s].found = found
    BY <2>3 DEF Idle
  <2> QED
    BY <2>1, <2>4
<1>6. ASSUME \/ \E subject \in Subject, doc \in Evidence : BeginIngest(subject, doc)
             \/ \E f \in ingesting : StoreObserved(f)
             \/ BeginSeed
             \/ \E f \in seeding : StoreKnownGood(f)
             \/ Abort
             \/ \E k \in Writable, v \in Blessed : WriteObserved(k, v) \/ Bless(k, v)
             \/ \E k \in Writable : SupersedeRow(k)
             \/ UNCHANGED driftVars
      PROVE  scan' = scan
  BY <1>6 DEF BeginIngest, StoreObserved, BeginSeed, StoreKnownGood, Abort, WriteObserved,
              Bless, SupersedeRow, driftVars
<1> QED
  BY <1>1, <1>2, <1>3, <1>4, <1>5, <1>6 DEF DriftNext

(* What a scan reports of a key was true at one of its two reads, unless   *)
(* both rows of the key were changed in between (tools/drift.py).          *)
THEOREM ScansAreTrue == DriftSpec => ScanTrueAtARead
<1>1. ASSUME DriftInv, [DriftNext]_driftVars
      PROVE  \A s \in Scan :
                scan[s].pc = "observed" /\ scan'[s].pc = "answered" => TrueAtARead(s)
  <2> SUFFICES ASSUME NEW s \in Scan, scan[s].pc = "observed", scan'[s].pc = "answered"
               PROVE  TrueAtARead(s)
    OBVIOUS
  <2>1. PICK then : then = scan[s].obs
    OBVIOUS
  <2>2. PICK obs : obs = ListActive(observed, scan[s].subject)
    OBVIOUS
  <2>3. PICK des : des = ListActive(known, scan[s].subject)
    OBVIOUS
  <2>4. PICK desThen : desThen = scan[s].desThen
    OBVIOUS
  <2>5. PICK found : found = scan'[s].found
    OBVIOUS
  <2>6. found = AllFindings(then, des)
    BY <1>1, <2>1, <2>3, <2>5, AnswerStep DEF DriftInv
  <2>7. ASSUME NEW k \in Key
        PROVE  LET kinds == {f.kind : f \in {f \in found : f.key = k}} IN
               \/ kinds = DriftOf(k, then, desThen)
               \/ kinds = DriftOf(k, obs, des)
               \/ ~ Same(k, then, obs) /\ ~ Same(k, desThen, des)
    <3> DEFINE kinds == {f.kind : f \in {f \in found : f.key = k}}
    <3>1. kinds = DriftOf(k, then, des)
      BY <2>6, DiffIsDrift
    <3> HIDE DEF kinds
    <3>2. Same(k, then, then) /\ Same(k, des, des)
      BY DEF Same
    <3>3. CASE Same(k, then, obs)
      BY <3>1, <3>2, <3>3, DriftOfRows DEF kinds
    <3>4. CASE Same(k, desThen, des)
      <4>1. Same(k, des, desThen)
        BY <3>4 DEF Same
      <4> QED
        BY <3>1, <3>2, <4>1, DriftOfRows DEF kinds
    <3> QED
      BY <3>3, <3>4
  <2>8. ASSUME NEW f \in found
        PROVE  /\ f.key \in Key
               /\ PredicateOf(f.key) \in Control \cup SecurityPredicates
                     => f.severity = "critical"
    <3>1. IsTable(then) /\ IsTable(des)
      BY <1>1, <2>1, <2>3, ListActiveType DEF DriftInv, DriftTypeOK, IsTable
    <3>2. f.key \in Key
      BY <2>6, <3>1, DiffType DEF AllFindings
    <3> QED
      BY <2>6, <3>2, SeverityOfControls
  <2> QED
    BY <2>1, <2>2, <2>3, <2>4, <2>5, <2>7, <2>8 DEF TrueAtARead
<1> QED
  BY <1>1, DriftSafe, PTL DEF DriftSpec, ScanTrueAtARead

-----------------------------------------------------------------------------
(* A baseline control is reported as changed exactly when its evidence and *)
(* its baseline setting normalize differently.                             *)
JudgedNormalized ==
    seeded = "yes" =>
        \A k \in BaselineKeys \cap DOMAIN evidence :
            Finding(k, "changed") \in Diff(observed, known, TRUE)
                <=> NormalizeValue(evidence[k]) # NormalizeValue(Desired[PredicateOf(k)])

(* However ingests, seeds, waivers and other writes interleave, both sides *)
(* of the comparison went through normalize_value once (drift/cis.py,      *)
(* collectors/cis.py): the diff never compares a raw setting.              *)
THEOREM EvidenceNormalized == DriftSpec => []JudgedNormalized
<1>1. DriftInv => JudgedNormalized
  <2> SUFFICES ASSUME DriftInv, seeded = "yes", NEW k \in BaselineKeys \cap DOMAIN evidence
               PROVE  Finding(k, "changed") \in Diff(observed, known, TRUE)
                        <=> NormalizeValue(evidence[k])
                              # NormalizeValue(Desired[PredicateOf(k)])
    BY DEF JudgedNormalized
  <2>1. PICK f \in CisBaselineFacts : f.key = k
    BY DEF BaselineKeys
  <2>2. k \in DOMAIN known /\ known[k] = NormalizeValue(Desired[PredicateOf(k)])
    BY <2>1, BaselineType DEF DriftInv, SeedInv, Blesses
  <2>3. k \in DOMAIN observed /\ observed[k] = NormalizeValue(evidence[k])
    BY DEF DriftInv, DriftTypeOK, EvidenceInv
  <2>4. Finding(k, "changed") \in Diff(observed, known, TRUE) <=> observed[k] # known[k]
    BY <2>2, <2>3 DEF Diff, Finding
  <2> QED
    BY <2>2, <2>3, <2>4
<1> QED
  BY <1>1, DriftSafe, PTL

(* Evidence is judged by what it says (drift/cis.py), for every run of the *)
(* system, if normalize_value is faithful on the documents at hand.        *)
THEOREM EvidenceJudgedIfFaithful == NormalizeFaithful /\ DriftSpec => []EvidenceJudged
<1>1. NormalizeFaithful /\ DriftInv /\ JudgedNormalized => EvidenceJudged
  <2> SUFFICES ASSUME NormalizeFaithful, DriftInv, JudgedNormalized, seeded = "yes",
                      NEW k \in BaselineKeys \cap DOMAIN evidence, Flat(evidence[k])
               PROVE  Finding(k, "changed") \in Diff(observed, known, TRUE)
                        <=> Meaning(evidence[k]) # Meaning(Desired[PredicateOf(k)])
    BY DEF EvidenceJudged
  <2>1. Finding(k, "changed") \in Diff(observed, known, TRUE)
            <=> NormalizeValue(evidence[k]) # NormalizeValue(Desired[PredicateOf(k)])
    BY DEF JudgedNormalized
  <2>2. PICK doc \in Evidence : PredicateOf(k) \in DOMAIN doc \cap Control
                                /\ evidence[k] = doc[PredicateOf(k)]
    BY DEF DriftInv, EvidenceInv, Collected
  <2>3. PICK c \in Control : c = PredicateOf(k)
    BY <2>2
  <2>4. NormalizeValue(doc[c]) # NormalizeValue(Desired[c])
            <=> Meaning(doc[c]) # Meaning(Desired[c])
    BY <2>2, <2>3 DEF NormalizeFaithful
  <2> QED
    BY <2>1, <2>2, <2>3, <2>4
<1>2. NormalizeFaithful => []NormalizeFaithful
  OBVIOUS
<1> QED
  BY <1>1, <1>2, DriftSafe, EvidenceNormalized, PTL
=============================================================================
