--------------------------- MODULE IndexRunProofs ---------------------------
(* Proofs about IndexRun, for every set of files, contents, services and
   rules and every environment. *)
EXTENDS IndexRun, TLAPS

(* Replacing one table of a graph database leaves a graph database whose
   other tables are untouched. *)
LEMMA DBFiles ==
  ASSUME NEW d \in DB, NEW x \in [File -> FileRow \cup {None}]
  PROVE  LET e == [d EXCEPT !.files = x]
         IN  /\ e \in DB /\ e.files = x
             /\ e.schema = d.schema /\ e.fp = d.fp /\ e.sem = d.sem /\ e.link = d.link
             /\ e.emb = d.emb /\ e.embed = d.embed /\ e.hist = d.hist
  BY DEF DB

(* The same for one row of the semantic cache.                             *)
LEMMA DBSem ==
  ASSUME NEW d \in DB, NEW s \in Service, NEW x \in SemRow \cup {None}
  PROVE  LET e == [d EXCEPT !.sem[s] = x]
         IN  /\ e \in DB /\ e.sem = [d.sem EXCEPT ![s] = x]
             /\ e.schema = d.schema /\ e.fp = d.fp /\ e.files = d.files /\ e.link = d.link
             /\ e.emb = d.emb /\ e.embed = d.embed /\ e.hist = d.hist
  BY DEF DB

(* The same for the link results.                                          *)
LEMMA DBLink ==
  ASSUME NEW d \in DB, NEW x \in Snapshot
  PROVE  LET e == [d EXCEPT !.link = x]
         IN  /\ e \in DB /\ e.link = x
             /\ e.schema = d.schema /\ e.fp = d.fp /\ e.files = d.files /\ e.sem = d.sem
             /\ e.emb = d.emb /\ e.embed = d.embed /\ e.hist = d.hist
  BY DEF DB

(* The same for the embedding status.                                      *)
LEMMA DBEmbed ==
  ASSUME NEW d \in DB, NEW x \in {"ok", "skipped", "failed"}
  PROVE  LET e == [d EXCEPT !.embed = x]
         IN  /\ e \in DB /\ e.embed = x
             /\ e.schema = d.schema /\ e.fp = d.fp /\ e.files = d.files /\ e.sem = d.sem
             /\ e.link = d.link /\ e.emb = d.emb /\ e.hist = d.hist
  BY DEF DB

(* The same for the embedding status and the vectors.                      *)
LEMMA DBVectors ==
  ASSUME NEW d \in DB, NEW x \in [File -> EmbRow \cup {None}]
  PROVE  LET e == [d EXCEPT !.embed = "ok", !.emb = x]
         IN  /\ e \in DB /\ e.embed = "ok" /\ e.emb = x
             /\ e.schema = d.schema /\ e.fp = d.fp /\ e.files = d.files /\ e.sem = d.sem
             /\ e.link = d.link /\ e.hist = d.hist
  BY DEF DB

(* A history row stays within HistoryCap and touches nothing else.         *)
LEMMA DBHistory ==
  ASSUME NEW d \in DB, NEW w \in BOOLEAN
  PROVE  LET e == WithHistoryRow(d, w)
         IN  /\ e \in DB
             /\ e.schema = d.schema /\ e.fp = d.fp /\ e.files = d.files /\ e.sem = d.sem
             /\ e.link = d.link /\ e.emb = d.emb /\ e.embed = d.embed
  BY ConstantsAssumption DEF DB, WithHistoryRow

(* The freshly created database is a database with no rows.                *)
LEMMA DBEmpty ==
  /\ EmptyDB \in DB
  /\ \A f \in File : EmptyDB.files[f] = None /\ EmptyDB.emb[f] = None
  /\ \A s \in Service : EmptyDB.sem[s] = None
  BY ConstantsAssumption DEF DB, EmptyDB

(* Hashing one file updates that hash only.                                *)
LEMMA LocalsHash ==
  ASSUME NEW r \in Locals, NEW f \in File, NEW x \in Content \cup {None}
  PROVE  LET e == [r EXCEPT !.hashes[f] = x]
         IN  /\ e \in Locals /\ e.hashes = [r.hashes EXCEPT ![f] = x]
             /\ e.cfg = r.cfg /\ e.rules = r.rules /\ e.listed = r.listed
             /\ e.fp = r.fp /\ e.cache = r.cache
  BY DEF Locals, Snapshot

(* Fixing the fingerprint updates the fingerprint only.                    *)
LEMMA LocalsFp ==
  ASSUME NEW r \in Locals, NEW x \in Fingerprint
  PROVE  LET e == [r EXCEPT !.fp = x]
         IN  /\ e \in Locals /\ e.fp = x /\ e.hashes = r.hashes
             /\ e.cfg = r.cfg /\ e.rules = r.rules /\ e.listed = r.listed
             /\ e.cache = r.cache
  BY DEF Locals

(* The absence of a row is no row: NoneAssumption, set by set.             *)
LEMMA NoneIsAbsence ==
  /\ None \notin DB /\ None \notin Fingerprint /\ None \notin FileRow /\ None \notin SemRow
  /\ None \notin EmbRow /\ None \notin Snapshot /\ None \notin Locals /\ None \notin Options
  /\ None \notin Content /\ None \notin Service /\ None \notin Schema
  BY ConstantsAssumption, NoneAssumption

-----------------------------------------------------------------------------
(* The inductive invariant.                                                *)

LEMMA InitIndexInv == Init => IndexInv
  BY NoneIsAbsence DEF Init, IndexInv, TypeOK, LocalsOK, TmpOK, PhaseOK, PublishedOK, Building

(* A step that leaves the databases and the run alone keeps the invariant. *)
LEMMA EnvKeepsInv ==
  ASSUME IndexInv, UNCHANGED <<db, tmp, runVars>>,
         disk' \in Snapshot, cfg' \in Config, pats' \in Pattern, deps' \in Deps,
         loadable' \in BOOLEAN, schema' \in Schema, quiet' \in BOOLEAN
  PROVE  IndexInv'
<1>1. TypeOK'
  BY DEF IndexInv, TypeOK, runVars
<1>2. LocalsOK' /\ TmpOK'
  BY DEF IndexInv, LocalsOK, TmpOK, runVars
<1>3. PhaseOK'
  BY DEF IndexInv, PhaseOK, FilesOf, SemOf, VectorsOf, HasEntities, OfService, runVars
<1>4. PublishedOK'
  BY DEF IndexInv, PublishedOK, FilesOf, SemOf, VectorsOf, HasEntities, OfService
<1>5. QED
  BY <1>1, <1>2, <1>3, <1>4 DEF IndexInv

(* Every edit of the environment, between runs or under one.               *)
LEMMA EditKeepsInv ==
  ASSUME IndexInv, Edit PROVE IndexInv'
<1>0. /\ UNCHANGED <<db, tmp, runVars>> /\ quiet' \in BOOLEAN
      /\ disk \in Snapshot /\ cfg \in Config /\ pats \in Pattern /\ deps \in Deps
      /\ loadable \in BOOLEAN /\ schema \in Schema
  BY DEF IndexInv, TypeOK, Edit, EditFile, EditConfig, EditPatterns, EditDeps, ToggleLoadable,
         Upgrade
<1>1. /\ disk' \in Snapshot /\ cfg' \in Config /\ pats' \in Pattern /\ deps' \in Deps
      /\ loadable' \in BOOLEAN /\ schema' \in Schema
  <2>1. ASSUME NEW f \in File, NEW c \in Content \cup {None}, EditFile(f, c) PROVE <1>1!:
    BY <1>0, <2>1 DEF EditFile, Snapshot
  <2>2. ASSUME NEW f \in File, NEW s \in Service \cup {None}, EditConfig(f, s) PROVE <1>1!:
    BY <1>0, <2>2 DEF EditConfig, Config
  <2>3. ASSUME NEW p \in Pattern, EditPatterns(p) PROVE <1>1!:
    BY <1>0, <2>3 DEF EditPatterns
  <2>4. ASSUME NEW d \in Deps, EditDeps(d) PROVE <1>1!:
    BY <1>0, <2>4 DEF EditDeps
  <2>5. ASSUME ToggleLoadable PROVE <1>1!:
    BY <1>0, <2>5 DEF ToggleLoadable
  <2>6. ASSUME NEW v \in Schema, Upgrade(v) PROVE <1>1!:
    BY <1>0, <2>6 DEF Upgrade
  <2>7. QED
    BY <2>1, <2>2, <2>3, <2>4, <2>5, <2>6 DEF Edit
<1>2. QED
  BY <1>0, <1>1, EnvKeepsInv

(* Opening a graph, hashing, and giving up never touch the databases' rows. *)
LEMMA StartKeepsInv ==
  ASSUME IndexInv, NEW o \in Options, NEW opened \in BOOLEAN, StartRun(o, opened)
  PROVE  IndexInv'
<1>1. ran' \in Locals /\ opt' = o /\ pc' = "hash" /\ UNCHANGED <<db, tmp, envVars>>
  BY ConstantsAssumption
  DEF IndexInv, TypeOK, StartRun, Locals, Rules, CacheUsable, NoHashes, Snapshot
<1>2. TypeOK'
  BY <1>1 DEF IndexInv, TypeOK, StartRun, envVars
<1>3. LocalsOK'
  BY <1>1 DEF StartRun, LocalsOK, NoHashes, CacheUsable
<1>4. TmpOK' /\ PhaseOK'
  BY <1>1 DEF TmpOK, PhaseOK, Building
<1>5. PublishedOK'
  BY <1>1 DEF IndexInv, PublishedOK, FilesOf, SemOf, VectorsOf, HasEntities, OfService
<1>6. QED
  BY <1>2, <1>3, <1>4, <1>5 DEF IndexInv

(* A hash belongs to a file some service of the configuration owns.        *)
LEMMA HashKeepsInv ==
  ASSUME IndexInv, NEW f \in File, HashFile(f)
  PROVE  IndexInv'
<1>1. ran \in Locals /\ opt \in Options /\ disk[f] \in Content \cup {None}
  BY DEF IndexInv, LocalsOK, HashFile, TypeOK, Snapshot
<1>2. /\ ran' \in Locals /\ ran'.hashes = [ran.hashes EXCEPT ![f] = disk[f]]
      /\ ran'.cfg = ran.cfg /\ ran'.cache = ran.cache
  BY <1>1, LocalsHash DEF HashFile
<1>3. pc = "hash" /\ pc' = "hash" /\ todo' = todo \ {f} /\ f \in todo
      /\ UNCHANGED <<db, tmp, opt, envVars, outcome, quiet>>
  BY DEF HashFile
<1>4. TypeOK'
  BY <1>2, <1>3 DEF IndexInv, TypeOK, envVars
<1>5. LocalsOK'
  <2>1. ran.hashes \in [File -> Content \cup {None}]
    BY <1>1 DEF Locals, Snapshot
  <2>2. QED
    BY <1>1, <1>2, <1>3, <2>1 DEF IndexInv, LocalsOK
<1>6. TmpOK' /\ PhaseOK'
  BY <1>3 DEF TmpOK, PhaseOK, Building
<1>7. PublishedOK'
  BY <1>3 DEF IndexInv, PublishedOK, FilesOf, SemOf, VectorsOf, HasEntities, OfService
<1>8. QED
  BY <1>4, <1>5, <1>6, <1>7 DEF IndexInv

(* A history row, written in place, keeps the published graph as it is.    *)
LEMMA HistoryKeepsInv ==
  ASSUME IndexInv, db # None, NEW w \in BOOLEAN, db' = WithHistoryRow(db, w),
         FinishRun("ok"), UNCHANGED <<envVars, tmp, opt, quiet>>
  PROVE  IndexInv'
<1>1. db \in DB
  BY DEF IndexInv, TypeOK
<1>2. /\ db' \in DB /\ db'.schema = db.schema /\ db'.fp = db.fp /\ db'.files = db.files
      /\ db'.sem = db.sem /\ db'.link = db.link /\ db'.emb = db.emb /\ db'.embed = db.embed
  BY <1>1, DBHistory
<1>3. TypeOK'
  BY <1>2 DEF IndexInv, TypeOK, FinishRun, envVars
<1>4. LocalsOK' /\ TmpOK' /\ PhaseOK'
  BY DEF FinishRun, LocalsOK, TmpOK, PhaseOK, Building
<1>5. PublishedOK'
  BY <1>2 DEF IndexInv, PublishedOK, FilesOf, SemOf, VectorsOf, HasEntities, OfService
<1>6. QED
  BY <1>3, <1>4, <1>5 DEF IndexInv

(* The fast path needs a cache, hence a graph.                             *)
LEMMA FastPathKeepsInv ==
  ASSUME IndexInv, NEW w \in BOOLEAN, FastPath(w) PROVE IndexInv'
<1>1. db # None
  BY DEF IndexInv, LocalsOK, FastPath, NoChange
<1>2. QED
  BY <1>1, HistoryKeepsInv DEF FastPath

(* An aborted run leaves graph.db as it was.                               *)
LEMMA AbortKeepsInv ==
  ASSUME IndexInv, Abort PROVE IndexInv'
<1>1. TypeOK'
  BY DBEmpty DEF IndexInv, TypeOK, Abort, FinishRun, envVars
<1>2. LocalsOK' /\ TmpOK' /\ PhaseOK'
  BY DEF Abort, FinishRun, LocalsOK, TmpOK, PhaseOK, Building
<1>3. PublishedOK'
  BY DEF Abort, IndexInv, PublishedOK, FilesOf, SemOf, VectorsOf, HasEntities, OfService
<1>4. QED
  BY <1>1, <1>2, <1>3 DEF IndexInv

(* The new graph.db.tmp has no row yet, and the run a fingerprint of what
   it hashed. *)
LEMMA BeginKeepsInv ==
  ASSUME IndexInv, NEW reopened \in BOOLEAN, BeginBuild(reopened)
  PROVE  IndexInv'
<1>1. ran \in Locals /\ opt \in Options /\ pats \in Pattern
  BY DEF IndexInv, LocalsOK, BeginBuild, TypeOK
<1>2. /\ WorkspaceFingerprint \in Fingerprint
      /\ WorkspaceFingerprint.files = ran.hashes /\ WorkspaceFingerprint.cfg = ran.cfg
      /\ WorkspaceFingerprint.embedder = opt.embedder
  BY <1>1 DEF WorkspaceFingerprint, Fingerprint, Locals, Options
<1>3. /\ ran' \in Locals /\ ran'.fp = WorkspaceFingerprint /\ ran'.hashes = ran.hashes
      /\ ran'.cfg = ran.cfg /\ ran'.cache = ran.cache
  BY <1>1, <1>2, LocalsFp DEF BeginBuild
<1>4. /\ pc = "hash" /\ pc' = "parse" /\ tmp' = EmptyDB
      /\ UNCHANGED <<envVars, db, opt, todo, outcome, quiet>>
  BY DEF BeginBuild
<1>5. TypeOK'
  BY <1>3, <1>4, DBEmpty DEF IndexInv, TypeOK, envVars
<1>6. LocalsOK'
  BY <1>1, <1>3, <1>4 DEF IndexInv, LocalsOK
<1>7. TmpOK'
  BY <1>2, <1>3, <1>4, DBEmpty DEF TmpOK
<1>8. PhaseOK'
  BY <1>4, DBEmpty, ConstantsAssumption DEF PhaseOK, SemOf, VectorsOf
<1>9. PublishedOK'
  BY <1>4 DEF IndexInv, PublishedOK, FilesOf, SemOf, VectorsOf, HasEntities, OfService
<1>10. QED
  BY <1>5, <1>6, <1>7, <1>8, <1>9 DEF IndexInv

(* What the phases of a build share: they run with their locals and only
   graph.db.tmp, the phase and the work list change. *)
LEMMA BuildStepKeepsInv ==
  ASSUME IndexInv, pc \in Building, pc' \in Building, pc' # "semantic" \/ todo' \subseteq SemService,
         tmp' \in DB, todo' \subseteq File \cup Service,
         UNCHANGED <<cfg, pats, deps, loadable, schema, db, opt, ran, outcome>>,
         disk' \in Snapshot, quiet' \in BOOLEAN, PhaseOK'
  PROVE  IndexInv'
<1>1. TypeOK'
  BY DEF IndexInv, TypeOK, Building
<1>2. LocalsOK' /\ TmpOK'
  BY DEF IndexInv, LocalsOK, TmpOK, Building
<1>3. PublishedOK'
  BY DEF IndexInv, PublishedOK, FilesOf, SemOf, VectorsOf, HasEntities, OfService
<1>4. QED
  BY <1>1, <1>2, <1>3 DEF IndexInv

(* A reused row has the hash and the service a new one would have.         *)
LEMMA ParseKeepsInv ==
  ASSUME IndexInv, Parse PROVE IndexInv'
<1> DEFINE row(f) == IF ran.hashes[f] = None THEN None
                     ELSE IF CacheHit(f) THEN db.files[f] ELSE ParseNow(f)
           rows == [f \in File |-> row(f)]
<1>1. /\ pc = "parse" /\ pc' = "semantic" /\ todo' = SemService
      /\ tmp' = [tmp EXCEPT !.files = rows]
      /\ UNCHANGED <<envVars, db, opt, ran, outcome, quiet>>
  BY DEF Parse
<1>2. /\ ran \in Locals /\ tmp \in DB /\ db \in DB \cup {None}
      /\ ran.cache => db # None
      /\ \A f \in File : ran.hashes[f] # None => ran.cfg[f] # None
  BY <1>1 DEF IndexInv, TypeOK, LocalsOK, TmpOK, Building
<1>3. ASSUME NEW f \in File
      PROVE  /\ row(f) \in FileRow \cup {None}
             /\ (row(f) = None) <=> (ran.hashes[f] = None)
             /\ row(f) # None => row(f).hash = ran.hashes[f] /\ row(f).svc = ran.cfg[f]
  <2>1. CASE ran.hashes[f] = None
    BY <2>1
  <2>2. CASE ran.hashes[f] # None /\ CacheHit(f)
    <3>1. db \in DB
      BY <1>2, <2>2 DEF CacheHit
    <3>2. db.files[f] \in FileRow
      BY <3>1, <2>2 DEF DB, CacheHit
    <3>3. QED
      BY <2>2, <3>2, NoneIsAbsence DEF CacheHit
  <2>3. CASE ran.hashes[f] # None /\ ~CacheHit(f)
    <3>1. ran.hashes[f] \in Content /\ ran.cfg[f] \in Service /\ ran.rules \in Rules
      BY <1>2, <2>3 DEF Locals, Snapshot, Config
    <3>2. ParseNow(f) \in FileRow
      BY <3>1 DEF ParseNow, FileRow
    <3>3. row(f) = ParseNow(f)
      BY <2>3
    <3>4. QED
      BY <2>3, <3>2, <3>3, NoneIsAbsence DEF ParseNow
  <2>4. QED
    BY <2>1, <2>2, <2>3
<1> HIDE DEF row
<1>4. rows \in [File -> FileRow \cup {None}]
  BY <1>3
<1> HIDE DEF rows
<1>5. tmp' \in DB /\ tmp'.files = rows /\ tmp'.sem = tmp.sem /\ tmp'.emb = tmp.emb
  BY <1>1, <1>2, <1>4, DBFiles
<1>6. \A f \in File : tmp'.files[f] = row(f)
  BY <1>5 DEF rows
<1>7. PhaseOK'
  <2>1. FilesOf(tmp', ran'.hashes, ran'.cfg)
    BY <1>1, <1>3, <1>6 DEF FilesOf
  <2>2. SemOf(tmp', ran'.hashes, ran'.cfg)
    BY <1>1, <1>5 DEF IndexInv, PhaseOK, Building, SemOf, OfService
  <2>3. \A f \in File : tmp.emb[f] = None
    BY <1>1 DEF IndexInv, PhaseOK
  <2>4. VectorsOf(tmp', opt'.embedder)
    BY <1>5, <2>3 DEF VectorsOf
  <2>5. QED
    BY <1>1, <2>1, <2>2, <2>4 DEF PhaseOK
<1>8. QED
  BY <1>1, <1>5, <1>7, BuildStepKeepsInv, ConstantsAssumption
  DEF Building, IndexInv, TypeOK, envVars

(* A reused semantic result has the fingerprint of this run's hashes.      *)
LEMMA SemanticKeepsInv ==
  ASSUME IndexInv, NEW s \in SemService, Semantic(s) PROVE IndexInv'
<1> DEFINE fp == OfService(ran.hashes, ran.cfg, s)
<1>1. /\ pc = "semantic" /\ pc' = "semantic" /\ todo' = todo \ {s}
      /\ UNCHANGED <<cfg, pats, deps, loadable, schema, db, opt, ran, outcome>>
  BY DEF Semantic
<1>2. /\ ran \in Locals /\ tmp \in DB /\ db \in DB \cup {None} /\ s \in Service
      /\ ran.cache => db # None
      /\ disk \in Snapshot /\ quiet \in BOOLEAN /\ todo \subseteq SemService
  BY <1>1, ConstantsAssumption DEF IndexInv, TypeOK, LocalsOK, TmpOK, Building
<1>3. fp \in Snapshot
  BY <1>2 DEF OfService, Locals, Snapshot
<1>4. disk' \in Snapshot /\ quiet' \in BOOLEAN
  <2>1. CASE UNCHANGED <<disk, quiet>>
    BY <1>2, <2>1
  <2>2. CASE TemplGenerate(s)
    BY <1>2, <2>2, ConstantsAssumption DEF TemplGenerate, Snapshot
  <2>3. QED
    BY <2>1, <2>2 DEF Semantic
<1> HIDE DEF fp
<1>5. PICK row \in SemRow \cup {None} :
        tmp' = [tmp EXCEPT !.sem[s] = row] /\ (row # None => row.fp = fp)
  <2>1. CASE SemanticHit(s, fp) /\ tmp' = [tmp EXCEPT !.sem[s] = db.sem[s]]
    <3>1. db \in DB
      BY <1>2, <2>1 DEF SemanticHit
    <3>2. db.sem[s] \in SemRow \cup {None}
      BY <1>2, <3>1 DEF DB
    <3>3. QED
      BY <2>1, <3>2 DEF SemanticHit
  <2>2. CASE loadable /\ tmp' = [tmp EXCEPT !.sem[s] = [fp |-> fp, seen |-> OfService(disk', ran.cfg, s)]]
    <3>1. OfService(disk', ran.cfg, s) \in Snapshot
      BY <1>2, <1>4 DEF OfService, Locals, Snapshot
    <3> DEFINE row == [fp |-> fp, seen |-> OfService(disk', ran.cfg, s)]
    <3>2. row \in SemRow /\ row.fp = fp /\ tmp' = [tmp EXCEPT !.sem[s] = row]
      BY <1>3, <2>2, <3>1 DEF SemRow
    <3> HIDE DEF row
    <3>3. QED
      BY <3>2
  <2>3. CASE ~loadable /\ tmp' = [tmp EXCEPT !.sem[s] = None]
    BY <2>3
  <2>4. QED
    BY <2>1, <2>2, <2>3 DEF Semantic, fp
<1>6. /\ tmp' \in DB /\ tmp'.sem = [tmp.sem EXCEPT ![s] = row]
      /\ tmp'.files = tmp.files /\ tmp'.emb = tmp.emb
  BY <1>2, <1>5, DBSem
<1>7. PhaseOK'
  <2>1. FilesOf(tmp', ran'.hashes, ran'.cfg)
    BY <1>1, <1>6 DEF IndexInv, PhaseOK, FilesOf
  <2>2. SemOf(tmp', ran'.hashes, ran'.cfg)
    <3>1. SemOf(tmp, ran.hashes, ran.cfg)
      BY <1>1 DEF IndexInv, PhaseOK, Building
    <3>2. tmp.sem \in [Service -> SemRow \cup {None}]
      BY <1>2 DEF DB
    <3>3. QED
      BY <1>1, <1>2, <1>5, <1>6, <3>1, <3>2, ConstantsAssumption DEF SemOf, fp
  <2>3. VectorsOf(tmp', opt'.embedder)
    BY <1>1, <1>6 DEF IndexInv, PhaseOK, Building, VectorsOf, HasEntities
  <2>4. QED
    BY <1>1, <2>1, <2>2, <2>3 DEF PhaseOK
<1>8. QED
  BY <1>1, <1>2, <1>4, <1>6, <1>7, BuildStepKeepsInv, ConstantsAssumption DEF Building

(* The link passes leave the other tables alone.                           *)
LEMMA LinkKeepsInv ==
  ASSUME IndexInv, Link PROVE IndexInv'
<1> DEFINE read == [f \in File |-> IF f \in ran.listed THEN disk[f] ELSE None]
<1>1. /\ pc = "semantic" /\ pc' = "embed" /\ todo' = todo /\ tmp' = [tmp EXCEPT !.link = read]
      /\ UNCHANGED <<envVars, db, opt, ran, outcome, quiet>>
  BY DEF Link
<1>2. tmp \in DB /\ disk \in Snapshot /\ quiet \in BOOLEAN /\ todo \in SUBSET (File \cup Service)
  BY <1>1 DEF IndexInv, TypeOK, TmpOK, Building
<1>3. read \in Snapshot
  BY <1>2 DEF Snapshot
<1> HIDE DEF read
<1>4. /\ tmp' \in DB /\ tmp'.link = read
      /\ tmp'.files = tmp.files /\ tmp'.sem = tmp.sem /\ tmp'.emb = tmp.emb
  BY <1>1, <1>2, <1>3, DBLink
<1>5. PhaseOK'
  <2>1. FilesOf(tmp', ran'.hashes, ran'.cfg)
    BY <1>1, <1>4 DEF IndexInv, PhaseOK, FilesOf
  <2>2. SemOf(tmp', ran'.hashes, ran'.cfg)
    BY <1>1, <1>4 DEF IndexInv, PhaseOK, Building, SemOf, OfService
  <2>3. VectorsOf(tmp', opt'.embedder)
    BY <1>1, <1>4 DEF IndexInv, PhaseOK, Building, VectorsOf, HasEntities
  <2>4. QED
    BY <1>1, <1>3, <1>4, <2>1, <2>2, <2>3, NoneIsAbsence DEF PhaseOK
<1>6. QED
  BY <1>1, <1>2, <1>4, <1>5, BuildStepKeepsInv DEF Building, envVars

(* A vector is written for a file that has entities, from its new row.     *)
LEMMA EmbedKeepsInv ==
  ASSUME IndexInv, EmbedPass PROVE IndexInv'
<1> DEFINE vecs == [f \in File |-> IF HasEntities(tmp, f) /\ ~Unchanged(f) THEN Vector(f) ELSE None]
<1>1. /\ pc = "embed" /\ pc' = "meta" /\ todo' = todo
      /\ UNCHANGED <<envVars, db, opt, ran, outcome, quiet>>
  BY DEF EmbedPass
<1>2. /\ tmp \in DB /\ opt \in Options /\ disk \in Snapshot /\ quiet \in BOOLEAN
      /\ todo \in SUBSET (File \cup Service)
  BY <1>1 DEF IndexInv, TypeOK, TmpOK, LocalsOK, Building
<1>3. vecs \in [File -> EmbRow \cup {None}]
  <2>1. ASSUME NEW f \in File, HasEntities(tmp, f) PROVE Vector(f) \in EmbRow
    <3>1. tmp.files[f] \in FileRow /\ opt.embedder \in Embedder
      BY <1>2, <2>1 DEF DB, HasEntities, Options
    <3>2. QED
      BY <3>1 DEF Vector, EmbRow
  <2>2. QED
    BY <2>1
<1>4. ASSUME NEW f \in File, vecs[f] # None
      PROVE  HasEntities(tmp, f) /\ vecs[f] = [embedder |-> opt.embedder, of |-> tmp.files[f]]
  BY <1>4 DEF Vector
<1> HIDE DEF vecs
<1>5. /\ tmp' \in DB /\ tmp'.files = tmp.files /\ tmp'.sem = tmp.sem /\ tmp'.link = tmp.link
      /\ tmp'.embed # "unset" /\ (tmp'.emb = tmp.emb \/ tmp'.emb = vecs)
  <2>1. CASE tmp' = [tmp EXCEPT !.embed = "skipped"]
    BY <1>2, <2>1, DBEmbed
  <2>2. CASE tmp' = [tmp EXCEPT !.embed = "failed"]
    BY <1>2, <2>2, DBEmbed
  <2>3. CASE tmp' = [tmp EXCEPT !.embed = "ok", !.emb = vecs]
    BY <1>2, <1>3, <2>3, DBVectors
  <2>4. QED
    BY <2>1, <2>2, <2>3 DEF EmbedPass, vecs
<1>6. PhaseOK'
  <2>1. FilesOf(tmp', ran'.hashes, ran'.cfg)
    BY <1>1, <1>5 DEF IndexInv, PhaseOK, FilesOf
  <2>2. SemOf(tmp', ran'.hashes, ran'.cfg)
    BY <1>1, <1>5 DEF IndexInv, PhaseOK, Building, SemOf, OfService
  <2>3. VectorsOf(tmp', opt'.embedder)
    <3>1. VectorsOf(tmp, opt.embedder)
      BY <1>1 DEF IndexInv, PhaseOK, Building
    <3>2. QED
      BY <1>1, <1>4, <1>5, <3>1 DEF VectorsOf, HasEntities
  <2>4. tmp'.link # None
    BY <1>1, <1>5 DEF IndexInv, PhaseOK
  <2>5. QED
    BY <1>1, <1>5, <2>1, <2>2, <2>3, <2>4 DEF PhaseOK
<1>7. QED
  BY <1>1, <1>2, <1>5, <1>6, BuildStepKeepsInv DEF Building, envVars

(* The meta keys record the fingerprint the tables were built for.         *)
LEMMA MetaKeepsInv ==
  ASSUME IndexInv, WriteMeta PROVE IndexInv'
<1>1. /\ pc = "meta" /\ pc' = "swap" /\ todo' = todo
      /\ tmp' = [tmp EXCEPT !.schema = schema, !.fp = ran.fp]
      /\ UNCHANGED <<envVars, db, opt, ran, outcome, quiet>>
  BY DEF WriteMeta
<1>2. /\ tmp \in DB /\ ran.fp \in Fingerprint /\ schema \in Schema
      /\ disk \in Snapshot /\ quiet \in BOOLEAN /\ todo \in SUBSET (File \cup Service)
  BY <1>1 DEF IndexInv, TypeOK, TmpOK, Building
<1>3. /\ tmp' \in DB /\ tmp'.schema = schema /\ tmp'.fp = ran.fp
      /\ tmp'.files = tmp.files /\ tmp'.sem = tmp.sem /\ tmp'.emb = tmp.emb
      /\ tmp'.link = tmp.link /\ tmp'.embed = tmp.embed
  <2> DEFINE fp == ran.fp
  <2>1. fp \in Fingerprint /\ tmp' = [tmp EXCEPT !.schema = schema, !.fp = fp]
    BY <1>1, <1>2
  <2> HIDE DEF fp
  <2>2. /\ tmp' \in DB /\ tmp'.schema = schema /\ tmp'.fp = fp
        /\ tmp'.files = tmp.files /\ tmp'.sem = tmp.sem /\ tmp'.emb = tmp.emb
        /\ tmp'.link = tmp.link /\ tmp'.embed = tmp.embed
    BY <1>2, <2>1 DEF DB
  <2>3. QED
    BY <2>2 DEF fp
<1>4. PhaseOK'
  <2>1. FilesOf(tmp', ran'.hashes, ran'.cfg)
    BY <1>1, <1>3 DEF IndexInv, PhaseOK, FilesOf
  <2>2. SemOf(tmp', ran'.hashes, ran'.cfg)
    BY <1>1, <1>3 DEF IndexInv, PhaseOK, Building, SemOf, OfService
  <2>3. VectorsOf(tmp', opt'.embedder)
    BY <1>1, <1>3 DEF IndexInv, PhaseOK, Building, VectorsOf, HasEntities
  <2>4. tmp'.link # None /\ tmp'.embed # "unset"
    BY <1>1, <1>3 DEF IndexInv, PhaseOK
  <2>5. QED
    BY <1>1, <1>2, <1>3, <2>1, <2>2, <2>3, <2>4, NoneIsAbsence DEF PhaseOK
<1>5. QED
  BY <1>1, <1>2, <1>3, <1>4, BuildStepKeepsInv DEF Building, envVars

(* What the rename publishes: a finished graph.db.tmp is a graph whose
   tables are those of its own fingerprint. *)
LEMMA SwapPublishes ==
  ASSUME IndexInv, Swap
  PROVE  /\ db' = tmp /\ tmp \in DB
         /\ tmp.schema # None /\ tmp.fp \in Fingerprint /\ tmp.link # None /\ tmp.embed # "unset"
         /\ FilesOf(tmp, tmp.fp.files, tmp.fp.cfg)
         /\ SemOf(tmp, tmp.fp.files, tmp.fp.cfg)
         /\ VectorsOf(tmp, tmp.fp.embedder)
  BY DEF IndexInv, Swap, TmpOK, PhaseOK, Building

LEMMA SwapKeepsInv ==
  ASSUME IndexInv, Swap PROVE IndexInv'
<1>1. /\ pc = "swap" /\ pc' = "history" /\ db' = tmp /\ tmp' = None
      /\ UNCHANGED <<envVars, opt, ran, todo, outcome, quiet>>
  BY DEF Swap
<1>2. TypeOK'
  BY <1>1, SwapPublishes DEF IndexInv, TypeOK, envVars
<1>3. LocalsOK'
  BY <1>1, SwapPublishes, NoneIsAbsence DEF IndexInv, LocalsOK
<1>4. TmpOK' /\ PhaseOK'
  BY <1>1 DEF TmpOK, PhaseOK, Building
<1>5. PublishedOK'
  <2>1. FilesOf(db', db'.fp.files, db'.fp.cfg)
    BY SwapPublishes DEF FilesOf
  <2>2. SemOf(db', db'.fp.files, db'.fp.cfg)
    BY SwapPublishes DEF SemOf, OfService
  <2>3. VectorsOf(db', db'.fp.embedder)
    BY SwapPublishes DEF VectorsOf, HasEntities
  <2>4. QED
    BY SwapPublishes, <2>1, <2>2, <2>3, NoneIsAbsence DEF PublishedOK
<1>6. QED
  BY <1>2, <1>3, <1>4, <1>5 DEF IndexInv

LEMMA RunKeepsInv ==
  ASSUME IndexInv, Run PROVE IndexInv'
<1>1. ASSUME NEW w \in BOOLEAN, RecordHistory(w) PROVE IndexInv'
  <2>1. db # None
    BY <1>1 DEF IndexInv, LocalsOK, RecordHistory
  <2>2. QED
    BY <1>1, <2>1, HistoryKeepsInv DEF RecordHistory
<1>2. QED
  BY <1>1, StartKeepsInv, HashKeepsInv, FastPathKeepsInv, BeginKeepsInv, ParseKeepsInv,
     SemanticKeepsInv, LinkKeepsInv, EmbedKeepsInv, MetaKeepsInv, SwapKeepsInv, AbortKeepsInv
  DEF Run

LEMMA StutterKeepsInv ==
  ASSUME IndexInv, UNCHANGED vars PROVE IndexInv'
  BY EnvKeepsInv DEF IndexInv, TypeOK, vars, envVars

(* IndexInv is an inductive invariant of indexer.Run in every environment.  *)
THEOREM IndexInvariant == Spec => []IndexInv
<1>1. IndexInv /\ [Next]_vars => IndexInv'
  BY EditKeepsInv, RunKeepsInv, StutterKeepsInv DEF Next
<1>2. QED
  BY InitIndexInv, <1>1, PTL DEF Spec

(* The state always has its type: graph.db and graph.db.tmp are databases,
   and at most HistoryCap run timestamps are kept. *)
THEOREM TypeCorrect == Spec => []TypeOK
<1>1. IndexInv => TypeOK
  BY DEF IndexInv
<1>2. QED
  BY IndexInvariant, <1>1, PTL

(* graph.db is never a partial build, in whatever phase runs fail or are
   killed and whatever is edited under them. *)
THEOREM NeverPartial == Spec => []PublishedComplete
<1>1. IndexInv => PublishedComplete
  BY DEF IndexInv, PublishedOK, FilesOf, PublishedComplete, Complete
<1>2. QED
  BY IndexInvariant, <1>1, PTL

(* However many runs reused rows of one another, the file and semantic
   caches of graph.db are those of its own fingerprint. *)
THEOREM CachesFiledRight == Spec => []CachesMatchFingerprint
<1>1. IndexInv => CachesMatchFingerprint
  BY DEF IndexInv, PublishedOK, FilesOf, SemOf, CachesMatchFingerprint
<1>2. QED
  BY IndexInvariant, <1>1, PTL

(* The vectors of graph.db are of its own embedder and its own nodes.      *)
THEOREM VectorsFiledRight == Spec => []VectorsMatchGraph
<1>1. IndexInv => VectorsMatchGraph
  BY DEF IndexInv, PublishedOK, VectorsOf, VectorsMatchGraph
<1>2. QED
  BY IndexInvariant, <1>1, PTL

-----------------------------------------------------------------------------
(* Atomic publication.                                                     *)

(* A history row, the one thing written into graph.db in place, is not part
   of the graph a reader sees. *)
LEMMA HistoryIsNotGraph ==
  ASSUME NEW d \in DB, NEW w \in BOOLEAN
  PROVE  GraphOf(WithHistoryRow(d, w)) = GraphOf(d)
<1> DEFINE e == WithHistoryRow(d, w)
<1>1. e \in DB /\ e.schema = d.schema /\ e.fp = d.fp /\ e.files = d.files /\ e.sem = d.sem
      /\ e.link = d.link /\ e.emb = d.emb /\ e.embed = d.embed
  BY DBHistory
<1>2. d # None /\ e # None
  BY <1>1, NoneIsAbsence
<1> HIDE DEF e
<1>3. GraphOf(e) = GraphOf(d)
  BY <1>1, <1>2 DEF GraphOf
<1>4. QED
  BY <1>3 DEF e

(* The rename publishes a complete build.                                  *)
LEMMA SwapRefinesPublish ==
  ASSUME IndexInv, Swap PROVE Publication!Publish
<1>1. /\ db' = tmp /\ tmp \in DB /\ tmp # None
      /\ tmp.schema # None /\ tmp.fp # None /\ tmp.link # None /\ tmp.embed # "unset"
      /\ FilesOf(tmp, tmp.fp.files, tmp.fp.cfg)
  BY SwapPublishes, NoneIsAbsence
<1> DEFINE g == [schema |-> tmp.schema, fp |-> tmp.fp, files |-> tmp.files, sem |-> tmp.sem,
                 link |-> tmp.link, emb |-> tmp.emb, embed |-> tmp.embed]
<1>2. GraphOf(db') = g
  BY <1>1 DEF GraphOf
<1>3. g \in Build
  BY <1>1 DEF DB, Build
<1>4. Complete(g)
  BY <1>1 DEF Complete, FilesOf
<1> HIDE DEF g
<1>5. QED
  BY <1>2, <1>3, <1>4 DEF Publication!Publish

(* Run implements GraphPublication: every step publishes a complete build
   or leaves the published graph alone. *)
THEOREM RunPublishesAtomically == Spec => PublishesAtomically
<1>1. Init => Publication!Init
  BY DEF Init, Publication!Init, GraphOf
<1>2. IndexInv /\ [Next]_vars => [Publication!Next]_(GraphOf(db))
  <2> SUFFICES ASSUME IndexInv, [Next]_vars
               PROVE  Publication!Next \/ GraphOf(db)' = GraphOf(db)
    OBVIOUS
  <2>1. CASE UNCHANGED db
    BY <2>1 DEF GraphOf
  <2>2. CASE Swap
    BY <2>2, SwapRefinesPublish DEF Publication!Next
  <2>3. ASSUME NEW w \in BOOLEAN, FastPath(w) \/ RecordHistory(w)
        PROVE  GraphOf(db)' = GraphOf(db)
    <3>1. db \in DB /\ db' = WithHistoryRow(db, w)
      BY <2>3 DEF IndexInv, TypeOK, LocalsOK, FastPath, RecordHistory, NoChange
    <3>2. GraphOf(db') = GraphOf(db)
      BY <3>1, HistoryIsNotGraph
    <3>3. QED
      BY <3>2 DEF GraphOf
  <2>4. QED
    BY <2>1, <2>2, <2>3
    DEF Next, Edit, Run, vars, EditFile, EditConfig, EditPatterns, EditDeps, ToggleLoadable,
        Upgrade, StartRun, HashFile, BeginBuild, Parse, Semantic, Link, EmbedPass, WriteMeta, Abort
<1>3. QED
  BY IndexInvariant, <1>1, <1>2, PTL DEF Spec, PublishesAtomically, Publication!Spec

-----------------------------------------------------------------------------
(* Exactness of incremental indexing.                                      *)

(* Restricting to owned files first does not change a service's files.     *)
LEMMA OwnedThenService ==
  ASSUME NEW s \in Service
  PROVE  OfService(Owned(disk, cfg), cfg, s) = OfService(disk, cfg, s)
  BY NoneIsAbsence DEF OfService, Owned

(* A graph whose fingerprint is the present workspace and whose rows say
   what computing them again would is the graph of a full rebuild. *)
LEMMA ExactTablesAreFresh ==
  ASSUME NEW d \in DB, disk \in Snapshot, cfg \in Config, d.schema = schema, TablesExact(d),
         d.fp \in Fingerprint, d.fp.files = Owned(disk, cfg), d.fp.cfg = cfg,
         FilesOf(d, d.fp.files, d.fp.cfg), SemOf(d, d.fp.files, d.fp.cfg)
  PROVE  Fresh(d)
<1>1. ASSUME NEW f \in File
      PROVE  d.files[f] = IF cfg[f] = None \/ disk[f] = None THEN None
             ELSE [svc |-> cfg[f], hash |-> disk[f], by |-> [pats |-> pats, deps |-> deps]]
  <2>1. Owned(disk, cfg)[f] = IF cfg[f] # None THEN disk[f] ELSE None
    BY DEF Owned
  <2>2. CASE d.files[f] = None
    BY <2>1, <2>2 DEF FilesOf
  <2>3. CASE d.files[f] # None
    <3>1. d.files[f] \in FileRow
      BY <2>3 DEF DB
    <3>2. /\ d.files[f].hash = Owned(disk, cfg)[f] /\ d.files[f].svc = cfg[f]
          /\ d.files[f].by = [pats |-> pats, deps |-> deps]
          /\ Owned(disk, cfg)[f] # None
      BY <2>3 DEF FilesOf, TablesExact
    <3>3. d.files[f] = [svc |-> cfg[f], hash |-> disk[f], by |-> [pats |-> pats, deps |-> deps]]
      BY <2>1, <3>1, <3>2 DEF FileRow
    <3>4. QED
      BY <2>1, <3>2, <3>3
  <2>4. QED
    BY <2>2, <2>3
<1>2. ASSUME NEW s \in SemService
      PROVE  d.sem[s] # None /\ d.sem[s].seen = OfService(disk, cfg, s)
  BY OwnedThenService, ConstantsAssumption DEF TablesExact, SemOf
<1>3. d.link = Owned(disk, cfg)
  BY DEF TablesExact
<1>4. QED
  BY <1>1, <1>2, <1>3, NoneIsAbsence DEF Fresh

LEMMA InitExact ==
  ASSUME Calm, Init PROVE ExactInv
  BY DEF Calm, Init, ExactInv, TmpExact, Building, IncrementalExact

(* Between runs an edit ends the quiet, and a binary takes effect for the
   next run; under a run nothing may change. *)
LEMMA EditKeepsExact ==
  ASSUME Calm, IndexInv, ExactInv, Edit PROVE ExactInv'
<1>1. /\ pc = "idle" /\ ~quiet' /\ UNCHANGED <<pats, deps, loadable, db, tmp, runVars>>
  BY DEF Calm, Edit, EditFile, EditConfig, EditPatterns, EditDeps, ToggleLoadable, Upgrade,
         MayEdit, runVars
<1>2. QED
  BY <1>1 DEF ExactInv, TablesExact, TmpExact, Building, IncrementalExact, runVars

LEMMA StartKeepsExact ==
  ASSUME Calm, IndexInv, ExactInv, NEW o \in Options, NEW opened \in BOOLEAN, StartRun(o, opened)
  PROVE  ExactInv'
<1>1. /\ pc' = "hash" /\ UNCHANGED <<db, tmp, envVars>>
      /\ ran'.cfg = cfg /\ ran'.rules = [pats |-> pats, deps |-> deps]
      /\ ran'.listed = {f \in File : cfg[f] # None /\ disk[f] # None}
      /\ ran'.hashes = NoHashes /\ todo' = ran'.listed
      /\ ran'.cache => db.schema = schema
  BY DEF StartRun, CacheUsable
<1>2. RunSeesDisk'
  BY <1>1 DEF RunSeesDisk, NoHashes, envVars
<1>3. QED
  BY <1>1, <1>2 DEF ExactInv, TablesExact, TmpExact, Building, IncrementalExact, envVars

LEMMA HashKeepsExact ==
  ASSUME Calm, IndexInv, ExactInv, NEW f \in File, HashFile(f) PROVE ExactInv'
<1>1. ran \in Locals /\ disk[f] \in Content \cup {None} /\ pc = "hash"
  BY DEF IndexInv, LocalsOK, HashFile, TypeOK, Snapshot
<1>2. /\ ran'.hashes = [ran.hashes EXCEPT ![f] = disk[f]]
      /\ ran'.cfg = ran.cfg /\ ran'.cache = ran.cache
      /\ ran'.rules = ran.rules /\ ran'.listed = ran.listed
  BY <1>1, LocalsHash DEF HashFile
<1>3. pc' = "hash" /\ todo' = todo \ {f} /\ f \in todo /\ UNCHANGED <<db, envVars>>
  BY DEF HashFile
<1>4. RunSeesDisk
  BY <1>1 DEF ExactInv
<1>5. ran.hashes \in [File -> Content \cup {None}]
  BY <1>1 DEF Locals, Snapshot
<1>6. disk[f] # None => f \in ran.listed
  BY <1>1, <1>3, <1>4 DEF RunSeesDisk, IndexInv, LocalsOK
<1>7. \A g \in File : ran'.hashes[g] = IF g \in ran.listed \ todo' THEN disk[g] ELSE None
  BY <1>1, <1>2, <1>3, <1>4, <1>5, <1>6 DEF RunSeesDisk
<1>8. RunSeesDisk'
  BY <1>2, <1>3, <1>4, <1>7 DEF RunSeesDisk, envVars
<1>9. QED
  BY <1>3, <1>8 DEF ExactInv, TablesExact, TmpExact, Building, IncrementalExact, envVars

(* All files hashed: the hashes are the sources.                           *)
LEMMA HashesAreDisk ==
  ASSUME IndexInv, RunSeesDisk, pc = "hash", todo = {}
  PROVE  ran.hashes = Owned(disk, cfg)
<1>1. ran.hashes \in [File -> Content \cup {None}]
  BY DEF IndexInv, LocalsOK, Locals, Snapshot
<1>2. \A f \in File : ran.hashes[f] = IF cfg[f] # None THEN disk[f] ELSE None
  BY DEF RunSeesDisk
<1>3. QED
  BY <1>1, <1>2 DEF Owned

(* The history row of a fresh graph leaves it fresh.                       *)
LEMMA HistoryKeepsExact ==
  ASSUME IndexInv, ExactInv, Fresh(db), NEW w \in BOOLEAN,
         db' = WithHistoryRow(db, w), FinishRun("ok"), UNCHANGED <<envVars, tmp, opt, quiet>>
  PROVE  ExactInv'
<1>1. db \in DB
  BY DEF IndexInv, TypeOK, Fresh
<1>2. /\ db' # None /\ db'.schema = db.schema /\ db'.fp = db.fp /\ db'.files = db.files
      /\ db'.sem = db.sem /\ db'.link = db.link
  BY <1>1, DBHistory, NoneIsAbsence
<1>3. Fresh(db)'
  BY <1>2 DEF Fresh, OfService, Owned, envVars
<1>4. TablesExact(db)'
  BY <1>2 DEF ExactInv, TablesExact, envVars, Fresh
<1>5. QED
  BY <1>3, <1>4 DEF ExactInv, TmpExact, Building, IncrementalExact, FinishRun, envVars

(* A graph stored under the fingerprint of the workspace needs no rebuild. *)
LEMMA FastPathKeepsExact ==
  ASSUME Calm, IndexInv, ExactInv, NEW w \in BOOLEAN, FastPath(w) PROVE ExactInv'
<1>1. /\ pc = "hash" /\ todo = {} /\ ran.cache /\ db.fp = WorkspaceFingerprint /\ db # None
      /\ db.fp # None
  BY DEF FastPath, NoChange, IndexInv, LocalsOK
<1>2. db \in DB /\ disk \in Snapshot /\ cfg \in Config
  BY <1>1 DEF IndexInv, TypeOK
<1>3. RunSeesDisk /\ TablesExact(db)
  BY <1>1 DEF ExactInv
<1>4. db.fp.files = Owned(disk, cfg) /\ db.fp.cfg = cfg /\ db.schema = schema
  BY <1>1, <1>3, HashesAreDisk DEF RunSeesDisk, WorkspaceFingerprint
<1>5. FilesOf(db, db.fp.files, db.fp.cfg) /\ SemOf(db, db.fp.files, db.fp.cfg)
  BY <1>1 DEF IndexInv, PublishedOK
<1>6. db.fp \in Fingerprint
  BY <1>1, <1>2 DEF DB
<1>7. Fresh(db)
  BY <1>2, <1>3, <1>4, <1>5, <1>6, ExactTablesAreFresh
<1>8. QED
  BY <1>7, HistoryKeepsExact DEF FastPath

LEMMA AbortKeepsExact ==
  ASSUME Calm, IndexInv, ExactInv, Abort PROVE ExactInv'
  BY DEF Abort, FinishRun, ExactInv, TablesExact, TmpExact, Building, IncrementalExact, envVars

LEMMA BeginKeepsExact ==
  ASSUME Calm, IndexInv, ExactInv, NEW reopened \in BOOLEAN, BeginBuild(reopened)
  PROVE  ExactInv'
<1>1. /\ pc = "hash" /\ todo = {} /\ pc' = "parse" /\ UNCHANGED <<envVars, db, todo>>
  BY DEF BeginBuild
<1>2. ran \in Locals /\ RunSeesDisk
  BY <1>1 DEF IndexInv, LocalsOK, ExactInv
<1>3. /\ ran'.hashes = ran.hashes /\ ran'.cfg = ran.cfg /\ ran'.cache = ran.cache
      /\ ran'.rules = ran.rules /\ ran'.listed = ran.listed
  <2> DEFINE fp == WorkspaceFingerprint
  <2>1. fp \in Fingerprint
    BY <1>1, <1>2 DEF WorkspaceFingerprint, Fingerprint, Locals, IndexInv, TypeOK, LocalsOK, Options
  <2>2. ran' = [ran EXCEPT !.fp = fp]
    BY DEF BeginBuild
  <2> HIDE DEF fp
  <2>3. QED
    BY <1>2, <2>1, <2>2, LocalsFp
<1>4. RunSeesDisk'
  BY <1>1, <1>2, <1>3, HashesAreDisk DEF RunSeesDisk, Owned, envVars
<1>5. QED
  BY <1>1, <1>4 DEF ExactInv, TablesExact, TmpExact, Building, IncrementalExact, envVars

(* The phases of a build keep what the run and the published graph know.   *)
LEMMA BuildStepKeepsExact ==
  ASSUME ExactInv, pc \in Building, pc' \in Building,
         UNCHANGED <<envVars, db, ran>>, TmpExact'
  PROVE  ExactInv'
<1>1. RunSeesDisk'
  BY DEF ExactInv, RunSeesDisk, Building, Owned, envVars
<1>2. QED
  BY <1>1 DEF ExactInv, TablesExact, Building, IncrementalExact, envVars

(* A reused row was parsed with the rules a new one would be parsed with.  *)
LEMMA ParseKeepsExact ==
  ASSUME Calm, IndexInv, ExactInv, Parse PROVE ExactInv'
<1> DEFINE row(f) == IF ran.hashes[f] = None THEN None
                     ELSE IF CacheHit(f) THEN db.files[f] ELSE ParseNow(f)
           rows == [f \in File |-> row(f)]
<1>1. /\ pc = "parse" /\ pc' = "semantic" /\ todo' = SemService
      /\ tmp' = [tmp EXCEPT !.files = rows]
      /\ UNCHANGED <<envVars, db, ran>>
  BY DEF Parse
<1>2. tmp \in DB /\ RunSeesDisk
  BY <1>1 DEF IndexInv, TmpOK, Building, ExactInv
<1>3. ASSUME NEW f \in File, row(f) # None PROVE row(f).by = ran.rules
  <2>1. CASE CacheHit(f)
    <3>1. row(f) = db.files[f] /\ db # None
      BY <1>1, <1>3, <2>1 DEF CacheHit, IndexInv, LocalsOK
    <3>2. TablesExact(db)
      BY <3>1 DEF ExactInv
    <3>3. QED
      BY <1>2, <1>3, <3>1, <3>2 DEF TablesExact, RunSeesDisk
  <2>2. CASE ~CacheHit(f)
    BY <1>3, <2>2 DEF ParseNow
  <2>3. QED
    BY <2>1, <2>2
<1> HIDE DEF row
<1>4. tmp'.files = rows
  BY <1>1, <1>2 DEF DB
<1>5. \A f \in File : tmp'.files[f] = row(f)
  BY <1>4
<1>6. TmpExact'
  BY <1>1, <1>3, <1>5 DEF TmpExact, Building
<1>7. QED
  BY <1>1, <1>6, BuildStepKeepsExact DEF Building

(* What the analyzer reads is what was hashed, and what a reused result was
   computed from is what it is filed under. *)
LEMMA SemanticKeepsExact ==
  ASSUME Calm, IndexInv, ExactInv, NEW s \in SemService, Semantic(s) PROVE ExactInv'
<1> DEFINE fp == OfService(ran.hashes, ran.cfg, s)
<1>1. /\ pc = "semantic" /\ pc' = "semantic" /\ todo' = todo \ {s}
      /\ UNCHANGED <<cfg, pats, deps, loadable, schema, db, ran>>
  BY DEF Semantic
<1>2. /\ tmp \in DB /\ RunSeesDisk /\ s \in Service /\ loadable
      /\ ran.cache => db # None
  BY <1>1, ConstantsAssumption DEF IndexInv, LocalsOK, TmpOK, Building, ExactInv
<1>3. disk' = disk
  BY DEF Calm, Semantic, TemplGenerate
<1>4. fp = OfService(disk', ran.cfg, s)
  BY <1>1, <1>2, <1>3, OwnedThenService DEF RunSeesDisk
<1> HIDE DEF fp
<1>5. PICK row : tmp' = [tmp EXCEPT !.sem[s] = row] /\ row # None /\ row.seen = row.fp
  <2>1. CASE SemanticHit(s, fp) /\ tmp' = [tmp EXCEPT !.sem[s] = db.sem[s]]
    <3>1. db # None /\ db.sem[s] # None
      BY <1>2, <2>1 DEF SemanticHit
    <3>2. db.sem[s].seen = db.sem[s].fp
      BY <3>1 DEF ExactInv, TablesExact
    <3>3. QED
      BY <2>1, <3>1, <3>2
  <2>2. CASE tmp' = [tmp EXCEPT !.sem[s] = [fp |-> fp, seen |-> OfService(disk', ran.cfg, s)]]
    <3> DEFINE row == [fp |-> fp, seen |-> fp]
    <3>1. fp \in Snapshot
      BY <1>1, <1>2 DEF fp, OfService, IndexInv, LocalsOK, Locals, Snapshot
    <3>2. row \in SemRow /\ row.seen = row.fp /\ tmp' = [tmp EXCEPT !.sem[s] = row]
      BY <1>4, <2>2, <3>1 DEF SemRow
    <3> HIDE DEF row
    <3>3. QED
      BY <3>2, NoneIsAbsence
  <2>3. QED
    BY <1>2, <2>1, <2>2 DEF Semantic, fp
<1>6. tmp'.sem = [tmp.sem EXCEPT ![s] = row] /\ tmp'.files = tmp.files
  BY <1>2, <1>5 DEF DB
<1>7. tmp.sem \in [Service -> SemRow \cup {None}]
  BY <1>2 DEF DB
<1>8. TmpExact'
  BY <1>1, <1>5, <1>6, <1>7, ConstantsAssumption DEF ExactInv, TmpExact, Building
<1>9. QED
  BY <1>1, <1>3, <1>8, BuildStepKeepsExact DEF Building, envVars

(* The link passes read the files as they were hashed.                     *)
LEMMA LinkKeepsExact ==
  ASSUME Calm, IndexInv, ExactInv, Link PROVE ExactInv'
<1> DEFINE read == [f \in File |-> IF f \in ran.listed THEN disk[f] ELSE None]
<1>1. /\ pc = "semantic" /\ pc' = "embed" /\ todo = {} /\ tmp' = [tmp EXCEPT !.link = read]
      /\ UNCHANGED <<envVars, db, ran>>
  BY DEF Link
<1>2. tmp \in DB /\ RunSeesDisk
  BY <1>1 DEF IndexInv, TmpOK, Building, ExactInv
<1>3. read = ran.hashes
  BY <1>1, <1>2 DEF RunSeesDisk, Owned
<1> HIDE DEF read
<1>4. tmp'.link = read /\ tmp'.files = tmp.files /\ tmp'.sem = tmp.sem
  BY <1>1, <1>2 DEF DB
<1>5. TmpExact'
  BY <1>1, <1>3, <1>4 DEF ExactInv, TmpExact, Building
<1>6. QED
  BY <1>1, <1>5, BuildStepKeepsExact DEF Building

LEMMA EmbedKeepsExact ==
  ASSUME Calm, IndexInv, ExactInv, EmbedPass PROVE ExactInv'
<1> DEFINE vecs == [f \in File |-> IF HasEntities(tmp, f) /\ ~Unchanged(f) THEN Vector(f) ELSE None]
<1>1. /\ pc = "embed" /\ pc' = "meta" /\ UNCHANGED <<envVars, db, ran>>
  BY DEF EmbedPass
<1>2. tmp \in DB
  BY <1>1 DEF IndexInv, TmpOK, Building
<1> HIDE DEF vecs
<1>3. tmp'.link = tmp.link /\ tmp'.files = tmp.files /\ tmp'.sem = tmp.sem
  <2>1. CASE tmp' = [tmp EXCEPT !.embed = "skipped"]
    BY <1>2, <2>1 DEF DB
  <2>2. CASE tmp' = [tmp EXCEPT !.embed = "failed"]
    BY <1>2, <2>2 DEF DB
  <2>3. CASE tmp' = [tmp EXCEPT !.embed = "ok", !.emb = vecs]
    BY <1>2, <2>3 DEF DB
  <2>4. QED
    BY <2>1, <2>2, <2>3 DEF EmbedPass, vecs
<1>4. TmpExact'
  BY <1>1, <1>3 DEF ExactInv, TmpExact, Building
<1>5. QED
  BY <1>1, <1>4, BuildStepKeepsExact DEF Building

LEMMA MetaKeepsExact ==
  ASSUME Calm, IndexInv, ExactInv, WriteMeta PROVE ExactInv'
<1> DEFINE fp == ran.fp
<1>1. /\ pc = "meta" /\ pc' = "swap" /\ UNCHANGED <<envVars, db, ran>>
      /\ tmp' = [tmp EXCEPT !.schema = schema, !.fp = fp]
  BY DEF WriteMeta
<1>2. tmp \in DB
  BY <1>1 DEF IndexInv, TmpOK, Building
<1> HIDE DEF fp
<1>3. tmp'.link = tmp.link /\ tmp'.files = tmp.files /\ tmp'.sem = tmp.sem /\ tmp'.schema = schema
  BY <1>1, <1>2 DEF DB
<1>4. TmpExact'
  BY <1>1, <1>3 DEF ExactInv, TmpExact, Building, envVars
<1>5. QED
  BY <1>1, <1>4, BuildStepKeepsExact DEF Building

(* The graph the rename publishes is the one of a full rebuild.            *)
LEMMA SwapKeepsExact ==
  ASSUME Calm, IndexInv, ExactInv, Swap PROVE ExactInv'
<1>1. /\ pc = "swap" /\ pc' = "history" /\ db' = tmp /\ UNCHANGED <<envVars, ran>>
  BY DEF Swap
<1>2. /\ RunSeesDisk /\ tmp.fp = ran.fp /\ ran.fp.files = ran.hashes /\ ran.fp.cfg = ran.cfg
      /\ disk \in Snapshot /\ cfg \in Config
  BY <1>1 DEF ExactInv, IndexInv, TypeOK, TmpOK, PhaseOK, Building
<1>3. TablesExact(tmp)
  BY <1>1, <1>2 DEF ExactInv, TmpExact, Building, TablesExact, RunSeesDisk
<1>4. tmp.fp.files = Owned(disk, cfg) /\ tmp.fp.cfg = cfg /\ tmp.schema = schema
  BY <1>1, <1>2 DEF RunSeesDisk, ExactInv, TmpExact
<1>5. Fresh(tmp)
  BY <1>2, <1>3, <1>4, SwapPublishes, ExactTablesAreFresh
<1>6. Fresh(db)'
  BY <1>1, <1>5 DEF Fresh, OfService, Owned, envVars
<1>7. TablesExact(db)'
  BY <1>1, <1>3 DEF TablesExact, envVars
<1>8. tmp \in DB /\ tmp.schema = schema
  BY <1>4, SwapPublishes
<1>9. RunSeesDisk'
  BY <1>1, <1>2, <1>8 DEF RunSeesDisk, Owned, envVars
<1>10. QED
  BY <1>1, <1>6, <1>7, <1>9 DEF ExactInv, TmpExact, Building, IncrementalExact, envVars

LEMMA NextKeepsExact ==
  ASSUME Calm, IndexInv, ExactInv, Next PROVE ExactInv'
<1>1. ASSUME NEW w \in BOOLEAN, RecordHistory(w) PROVE ExactInv'
  BY <1>1, HistoryKeepsExact DEF RecordHistory, ExactInv
<1>2. QED
  BY <1>1, EditKeepsExact, StartKeepsExact, HashKeepsExact, FastPathKeepsExact, BeginKeepsExact,
     ParseKeepsExact, SemanticKeepsExact, LinkKeepsExact, EmbedKeepsExact, MetaKeepsExact,
     SwapKeepsExact, AbortKeepsExact DEF Next, Run

LEMMA StutterKeepsExact ==
  ASSUME ExactInv, UNCHANGED vars PROVE ExactInv'
  BY DEF ExactInv, TablesExact, RunSeesDisk, TmpExact, Fresh, IncrementalExact, OfService, Owned,
         vars, envVars, runVars

(* Incremental indexing is exact, over any number of runs, when patterns,
   dependencies and toolchains stay put and sources change only between
   runs: a condition under which the code's "the graph cannot differ" is
   right.  The runs StaleMidRun, StalePatterns, StaleDeps and StaleWarning
   drop one part of it each and break it. *)
THEOREM IncrementalIsExact ==
  ASSUME Calm PROVE Spec => []IncrementalExact
<1>1. Init => ExactInv
  BY InitExact
<1>2. IndexInv /\ ExactInv /\ [Next]_vars => ExactInv'
  BY NextKeepsExact, StutterKeepsExact
<1>3. ExactInv => IncrementalExact
  BY DEF ExactInv
<1>4. QED
  BY IndexInvariant, <1>1, <1>2, <1>3, PTL DEF Spec

=============================================================================
