------------------------------ MODULE IndexRun ------------------------------
(***************************************************************************)
(* indexer.Run (internal/indexer/indexer.go): one `polyflow index` of a    *)
(* workspace.  A run hashes the source files, takes the no-change fast     *)
(* path when the workspace fingerprint is the one stored in graph.db, and  *)
(* otherwise builds graph.db.tmp from the incremental caches of graph.db,  *)
(* the sources and the pattern registry, and renames it over graph.db.     *)
(*                                                                         *)
(* Results are modelled by their provenance: a parsed file is the content, *)
(* the service and the rules it was parsed with, a semantic or link result *)
(* the sources it was computed from, a vector the embedder and the parsed  *)
(* file it was computed from.  Two results are equal exactly when their    *)
(* provenance is, so "stale" is a comparison of provenances.               *)
(*                                                                         *)
(* Runs follow one another (JobManager and the command line start them);   *)
(* the environment edits sources, configuration, patterns and dependencies *)
(* in between and, when Allowed says so, while a run is under way.         *)
(***************************************************************************)
EXTENDS Naturals, FiniteSets

CONSTANTS
  File,         \* paths of parseable files
  Content,      \* what a file may contain
  BadContent,   \* contents on which the parser returns an error
  Service,      \* the services polyflow.yml may declare
  SemService,   \* services whose language has an analyzer (ServiceAnalyzerFor)
  GenFile,      \* files `templ generate` writes (_templ.go)
  Pattern,      \* states of the pattern YAML files the fingerprint covers
  Deps,         \* states of the manifests and lockfiles deps.Resolve reads
  Embedder,     \* embedder IDs
  Schema,       \* SchemaVersion of the binaries that may be installed
  HistoryCap,   \* distinct run timestamps PruneUnresolvedHistory keeps (50)
  Allowed,      \* the environment behaviours admitted, see EnvBehaviour
  None          \* absent file, row, database or service

(* What the environment may do besides editing sources between runs.       *)
EnvBehaviour == {"midRunEdits",    \* edit sources while a run is under way
                 "configEdits",    \* move files between services
                 "patternEdits",   \* change custom patterns
                 "depsEdits",      \* change resolved dependencies
                 "upgrades",       \* install another binary
                 "noEmbed",        \* pass --no-embed
                 "semWarnings",    \* go/packages may be unable to load a service
                 "embedFailures",  \* the embedder may fail
                 "openFailures"}   \* graph.db may fail to open

ASSUME ConstantsAssumption ==
  /\ BadContent \subseteq Content
  /\ SemService \subseteq Service
  /\ GenFile \subseteq File
  /\ HistoryCap \in Nat \ {0}
  /\ Allowed \subseteq EnvBehaviour
  /\ None \notin Content \cup Service \cup Pattern \cup Deps \cup Embedder \cup Schema

VARIABLES
  disk,     \* the source tree: content of each file, None when there is no file
  cfg,      \* polyflow.yml: the service a file belongs to, None outside all
  pats,     \* the pattern files
  deps,     \* the dependency manifests
  loadable, \* go/packages can load the services (templ and modules installed)
  schema,   \* SchemaVersion of the installed binary
  db,       \* graph.db, None before the first successful index
  tmp,      \* graph.db.tmp
  pc,       \* where the current run is; "idle" when none is
  opt,      \* Options of the current or the last run
  ran,      \* locals of the current or the last run
  todo,     \* files still to hash, then services still to analyse
  outcome,  \* how the last run ended
  quiet     \* no edit since the current or the last run started

envVars == <<disk, cfg, pats, deps, loadable, schema>>
runVars == <<pc, opt, ran, todo, outcome>>
vars    == <<envVars, db, tmp, runVars, quiet>>

-----------------------------------------------------------------------------
(* The data.                                                               *)

Snapshot == [File -> Content \cup {None}]       \* file -> content hash
Config   == [File -> Service \cup {None}]
Rules    == [pats : Pattern, deps : Deps]       \* what NewTreeSitterMatcherForService compiles
Options  == [full : BOOLEAN, noEmbed : BOOLEAN, embedder : Embedder]

Fingerprint == [files : Snapshot, cfg : Config, pats : Pattern, embedder : Embedder]

FileRow == [svc : Service, hash : Content, by : Rules]          \* file_hashes
SemRow  == [fp : Snapshot, seen : Snapshot]                     \* semantic_cache
EmbRow  == [embedder : Embedder, of : FileRow]                  \* embeddings

DB == [schema : Schema \cup {None},
       fp     : Fingerprint \cup {None},
       files  : [File -> FileRow \cup {None}],
       sem    : [Service -> SemRow \cup {None}],
       link   : Snapshot \cup {None},
       emb    : [File -> EmbRow \cup {None}],
       embed  : {"unset", "ok", "skipped", "failed"},
       hist   : 0..HistoryCap]

(* NewBuildStore on a path that was just removed.                          *)
EmptyDB == [schema |-> None, fp |-> None,
            files |-> [f \in File |-> None],
            sem   |-> [s \in Service |-> None],
            link  |-> None,
            emb   |-> [f \in File |-> None],
            embed |-> "unset",
            hist  |-> 0]

(* What Run keeps between its phases: the configuration, the compiled rules,
   the files walkService listed, their hashes, the new fingerprint, and
   whether the tables of the previous graph.db may be used. *)
Locals == [cfg : Config, rules : Rules, listed : SUBSET File, hashes : Snapshot,
           fp : Fingerprint \cup {None}, cache : BOOLEAN]

(* The absence of a row, table or database is no row, table or database.   *)
ASSUME NoneAssumption ==
  None \notin DB \cup Fingerprint \cup FileRow \cup SemRow \cup EmbRow
            \cup Snapshot \cup Locals \cup Options

NoHashes == [f \in File |-> None]

(* The content of the files service s of configuration c owns.             *)
OfService(snap, c, s) == [f \in File |-> IF c[f] = s THEN snap[f] ELSE None]

(* The content of the files some service of c owns.                        *)
Owned(snap, c) == [f \in File |-> IF c[f] # None THEN snap[f] ELSE None]

TypeOK ==
  /\ disk \in Snapshot /\ cfg \in Config /\ pats \in Pattern /\ deps \in Deps
  /\ loadable \in BOOLEAN /\ schema \in Schema
  /\ db \in DB \cup {None} /\ tmp \in DB \cup {None}
  /\ pc \in {"idle", "hash", "parse", "semantic", "embed", "meta", "swap", "history"}
  /\ opt \in Options \cup {None} /\ ran \in Locals \cup {None}
  /\ todo \in SUBSET (File \cup Service)
  /\ outcome \in {"none", "running", "ok", "failed"}
  /\ quiet \in BOOLEAN

Init ==
  /\ disk \in Snapshot /\ cfg \in Config /\ pats \in Pattern /\ deps \in Deps
  /\ loadable \in IF "semWarnings" \in Allowed THEN BOOLEAN ELSE {TRUE}
  /\ schema \in Schema
  /\ db = None /\ tmp = None
  /\ pc = "idle" /\ opt = None /\ ran = None /\ todo = {}
  /\ outcome = "none" /\ quiet = TRUE

-----------------------------------------------------------------------------
(* The environment.                                                        *)

MayEdit == pc = "idle" \/ "midRunEdits" \in Allowed

EditFile(f, c) ==
  /\ MayEdit /\ disk[f] # c
  /\ disk' = [disk EXCEPT ![f] = c]
  /\ quiet' = FALSE
  /\ UNCHANGED <<cfg, pats, deps, loadable, schema, db, tmp, runVars>>

EditConfig(f, s) ==
  /\ "configEdits" \in Allowed /\ MayEdit /\ cfg[f] # s
  /\ cfg' = [cfg EXCEPT ![f] = s]
  /\ quiet' = FALSE
  /\ UNCHANGED <<disk, pats, deps, loadable, schema, db, tmp, runVars>>

EditPatterns(p) ==
  /\ "patternEdits" \in Allowed /\ MayEdit /\ pats # p
  /\ pats' = p
  /\ quiet' = FALSE
  /\ UNCHANGED <<disk, cfg, deps, loadable, schema, db, tmp, runVars>>

(* deps.Resolve runs once, when a run starts: an edit made later in the run
   is an edit made before the next one. *)
EditDeps(d) ==
  /\ "depsEdits" \in Allowed /\ pc = "idle" /\ deps # d
  /\ deps' = d
  /\ quiet' = FALSE
  /\ UNCHANGED <<disk, cfg, pats, loadable, schema, db, tmp, runVars>>

(* A toolchain is installed or broken between runs; whether a service loads is
   the same throughout a run. *)
ToggleLoadable ==
  /\ "semWarnings" \in Allowed /\ pc = "idle"
  /\ loadable' = ~loadable
  /\ quiet' = FALSE
  /\ UNCHANGED <<disk, cfg, pats, deps, schema, db, tmp, runVars>>

(* A new binary takes effect for the next process, never for a running one. *)
Upgrade(v) ==
  /\ "upgrades" \in Allowed /\ pc = "idle" /\ schema # v
  /\ schema' = v
  /\ quiet' = FALSE
  /\ UNCHANGED <<disk, cfg, pats, deps, loadable, db, tmp, runVars>>

-----------------------------------------------------------------------------
(* The run.                                                                *)

(* The tables of the previous graph are used when it exists, has this
   binary's schema version and --full was not given. *)
CacheUsable(o) == db # None /\ db.schema = schema /\ ~o.full

(* Open the previous graph, load the pattern registry, resolve the
   dependencies and walk the services.  A graph.db that cannot be opened
   counts as absent. *)
StartRun(o, opened) ==
  /\ pc = "idle"
  /\ o.noEmbed => "noEmbed" \in Allowed
  /\ opened \/ "openFailures" \in Allowed
  /\ LET listed == {f \in File : cfg[f] # None /\ disk[f] # None}
     IN  /\ ran' = [cfg |-> cfg, rules |-> [pats |-> pats, deps |-> deps],
                    listed |-> listed, hashes |-> NoHashes, fp |-> None,
                    cache |-> opened /\ CacheUsable(o)]
         /\ todo' = listed
  /\ pc' = "hash" /\ opt' = o /\ outcome' = "running" /\ quiet' = TRUE
  /\ UNCHANGED <<envVars, db, tmp>>

(* Mutant: the worker that cannot read its file never reports it done.     *)
HashFile_Stalls(f) ==
  /\ pc = "hash" /\ f \in todo /\ disk[f] # None
  /\ ran' = [ran EXCEPT !.hashes[f] = disk[f]]
  /\ todo' = todo \ {f}
  /\ UNCHANGED <<envVars, db, tmp, pc, opt, outcome, quiet>>

(* One worker of the hash pre-pass.  A listed file that is gone by now is
   unreadable: it keeps no hash and contributes nothing. *)
HashFile(f) ==
  /\ pc = "hash" /\ f \in todo
  /\ ran' = [ran EXCEPT !.hashes[f] = disk[f]]
  /\ todo' = todo \ {f}
  /\ UNCHANGED <<envVars, db, tmp, pc, opt, outcome, quiet>>

(* fpLines: the file hashes, the configuration, patternsFingerprint (which
   reads the pattern files now, not when the registry was loaded) and the
   embedder. *)
WorkspaceFingerprint ==
  [files |-> ran.hashes, cfg |-> ran.cfg, pats |-> pats, embedder |-> opt.embedder]

NoChange == ran.cache /\ db.fp # None /\ db.fp = WorkspaceFingerprint

(* WriteUnresolvedHistory + PruneUnresolvedHistory(50): one more timestamp,
   at most HistoryCap of them; none when the ledger is empty or the write
   fails, which is only logged. *)
WithHistoryRow(d, written) ==
  [d EXCEPT !.hist = IF written /\ @ < HistoryCap THEN @ + 1 ELSE @]

FinishRun(how) == pc' = "idle" /\ outcome' = how /\ ran' = None /\ todo' = {}

(* The no-change fast path: graph.db is reopened, gets a history row, and
   the run is over. *)
FastPath(written) ==
  /\ pc = "hash" /\ todo = {} /\ NoChange
  /\ db' = WithHistoryRow(db, written)
  /\ FinishRun("ok")
  /\ UNCHANGED <<envVars, tmp, opt, quiet>>

(* A real build: remove graph.db.tmp and create it.  Also taken when the
   fingerprints agree but graph.db cannot be reopened. *)
BeginBuild(reopened) ==
  /\ reopened \/ "openFailures" \in Allowed
  /\ pc = "hash" /\ todo = {} /\ ~(NoChange /\ reopened)
  /\ tmp' = EmptyDB
  /\ ran' = [ran EXCEPT !.fp = WorkspaceFingerprint]
  /\ pc' = "parse"
  /\ UNCHANGED <<envVars, db, opt, todo, outcome, quiet>>

(* Mutant: rows are reused by path alone.                                  *)
CacheHit_AnyContent(f) ==
  ran.cache /\ db.files[f] # None /\ db.files[f].svc = ran.cfg[f]

CacheHit(f) ==
  /\ ran.cache /\ db.files[f] # None
  /\ db.files[f].hash = ran.hashes[f] /\ db.files[f].svc = ran.cfg[f]

ParseNow(f) == [svc |-> ran.cfg[f], hash |-> ran.hashes[f], by |-> ran.rules]

(* The incremental parse of every service, from the bytes that were hashed. *)
Parse ==
  /\ pc = "parse"
  /\ tmp' = [tmp EXCEPT !.files = [f \in File |->
               IF ran.hashes[f] = None THEN None
               ELSE IF CacheHit(f) THEN db.files[f] ELSE ParseNow(f)]]
  /\ pc' = "semantic" /\ todo' = SemService
  /\ UNCHANGED <<envVars, db, opt, ran, outcome, quiet>>

(* Mutant: the semantic cache is keyed by the service alone.               *)
SemanticHit_AnyFingerprint(s, fp) == ran.cache /\ db.sem[s] # None

SemanticHit(s, fp) == ran.cache /\ db.sem[s] # None /\ db.sem[s].fp = fp

(* ensureTemplGenerated: `templ generate` may write a generated file of s. *)
TemplGenerate(s) ==
  \/ UNCHANGED <<disk, quiet>>
  \/ \E g \in GenFile, c \in Content :
       /\ ran.cfg[g] = s /\ disk[g] # c
       /\ disk' = [disk EXCEPT ![g] = c] /\ quiet' = FALSE

(* The semantic pass over one service: the cached result of the same
   service fingerprint, or an analysis of what is on disk now.  A service
   that cannot be loaded leaves a warning and no row. *)
Semantic(s) ==
  LET fp == OfService(ran.hashes, ran.cfg, s)
  IN  /\ pc = "semantic" /\ s \in todo
      /\ \/ /\ SemanticHit(s, fp)
            /\ tmp' = [tmp EXCEPT !.sem[s] = db.sem[s]]
            /\ UNCHANGED <<disk, quiet>>
         \/ /\ ~SemanticHit(s, fp)
            /\ TemplGenerate(s)
            /\ tmp' = [tmp EXCEPT !.sem[s] =
                         IF loadable THEN [fp |-> fp, seen |-> OfService(disk', ran.cfg, s)]
                         ELSE None]
      /\ todo' = todo \ {s}
      /\ UNCHANGED <<cfg, pats, deps, loadable, schema, db, pc, opt, ran, outcome>>

(* The link passes re-read the listed sources; root classification and the
   evidence reconciler work on their result. *)
Link ==
  /\ pc = "semantic" /\ todo = {}
  /\ tmp' = [tmp EXCEPT !.link = [f \in File |-> IF f \in ran.listed THEN disk[f] ELSE None]]
  /\ pc' = "embed"
  /\ UNCHANGED <<envVars, db, opt, ran, todo, outcome, quiet>>

(* Files whose parse produced nodes, hence entities to embed.              *)
HasEntities(d, f) == d.files[f] # None /\ d.files[f].hash \notin BadContent

Vector(f) == [embedder |-> opt.embedder, of |-> tmp.files[f]]

(* runEmbedPass: entities whose vector the previous graph already holds are
   skipped; the others are embedded and written in one transaction. *)
Unchanged(f) == ran.cache /\ db.emb[f] = Vector(f)

(* Mutant: the vectors of the previous graph are carried over unchecked.   *)
EmbedPass_CarryOver ==
  /\ pc = "embed"
  /\ tmp' = [tmp EXCEPT !.embed = "ok",
               !.emb = [f \in File |-> IF HasEntities(tmp, f) /\ ~Unchanged(f) THEN Vector(f)
                                       ELSE IF ran.cache THEN db.emb[f] ELSE None]]
  /\ pc' = "meta"
  /\ UNCHANGED <<envVars, db, opt, ran, todo, outcome, quiet>>

EmbedPass ==
  /\ pc = "embed"
  /\ \/ /\ opt.noEmbed
        /\ tmp' = [tmp EXCEPT !.embed = "skipped"]
     \/ /\ ~opt.noEmbed /\ "embedFailures" \in Allowed
        /\ tmp' = [tmp EXCEPT !.embed = "failed"]
     \/ /\ ~opt.noEmbed
        /\ tmp' = [tmp EXCEPT !.embed = "ok",
                     !.emb = [f \in File |-> IF HasEntities(tmp, f) /\ ~Unchanged(f)
                                             THEN Vector(f) ELSE None]]
  /\ pc' = "meta"
  /\ UNCHANGED <<envVars, db, opt, ran, todo, outcome, quiet>>

(* The ledger and the meta keys; the store is closed.                      *)
WriteMeta ==
  /\ pc = "meta"
  /\ tmp' = [tmp EXCEPT !.schema = schema, !.fp = ran.fp]
  /\ pc' = "swap"
  /\ UNCHANGED <<envVars, db, opt, ran, todo, outcome, quiet>>

(* Mutant: the rename happens before the meta keys are written.            *)
Swap_BeforeMeta ==
  /\ pc = "meta"
  /\ db' = tmp /\ tmp' = None
  /\ pc' = "history"
  /\ UNCHANGED <<envVars, opt, ran, todo, outcome, quiet>>

Swap ==
  /\ pc = "swap"
  /\ db' = tmp /\ tmp' = None
  /\ pc' = "history"
  /\ UNCHANGED <<envVars, opt, ran, todo, outcome, quiet>>

RecordHistory(written) ==
  /\ pc = "history"
  /\ db' = WithHistoryRow(db, written)
  /\ FinishRun("ok")
  /\ UNCHANGED <<envVars, tmp, opt, quiet>>

(* Mutant: a deferred clean-up renames graph.db.tmp on every return.       *)
Abort_Renames ==
  /\ pc # "idle"
  /\ db' = IF tmp = None THEN db ELSE tmp
  /\ tmp' = None
  /\ FinishRun("failed")
  /\ UNCHANGED <<envVars, opt, quiet>>

(* An error return, a cancelled context or the death of the process.
   graph.db.tmp stays where it is; the next build removes it unread, so its
   rows are forgotten here. *)
Abort ==
  /\ pc # "idle"
  /\ tmp' = IF tmp = None THEN None ELSE EmptyDB
  /\ FinishRun("failed")
  /\ UNCHANGED <<envVars, db, opt, quiet>>

Edit ==
  \/ \E f \in File, c \in Content \cup {None} : EditFile(f, c)
  \/ \E f \in File, s \in Service \cup {None} : EditConfig(f, s)
  \/ \E p \in Pattern : EditPatterns(p)
  \/ \E d \in Deps : EditDeps(d)
  \/ ToggleLoadable
  \/ \E v \in Schema : Upgrade(v)

Run ==
  \/ \E o \in Options, opened \in BOOLEAN : StartRun(o, opened)
  \/ \E f \in File : HashFile(f)
  \/ \E written \in BOOLEAN : FastPath(written)
  \/ \E reopened \in BOOLEAN : BeginBuild(reopened)
  \/ Parse
  \/ \E s \in SemService : Semantic(s)
  \/ Link
  \/ EmbedPass
  \/ WriteMeta
  \/ Swap
  \/ \E written \in BOOLEAN : RecordHistory(written)
  \/ Abort

Next == Edit \/ Run

Spec == Init /\ [][Next]_vars

-----------------------------------------------------------------------------
(* Properties.                                                             *)

(* A build every phase of Run has written: link results, embedding status,
   schema version and fingerprint, hence every file of the fingerprint. *)
Complete(d) ==
  /\ d.schema # None /\ d.fp # None /\ d.link # None /\ d.embed # "unset"
  /\ \A f \in File : (d.files[f] = None) <=> (d.fp.files[f] = None)

(* graph.db is never a partial build, whatever phase a run failed or was
   killed in: Run writes graph.db.tmp and renames it only when it is
   finished. *)
PublishedComplete == db # None => Complete(db)

(* The caches of a published graph are filed under the fingerprint they were
   computed from: reusing a row of an older graph (ContentHash and Service,
   the semantic fingerprint) never leaves a row of another content, another
   service or a deleted file in the new one. *)
CachesMatchFingerprint ==
  db # None =>
    /\ \A f \in File : db.files[f] # None =>
         /\ db.files[f].hash = db.fp.files[f]
         /\ db.files[f].svc = db.fp.cfg[f]
    /\ \A s \in SemService : db.sem[s] # None =>
         db.sem[s].fp = OfService(db.fp.files, db.fp.cfg, s)

(* Vectors of a published graph are of one embedder, the one in its
   fingerprint, and of the parse results it is published with: the
   space-mixing guard of runEmbedPass and its content-hash gate. *)
VectorsMatchGraph ==
  db # None => \A f \in File : db.emb[f] # None =>
    /\ HasEntities(db, f)
    /\ db.emb[f] = [embedder |-> db.fp.embedder, of |-> db.files[f]]

(* The graph a --full run of the present workspace would publish.          *)
Fresh(d) ==
  /\ d # None /\ d.schema = schema
  /\ \A f \in File : d.files[f] =
       IF cfg[f] = None \/ disk[f] = None THEN None
       ELSE [svc |-> cfg[f], hash |-> disk[f], by |-> [pats |-> pats, deps |-> deps]]
  /\ \A s \in SemService : loadable =>
       d.sem[s] # None /\ d.sem[s].seen = OfService(disk, cfg, s)
  /\ d.link = Owned(disk, cfg)

(* Incremental indexing is exact: when a run succeeds and nothing was edited
   since it started, graph.db is what a full rebuild would have produced,
   through the fast path and through every cache, over any number of runs.
   ("If the workspace fingerprint matches the previous run, the graph cannot
   differ".) *)
IncrementalExact ==
  pc = "idle" /\ outcome = "ok" /\ quiet => Fresh(db)

(* The inductive invariant: what a run knows in each of its phases.  The
   locals and graph.db.tmp exist while they are used, only listed files have
   a hash, and graph.db.tmp holds, phase by phase, what Complete,
   CachesMatchFingerprint and VectorsMatchGraph ask of the graph it will be
   published as. *)
Building == {"parse", "semantic", "embed", "meta", "swap"}

LocalsOK ==
  /\ pc # "idle" => ran \in Locals /\ opt \in Options
  /\ pc # "idle" /\ ran.cache => db # None
  /\ pc = "history" => db # None
  /\ pc # "idle" => \A f \in File : ran.hashes[f] # None => ran.cfg[f] # None
  /\ pc = "hash" => \A f \in todo : f \in File /\ ran.cfg[f] # None
  /\ pc = "semantic" => todo \subseteq SemService

TmpOK ==
  pc \in Building =>
    /\ tmp \in DB
    /\ ran.fp \in Fingerprint
    /\ ran.fp.files = ran.hashes /\ ran.fp.cfg = ran.cfg /\ ran.fp.embedder = opt.embedder

FilesOf(d, hashes, c) ==
  \A f \in File : /\ (d.files[f] = None) <=> (hashes[f] = None)
                  /\ d.files[f] # None => /\ d.files[f].hash = hashes[f]
                                          /\ d.files[f].svc = c[f]

SemOf(d, hashes, c) ==
  \A s \in SemService : d.sem[s] # None => d.sem[s].fp = OfService(hashes, c, s)

VectorsOf(d, e) ==
  \A f \in File : d.emb[f] # None => /\ HasEntities(d, f)
                                     /\ d.emb[f] = [embedder |-> e, of |-> d.files[f]]

PhaseOK ==
  /\ pc = "parse" => \A f \in File : tmp.emb[f] = None
  /\ pc \in {"semantic", "embed", "meta", "swap"} => FilesOf(tmp, ran.hashes, ran.cfg)
  /\ pc \in Building => SemOf(tmp, ran.hashes, ran.cfg) /\ VectorsOf(tmp, opt.embedder)
  /\ pc \in {"embed", "meta", "swap"} => tmp.link # None
  /\ pc \in {"meta", "swap"} => tmp.embed # "unset"
  /\ pc = "swap" => tmp.schema # None /\ tmp.fp = ran.fp

PublishedOK ==
  db # None => /\ db.schema # None /\ db.fp # None /\ db.link # None /\ db.embed # "unset"
               /\ FilesOf(db, db.fp.files, db.fp.cfg)
               /\ SemOf(db, db.fp.files, db.fp.cfg)
               /\ VectorsOf(db, db.fp.embedder)

IndexInv == TypeOK /\ LocalsOK /\ TmpOK /\ PhaseOK /\ PublishedOK

(* Why incremental indexing is exact when only sources, services, options
   and binaries change between runs.  Everything a row depends on is then
   either part of the key it is reused under or fixed, so every row of every
   graph says what computing it again would; and a run sees one state of the
   sources from its first hash to its last link pass. *)
Calm ==
  /\ Allowed \cap {"midRunEdits", "patternEdits", "depsEdits", "semWarnings"} = {}
  /\ GenFile = {}

TablesExact(d) ==
  /\ \A f \in File : d.files[f] # None => d.files[f].by = [pats |-> pats, deps |-> deps]
  /\ \A s \in SemService : d.sem[s] # None /\ d.sem[s].seen = d.sem[s].fp
  /\ d.link = d.fp.files

RunSeesDisk ==
  /\ ran.cfg = cfg /\ ran.rules = [pats |-> pats, deps |-> deps]
  /\ ran.listed = {f \in File : cfg[f] # None /\ disk[f] # None}
  /\ ran.cache => db.schema = schema
  /\ pc = "hash" =>
       \A f \in File : ran.hashes[f] = IF f \in ran.listed \ todo THEN disk[f] ELSE None
  /\ pc # "hash" => ran.hashes = Owned(disk, cfg)

TmpExact ==
  /\ pc \in Building \ {"parse"} =>
       \A f \in File : tmp.files[f] # None => tmp.files[f].by = ran.rules
  /\ pc \in Building \ {"parse"} =>
       \A s \in SemService \ (IF pc = "semantic" THEN todo ELSE {}) :
         tmp.sem[s] # None /\ tmp.sem[s].seen = tmp.sem[s].fp
  /\ pc \in {"embed", "meta", "swap"} => tmp.link = ran.hashes
  /\ pc = "swap" => tmp.schema = schema

ExactInv ==
  /\ loadable
  /\ db # None => TablesExact(db)
  /\ pc # "idle" => RunSeesDisk
  /\ TmpExact
  /\ pc = "history" => Fresh(db)
  /\ IncrementalExact

(* What a reader of graph.db sees; the history rows and last_indexed, which
   the fast path appends in place, are not part of the graph. *)
GraphOf(d) ==
  IF d = None THEN None
  ELSE [schema |-> d.schema, fp |-> d.fp, files |-> d.files, sem |-> d.sem,
        link |-> d.link, emb |-> d.emb, embed |-> d.embed]

Build == [schema : Schema \cup {None}, fp : Fingerprint \cup {None},
          files : [File -> FileRow \cup {None}], sem : [Service -> SemRow \cup {None}],
          link : Snapshot \cup {None}, emb : [File -> EmbRow \cup {None}],
          embed : {"unset", "ok", "skipped", "failed"}]

Publication == INSTANCE GraphPublication WITH published <- GraphOf(db)

(* Readers of graph.db only ever see whole builds replace one another: Run
   implements the atomic publication of GraphPublication. *)
PublishesAtomically == Publication!Spec

(* The embed pass claims success only for a fully embedded graph ("vector
   embeddings for every finalized node"). *)
EmbeddedWhenOk ==
  db # None /\ db.embed = "ok" =>
    \A f \in File : HasEntities(db, f) => db.emb[f] # None

(* "The next index without NoEmbed will re-embed all entities". *)
ReembedsAfterNoEmbed ==
  pc = "idle" /\ outcome = "ok" /\ ~opt.noEmbed => db.embed # "skipped"

(* unresolved_history keeps the last HistoryCap runs: older rows are pruned
   when there are more, never the rows of the last run but one.  (A build
   has not yet written its own row when it is renamed, hence the + 1.) *)
HistoryKept == [][db # None => db'.hist + 1 >= db.hist]_db

(* The run is one goroutine's sequence of phases, each of which returns;
   starting and aborting are the environment's. *)
RunStep ==
  \/ \E f \in File : HashFile(f)
  \/ \E written \in BOOLEAN : FastPath(written) \/ RecordHistory(written)
  \/ \E reopened \in BOOLEAN : BeginBuild(reopened)
  \/ \E s \in SemService : Semantic(s)
  \/ Parse \/ Link \/ EmbedPass \/ WriteMeta \/ Swap

FairSpec == Spec /\ WF_vars(RunStep)

(* Every run ends, with files vanishing and changing under it at any phase:
   an unreadable file or an unloadable service never holds up the run. *)
RunEnds == pc # "idle" ~> pc = "idle"

=============================================================================
