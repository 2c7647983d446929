----------------------------- MODULE ServedGraph -----------------------------
(***************************************************************************)
(* How a graph gets from `polyflow index` to its readers.  An index run    *)
(* writes graph.db.tmp and renames it to graph.db; `polyflow serve` and    *)
(* `polyflow mcp` load graph.db, watch its directory and reload.  A path   *)
(* is only a name: the file behind it is an inode, and a process that has  *)
(* a file open goes on with that inode whatever happens to the name.       *)
(*                                                                         *)
(* A file is modelled by the runs that began and ended writing in it.  The *)
(* module is about a workspace outside a fleet (FleetServer has the merge  *)
(* of a fleet); what a run writes is the matter of IndexRun.               *)
(***************************************************************************)
EXTENDS Integers, FiniteSets

CONSTANTS
    Indexers,     \* index processes: `polyflow index` and the index job of serve
    Calls,        \* tool calls an MCP session serves at a time
    Runs,         \* bound on the index runs started
    Clean,        \* runs whose graph has no unresolved reference: their ledger is empty
    Failures,     \* bound on the runs that fail or are killed
    BadReloads,   \* bound on the reloads that cannot read the graph
    MaxCalls,     \* bound on the tool calls made
    Alone         \* whether index processes take turns

ASSUME ServedAssumption ==
    /\ Runs \in Nat /\ Failures \in Nat /\ BadReloads \in Nat /\ MaxCalls \in Nat
    /\ Clean \subseteq 0..Runs
    /\ Alone \in BOOLEAN

Run   == 0..Runs          \* in the order of their start; 0 was over before
None  == 0                \* no file; also the in-memory store of setup mode
Top   == Runs + 2         \* a run, the start and the first reader create a file at most
Inode == 1..Top

VARIABLES
    disk,     \* the inode graph.db names, or None
    tmp,      \* the inode graph.db.tmp names, or None
    file,     \* what each inode holds
    made,     \* inodes created so far
    ix,       \* index processes: step, run and open file
    rd,       \* serve and the MCP session: step of the reload, what they serve
    call,     \* tool calls: step, snapshot and ledger
    left      \* the bounds: failures, bad reloads and calls still to come; runs started

files == <<disk, tmp, file, made>>
vars  == <<disk, tmp, file, made, ix, rd, call, left>>

Reader == {"serve", "mcp"}
File   == [begun : SUBSET Run, ended : SUBSET Run]
Blank  == [begun |-> {}, ended |-> {}]

\* The graph of one run, all of it.
WholeOf(f, r) == f.begun = {r} /\ f.ended = {r}
Whole(f)      == \E r \in Run : WholeOf(f, r)

(***************************************************************************)
(* A reader: store is s.db of serve or s.store of the MCP session, refs    *)
(* its fleetUnresolvedRefs (None when nil), cacheStore and cacheRefs what  *)
(* unresolvedRefs last fetched.  missed is a history variable: graph.db    *)
(* has changed and no event or reload will tell.                           *)
(***************************************************************************)
Off == [pc |-> "off", event |-> FALSE, missed |-> FALSE, new |-> None, built |-> Blank,
        store |-> None, idx |-> Blank, searcher |-> None,
        refs |-> None, cacheStore |-> None, cacheRefs |-> None]

Init ==
    /\ disk \in {None, 1}
    /\ tmp = None
    /\ file = [i \in Inode |-> IF i = disk THEN [begun |-> {0}, ended |-> {0}] ELSE Blank]
    /\ made = disk
    /\ ix = [p \in Indexers |-> [pc |-> "idle", run |-> 0, fd |-> None]]
    /\ rd = [r \in Reader |-> Off]
    /\ call = [c \in Calls |-> [pc |-> "idle", store |-> None, searcher |-> None, ledger |-> None]]
    /\ left = [runs |-> 0, failures |-> Failures, bad |-> BadReloads, calls |-> MaxCalls]

(***************************************************************************)
(* A Write or Create event on graph.db: the watcher of a reader that has   *)
(* started one keeps it until the reload under way is over.                *)
(***************************************************************************)
Told(v) ==
    CASE v.pc = "off"  -> v
      [] v.pc = "boot" -> [v EXCEPT !.missed = TRUE]
      [] OTHER         -> [v EXCEPT !.event = TRUE, !.missed = FALSE]

Notify == rd' = [r \in Reader |-> Told(rd[r])]

\* Writing in an open file is seen at graph.db if that is what the name now means.
NotifyWrite(i) == IF i = disk THEN Notify ELSE UNCHANGED rd

(***************************************************************************)
(* The index run                                                           *)
(***************************************************************************)
Begin(p) ==
    /\ ix[p].pc = "idle"
    /\ left.runs < Runs
    /\ Alone => \A q \in Indexers : ix[q].pc = "idle"
    /\ left' = [left EXCEPT !.runs = @ + 1]
    /\ ix' = [ix EXCEPT ![p] = [pc |-> "remove", run |-> left.runs + 1, fd |-> None]]
    /\ UNCHANGED <<files, rd, call>>

\* Mutant: a graph.db.tmp that was left behind is not removed.
RemoveTmp_Keeps(p) ==
    /\ ix[p].pc = "remove"
    /\ ix' = [ix EXCEPT ![p].pc = "create"]
    /\ UNCHANGED <<files, rd, call, left>>

\* os.Remove(graph.db.tmp)
RemoveTmp(p) ==
    /\ ix[p].pc = "remove"
    /\ tmp' = None
    /\ ix' = [ix EXCEPT ![p].pc = "create"]
    /\ UNCHANGED <<disk, file, made, rd, call, left>>

\* NewBuildStore creates graph.db.tmp, or opens the one that is there.
CreateTmp(p) ==
    /\ ix[p].pc = "create"
    /\ \/ /\ tmp = None
          /\ made < Top
          /\ made' = made + 1
          /\ tmp' = made + 1
          /\ ix' = [ix EXCEPT ![p] = [@ EXCEPT !.pc = "write", !.fd = made + 1]]
       \/ /\ tmp # None
          /\ ix' = [ix EXCEPT ![p] = [@ EXCEPT !.pc = "write", !.fd = tmp]]
          /\ UNCHANGED <<tmp, made>>
    /\ UNCHANGED <<disk, file, rd, call, left>>

\* The first batch reaches the file.
WriteSome(p) ==
    /\ ix[p].pc = "write"
    /\ file' = [file EXCEPT ![ix[p].fd].begun = @ \cup {ix[p].run}]
    /\ ix' = [ix EXCEPT ![p].pc = "close"]
    /\ NotifyWrite(ix[p].fd)
    /\ UNCHANGED <<disk, tmp, made, call, left>>

\* The last batch and the meta rows reach the file, and the store is closed.
CloseTmp(p) ==
    /\ ix[p].pc = "close"
    /\ file' = [file EXCEPT ![ix[p].fd].ended = @ \cup {ix[p].run}]
    /\ ix' = [ix EXCEPT ![p] = [@ EXCEPT !.pc = "rename", !.fd = None]]
    /\ NotifyWrite(ix[p].fd)
    /\ UNCHANGED <<disk, tmp, made, call, left>>

\* os.Rename(graph.db.tmp, graph.db): the name moves, whoever made the file.
Rename(p) ==
    /\ ix[p].pc = "rename"
    /\ IF tmp # None
       THEN /\ disk' = tmp
            /\ tmp' = None
            /\ ix' = [ix EXCEPT ![p].pc = "history"]
            /\ Notify
       ELSE \* no such file: "atomic swap" fails
            /\ ix' = [ix EXCEPT ![p].pc = "idle"]
            /\ UNCHANGED <<disk, tmp, rd>>
    /\ UNCHANGED <<file, made, call, left>>

\* The published graph is opened again for its history row.
History(p) ==
    /\ ix[p].pc = "history"
    /\ ix' = [ix EXCEPT ![p] = [pc |-> "idle", run |-> 0, fd |-> None]]
    /\ Notify
    /\ UNCHANGED <<files, call, left>>

\* The run fails or is killed; graph.db.tmp is left behind.
RunFails(p) ==
    /\ ix[p].pc \in {"create", "write", "close", "rename"}
    /\ left.failures > 0
    /\ left' = [left EXCEPT !.failures = @ - 1]
    /\ ix' = [ix EXCEPT ![p] = [pc |-> "idle", run |-> 0, fd |-> None]]
    /\ UNCHANGED <<files, rd, call>>

(***************************************************************************)
(* The readers                                                             *)
(***************************************************************************)
\* fleetAwareUnresolvedRefs: nil when the graph has no unresolved reference.
RefsOf(i) == IF file[i] = Blank \/ \E r \in Clean : WholeOf(file[i], r) THEN None ELSE i

\* Start-up: open the store (serve without graph.db: one in memory) and load it.
Boot(r) ==
    /\ rd[r].pc = "off"
    /\ r = "mcp" => disk # None
    /\ rd' = [rd EXCEPT ![r] = [Off EXCEPT !.pc = "boot", !.store = disk, !.searcher = disk,
                                !.idx = IF disk = None THEN Blank ELSE file[disk],
                                !.refs = IF r = "mcp" THEN RefsOf(disk) ELSE None]]
    /\ UNCHANGED <<files, ix, call, left>>

\* The MCP session opens its store unasked: without a graph.db it creates an empty one.
BootCreates ==
    /\ rd["mcp"].pc = "off"
    /\ disk = None
    /\ made < Top
    /\ made' = made + 1
    /\ disk' = made + 1
    /\ rd' = [rd EXCEPT !["mcp"] = [Off EXCEPT !.pc = "boot", !.store = made + 1, !.searcher = made + 1],
                       !["serve"] = Told(@)]
    /\ UNCHANGED <<tmp, file, ix, call, left>>

\* watchDB: from now on events are seen.
Watch(r) ==
    /\ rd[r].pc = "boot"
    /\ rd' = [rd EXCEPT ![r].pc = "idle"]
    /\ UNCHANGED <<files, ix, call, left>>

\* The watcher takes an event and opens the graph.
TakeEvent(r) ==
    /\ rd[r].pc = "idle"
    /\ rd[r].event
    /\ rd' = [rd EXCEPT ![r] = [@ EXCEPT !.pc = "build", !.event = FALSE, !.new = disk]]
    /\ UNCHANGED <<files, ix, call, left>>

\* Mutant: the view is emptied before the graph is read.
ReloadFails_Empty(r) ==
    /\ rd[r].pc = "build"
    /\ left.bad > 0
    /\ left' = [left EXCEPT !.bad = @ - 1]
    /\ rd' = [rd EXCEPT ![r] = [@ EXCEPT !.pc = "idle", !.idx = Blank, !.new = None, !.missed = ~rd[r].event]]
    /\ UNCHANGED <<files, ix, call>>

\* The graph cannot be opened or read: the event is used up, the old view stays.
ReloadFails(r) ==
    /\ rd[r].pc = "build"
    /\ left.bad > 0
    /\ left' = [left EXCEPT !.bad = @ - 1]
    /\ rd' = [rd EXCEPT ![r] = [@ EXCEPT !.pc = "idle", !.new = None, !.missed = ~rd[r].event]]
    /\ UNCHANGED <<files, ix, call>>

\* BuildIndex reads the graph into memory.
BuildIndex(r) ==
    /\ rd[r].pc = "build"
    /\ rd' = [rd EXCEPT ![r] = [@ EXCEPT !.pc = "searcher", !.built = file[rd[r].new]]]
    /\ UNCHANGED <<files, ix, call, left>>

\* Mutant: the ledger is wired after the reload.
SetSearcher_ThenReload(r) ==
    /\ rd[r].pc = "searcher"
    /\ rd' = [rd EXCEPT ![r] = [@ EXCEPT !.pc = IF r = "mcp" THEN "refs" ELSE "install",
                                !.searcher = rd[r].new,
                                !.store = IF r = "mcp" THEN rd[r].new ELSE @]]
    /\ UNCHANGED <<files, ix, call, left>>

\* SetSearcher
SetSearcher(r) ==
    /\ rd[r].pc = "searcher"
    /\ rd' = [rd EXCEPT ![r] = [@ EXCEPT !.pc = IF r = "mcp" THEN "refs" ELSE "install",
                                !.searcher = rd[r].new]]
    /\ UNCHANGED <<files, ix, call, left>>

\* SetFleetUnresolvedRefs (MCP only)
SetRefs ==
    /\ rd["mcp"].pc = "refs"
    /\ rd' = [rd EXCEPT !["mcp"] = [@ EXCEPT !.pc = "install", !.refs = RefsOf(rd["mcp"].new)]]
    /\ UNCHANGED <<files, ix, call, left>>


\* Server.Reload of serve replaces the index alone.
ReloadServe ==
    /\ rd["serve"].pc = "install"
    /\ rd' = [rd EXCEPT !["serve"] = [@ EXCEPT !.pc = "idle", !.idx = rd["serve"].built,
                                      !.new = None, !.built = Blank]]
    /\ UNCHANGED <<files, ix, call, left>>

\* Server.Reload of the MCP session replaces store and index and drops the cache.
ReloadMCP ==
    /\ rd["mcp"].pc = "install"
    /\ rd' = [rd EXCEPT !["mcp"] = [@ EXCEPT !.pc = "idle", !.store = rd["mcp"].new,
                                    !.idx = rd["mcp"].built, !.cacheStore = None, !.cacheRefs = None,
                                    !.new = None, !.built = Blank]]
    /\ UNCHANGED <<files, ix, call, left>>

(***************************************************************************)
(* A tool call of the MCP session                                          *)
(***************************************************************************)
Snapshot(c) ==
    /\ call[c].pc = "idle"
    /\ rd["mcp"].pc \notin {"off", "boot"}
    /\ left.calls > 0
    /\ left' = [left EXCEPT !.calls = @ - 1]
    /\ call' = [call EXCEPT ![c] = [pc |-> "refs", store |-> rd["mcp"].store,
                                    searcher |-> rd["mcp"].searcher, ledger |-> None]]
    /\ UNCHANGED <<files, ix, rd>>

\* unresolvedRefs under the read lock: the wired ledger, the cached one, or neither.
ReadRefs(c) ==
    /\ call[c].pc = "refs"
    /\ LET m == rd["mcp"]
           hit == IF m.refs # None THEN m.refs
                  ELSE IF m.cacheStore = call[c].store THEN m.cacheRefs ELSE None
       IN  call' = [call EXCEPT ![c] = IF hit # None
                                       THEN [@ EXCEPT !.pc = "answer", !.ledger = hit]
                                       ELSE [@ EXCEPT !.pc = "fetch"]]
    /\ UNCHANGED <<files, ix, rd, left>>

\* unresolvedRefs without a lock: ask the store of the snapshot, then cache its answer.
FetchRefs(c) ==
    /\ call[c].pc = "fetch"
    /\ call' = [call EXCEPT ![c] = [@ EXCEPT !.pc = "cache", !.ledger = call[c].store]]
    /\ UNCHANGED <<files, ix, rd, left>>

CacheRefs(c) ==
    /\ call[c].pc = "cache"
    /\ rd' = [rd EXCEPT !["mcp"] = [@ EXCEPT !.cacheStore = call[c].store,
                                                  !.cacheRefs = call[c].ledger]]
    /\ call' = [call EXCEPT ![c].pc = "answer"]
    /\ UNCHANGED <<files, ix, left>>

Answer(c) ==
    /\ call[c].pc = "answer"
    /\ call' = [call EXCEPT ![c] = [pc |-> "idle", store |-> None, searcher |-> None, ledger |-> None]]
    /\ UNCHANGED <<files, ix, rd, left>>

IndexStep(p) ==
    \/ RemoveTmp(p) \/ CreateTmp(p) \/ WriteSome(p) \/ CloseTmp(p) \/ Rename(p) \/ History(p)

ReloadStep(r) ==
    \/ Watch(r) \/ TakeEvent(r) \/ BuildIndex(r) \/ SetSearcher(r)
    \/ r = "mcp" /\ (SetRefs \/ ReloadMCP)
    \/ r = "serve" /\ ReloadServe

CallStep(c) == ReadRefs(c) \/ FetchRefs(c) \/ CacheRefs(c) \/ Answer(c)

Next ==
    \/ \E p \in Indexers : Begin(p) \/ IndexStep(p) \/ RunFails(p)
    \/ \E r \in Reader : Boot(r) \/ ReloadStep(r) \/ ReloadFails(r)
    \/ BootCreates
    \/ \E c \in Calls : Snapshot(c) \/ CallStep(c)

Spec == Init /\ [][Next]_vars

(***************************************************************************)
(* The goroutine of a watcher keeps running.  Nobody has to index, start a *)
(* reader or make a call.                                                  *)
(***************************************************************************)
FairSpec == Spec /\ \A r \in Reader : WF_vars(ReloadStep(r))

Reference == Inode \cup {None}

IndexerState ==
    [pc : {"idle", "remove", "create", "write", "close", "rename", "history"},
     run : Run, fd : Reference]

ReaderState ==
    [pc : {"off", "boot", "idle", "build", "searcher", "refs", "install"},
     event : BOOLEAN, missed : BOOLEAN, new : Reference, built : File,
     store : Reference, idx : File, searcher : Reference,
     refs : Reference, cacheStore : Reference, cacheRefs : Reference]

CallState ==
    [pc : {"idle", "refs", "fetch", "cache", "answer"},
     store : Reference, searcher : Reference, ledger : Reference]

TypeOK ==
    /\ disk \in Reference /\ tmp \in Reference /\ made \in Reference
    /\ file \in [Inode -> File]
    /\ ix \in [Indexers -> IndexerState]
    /\ rd \in [Reader -> ReaderState]
    /\ call \in [Calls -> CallState]
    /\ left \in [runs : Run, failures : 0..Failures, bad : 0..BadReloads, calls : 0..MaxCalls]

\* The runs that wrote in inode i.
RunsIn(i) == IF i = None THEN {} ELSE file[i].begun

\* An empty database, or the graph of one run and all of it.
Sound(f) == f = Blank \/ Whole(f)

(***************************************************************************)
(* Whatever graph.db names, and whatever a reader has loaded from it, is   *)
(* the complete graph of a single run, although runs fail, are killed and  *)
(* leave graph.db.tmp behind.                                              *)
(***************************************************************************)
WholeGraphs ==
    /\ disk # None => Sound(file[disk])
    /\ \A r \in Reader : Sound(rd[r].idx)

(***************************************************************************)
(* A reader never goes back to the graph of an earlier run.                *)
(***************************************************************************)
NeverOlder ==
    [][\A r \in Reader, a \in Run :
          rd[r].pc # "off" /\ WholeOf(rd[r].idx, a) => \E b \in a..Runs : WholeOf(rd[r].idx', b)]_rd

(***************************************************************************)
(* A tool call answers with a ledger and a searcher at least as new as the *)
(* graph of its snapshot, although the three are replaced and read one by  *)
(* one.                                                                    *)
(***************************************************************************)
LedgerNotOlder ==
    \A c \in Calls :
        \A a \in RunsIn(call[c].store) :
            /\ \E b \in RunsIn(call[c].searcher) : b >= a
            /\ call[c].pc = "answer" => \E b \in RunsIn(call[c].ledger) : b >= a

\* What a reader serves is the graph in inode i.
Serves(r, i) ==
    /\ rd[r].idx = file[i]
    /\ rd[r].searcher = i
    /\ r = "mcp" => rd[r].store = i /\ rd[r].refs = RefsOf(i)


(***************************************************************************)
(* The store of serve is the graph its index was built from (refuted: it   *)
(* is the one opened at start-up).                                         *)
(***************************************************************************)
StoreFollows ==
    rd["serve"].pc = "idle" /\ ~rd["serve"].event /\ ~rd["serve"].missed => rd["serve"].store = disk

=============================================================================
