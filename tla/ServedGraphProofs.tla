-------------------------- MODULE ServedGraphProofs --------------------------
(***************************************************************************)
(* WholeGraphs, NeverOlder and LedgerNotOlder for any number of runs,      *)
(* failures, reloads and tool calls, where index processes take turns.     *)
(* The inductive invariant says that a file is written only while it is    *)
(* graph.db.tmp: everything a reader can refer to has been published, is   *)
(* whole and does not change, and is no newer than graph.db.               *)
(***************************************************************************)
EXTENDS ServedGraph, TLAPS

\* An inode that is no longer, or never was, behind graph.db.tmp.
Pub(i) == i \in Inode /\ i <= made /\ i # tmp /\ Sound(file[i])

\* Of the runs in A none is newer than those in B.
Before(A, B) == \A a \in A : \E b \in B : b >= a

FilesOK ==
    /\ disk # None => Pub(disk)
    /\ tmp <= made
    /\ \A i \in Inode : i > made => file[i] = Blank
    /\ \A i \in Inode : file[i].begun \subseteq 0..left.runs

\* The one run under way and the state of its graph.db.tmp.
TurnOK ==
    /\ \A p, q \in Indexers : ix[p].pc # "idle" /\ ix[q].pc # "idle" => p = q
    /\ \A p \in Indexers :
          /\ ix[p].pc # "idle" => ix[p].run = left.runs
          /\ ix[p].pc = "create" => tmp = None
          /\ ix[p].pc \in {"write", "close"} => tmp # None /\ ix[p].fd = tmp
          /\ ix[p].pc = "write" => file[tmp] = Blank
          /\ ix[p].pc = "close" => file[tmp].begun = {left.runs} /\ file[tmp].ended = {}
          /\ ix[p].pc = "rename" => tmp # None /\ WholeOf(file[tmp], left.runs)

Loading == {"build", "searcher", "refs", "install"}

\* What a reader refers to is published and no newer than graph.db.
ReaderOK(r) ==
    /\ rd[r].pc = "off" => rd[r].store = None
    /\ Sound(rd[r].idx)
    /\ rd[r].store # None => Pub(rd[r].store)
    /\ rd[r].searcher # None => Pub(rd[r].searcher)
    /\ rd[r].refs # None => Pub(rd[r].refs)
    /\ rd[r].new # None => Pub(rd[r].new)
    /\ rd[r].event => disk # None
    /\ Before(rd[r].idx.begun, RunsIn(disk))
    /\ Before(RunsIn(rd[r].store), RunsIn(disk))
    /\ Before(RunsIn(rd[r].new), RunsIn(disk))

\* The graph a reload is reading replaces none that is newer.
LoadingOK(r) ==
    rd[r].pc \in Loading =>
        /\ rd[r].new # None
        /\ Before(rd[r].idx.begun, RunsIn(rd[r].new))
        /\ Before(RunsIn(rd[r].store), RunsIn(rd[r].new))
        /\ rd[r].pc # "build" => rd[r].built = file[rd[r].new]

\* The MCP session: searcher and ledger run ahead of the store, never behind.
SessionOK ==
    /\ Before(RunsIn(rd["mcp"].store), RunsIn(rd["mcp"].searcher))
    /\ rd["mcp"].pc \in {"refs", "install"} => rd["mcp"].searcher = rd["mcp"].new
    /\ rd["mcp"].pc = "install" => rd["mcp"].refs \in {None, rd["mcp"].new}
    /\ rd["mcp"].pc # "install" => rd["mcp"].refs \in {None, rd["mcp"].store}
    /\ rd["mcp"].cacheRefs = rd["mcp"].cacheStore
    /\ rd["mcp"].cacheStore # None => Pub(rd["mcp"].cacheStore)

CallOK(c) ==
    /\ call[c].store # None => Pub(call[c].store)
    /\ call[c].searcher # None => Pub(call[c].searcher)
    /\ call[c].ledger # None => Pub(call[c].ledger)
    /\ Before(RunsIn(call[c].store), RunsIn(rd["mcp"].store))
    /\ Before(RunsIn(call[c].store), RunsIn(call[c].searcher))
    /\ call[c].pc = "cache" => call[c].ledger = call[c].store
    /\ call[c].pc = "answer" => Before(RunsIn(call[c].store), RunsIn(call[c].ledger))

ReadersOK == \A r \in Reader : ReaderOK(r) /\ LoadingOK(r)
CallsOK   == \A c \in Calls : CallOK(c)

\* A name that is used names a file.
NamedOK ==
    /\ \A p \in Indexers : ix[p].pc \in {"write", "close"} => ix[p].fd # None
    /\ \A p \in Indexers : ix[p].pc = "history" => disk # None
    /\ \A r \in Reader : rd[r].event => disk # None
    /\ \A r \in Reader : rd[r].pc \in Loading => rd[r].new # None

TypeInv == TypeOK /\ NamedOK

IInv == TypeInv /\ FilesOK /\ TurnOK /\ ReadersOK /\ SessionOK /\ CallsOK

\* The references are numbers; 0 is none.
LEMMA Numbers ==
    /\ Runs \in Nat /\ Reference = 0..Top /\ Inode = 1..Top /\ None = 0
    /\ None \in Reference /\ None \notin Inode /\ Inode \subseteq Reference /\ 0 \in Run
  BY ServedAssumption DEF Reference, Inode, Top, None, Run

LEMMA BlankFile == Blank \in File
  BY DEF Blank, File

LEMMA OffState == Off \in ReaderState
  BY Numbers, BlankFile DEF Off, ReaderState

LEMMA InitType == Init => TypeInv
<1> SUFFICES ASSUME Init PROVE TypeInv
  OBVIOUS
<1>2. file \in [Inode -> File]
  BY Numbers, BlankFile DEF Init, File
<1>3. disk \in Reference /\ tmp \in Reference /\ made \in Reference
  BY Numbers, ServedAssumption DEF Init, Top
<1>4. ix \in [Indexers -> IndexerState] /\ call \in [Calls -> CallState]
  BY Numbers DEF Init, IndexerState, CallState
<1>5. left \in [runs : Run, failures : 0..Failures, bad : 0..BadReloads, calls : 0..MaxCalls]
  BY Numbers, ServedAssumption DEF Init
<1>6. NamedOK
  BY DEF Init, Off, NamedOK, Loading
<1> QED BY OffState, <1>2, <1>3, <1>4, <1>5, <1>6 DEF Init, TypeInv, TypeOK

\* A watcher that is told of a change keeps its view.
LEMMA ToldView ==
    ASSUME NEW v \in ReaderState
    PROVE  /\ Told(v) \in ReaderState
           /\ Told(v).event => v.event \/ v.pc \notin {"off", "boot"}
           /\ Told(v).pc = v.pc /\ Told(v).new = v.new /\ Told(v).built = v.built
           /\ Told(v).store = v.store /\ Told(v).idx = v.idx /\ Told(v).searcher = v.searcher
           /\ Told(v).refs = v.refs /\ Told(v).cacheStore = v.cacheStore
           /\ Told(v).cacheRefs = v.cacheRefs
  BY DEF Told, ReaderState

\* What the steps of a reload and of a start make of a reader.
LEMMA ReaderGivesUp ==
    ASSUME NEW v \in ReaderState, NEW b \in BOOLEAN
    PROVE  [v EXCEPT !.pc = "idle", !.new = None, !.missed = b] \in ReaderState
  BY Numbers DEF ReaderState

LEMMA ReaderBoots ==
    ASSUME NEW v \in ReaderState, NEW i \in Reference, NEW j \in Reference, NEW f \in File
    PROVE  [v EXCEPT !.pc = "boot", !.store = i, !.searcher = i, !.idx = f, !.refs = j]
             \in ReaderState
  BY DEF ReaderState

LEMMA OffBoots ==
    ASSUME NEW i \in Reference, NEW v, v = [Off EXCEPT !.pc = "boot", !.store = i, !.searcher = i]
    PROVE  v \in ReaderState /\ ~v.event /\ v.pc = "boot"
  BY OffState DEF ReaderState, Off

LEMMA ReaderCaches ==
    ASSUME NEW v \in ReaderState, NEW i \in Reference, NEW j \in Reference
    PROVE  [v EXCEPT !.cacheStore = i, !.cacheRefs = j] \in ReaderState
  BY DEF ReaderState

\* A step of an index run changes where it is, and may close its file.
LEMMA IndexerStep ==
    ASSUME NEW s \in IndexerState,
           NEW x \in {"idle", "remove", "create", "write", "close", "rename", "history"}
    PROVE  /\ [s EXCEPT !.pc = x] \in IndexerState
           /\ [s EXCEPT !.pc = x, !.fd = None] \in IndexerState
  BY Numbers DEF IndexerState

\* Every step keeps the types.
LEMMA StepType ==
    ASSUME TypeInv, [Next]_vars
    PROVE  TypeInv'
<1> USE DEF TypeInv, TypeOK
<1>1. ASSUME NEW p \in Indexers, Begin(p) PROVE TypeInv'
  <2>1. ix' \in [Indexers -> IndexerState]
    BY <1>1, Numbers DEF Begin, IndexerState, Run
  <2>2. UNCHANGED <<disk, file, rd, call>> /\ tmp' \in Reference /\ made' \in Reference
    BY <1>1, Numbers DEF Begin, files, Top
  <2>3. left' \in [runs : Run, failures : 0..Failures, bad : 0..BadReloads, calls : 0..MaxCalls]
    <3>1. left.runs + 1 \in Run
      BY <1>1, Numbers DEF Begin, Run
    <3> QED BY <1>1, <3>1 DEF Begin
  <2>4. NamedOK'
    BY <1>1, Numbers DEF Begin, NamedOK, IndexerState, files, Top
  <2> QED BY <2>1, <2>2, <2>3, <2>4
<1>2. ASSUME NEW p \in Indexers, RemoveTmp(p) PROVE TypeInv'
  <2>1. ix' \in [Indexers -> IndexerState]
    BY <1>2, IndexerStep DEF RemoveTmp
  <2>2. UNCHANGED <<disk, file, rd, call>> /\ tmp' \in Reference /\ made' \in Reference
    BY <1>2, Numbers DEF RemoveTmp, files, Top
  <2>3. left' \in [runs : Run, failures : 0..Failures, bad : 0..BadReloads, calls : 0..MaxCalls]
    BY <1>2, Numbers, ServedAssumption DEF RemoveTmp, Run
  <2>4. NamedOK'
    BY <1>2, Numbers DEF RemoveTmp, NamedOK, IndexerState, files, Top
  <2> QED BY <2>1, <2>2, <2>3, <2>4
<1>3. ASSUME NEW p \in Indexers, CreateTmp(p) PROVE TypeInv'
  <2>1. PICK i \in Inode :
          /\ ix' = [ix EXCEPT ![p] = [ix[p] EXCEPT !.pc = "write", !.fd = i]]
          /\ tmp' \in Reference /\ made' \in Reference
    <3>1. CASE tmp = None
      <4>1. made + 1 \in Inode
        BY <1>3, <3>1, Numbers DEF CreateTmp, Top
      <4>2. /\ ix' = [ix EXCEPT ![p] = [ix[p] EXCEPT !.pc = "write", !.fd = made + 1]]
            /\ tmp' = made + 1 /\ made' = made + 1
        BY <1>3, <3>1 DEF CreateTmp
      <4> QED BY <4>1, <4>2, Numbers
    <3>2. CASE tmp # None
      BY <1>3, <3>2 DEF CreateTmp, Reference
    <3> QED BY <3>1, <3>2
  <2>2. [ix[p] EXCEPT !.pc = "write", !.fd = i] \in IndexerState
    <3>1. ix[p] \in IndexerState
      OBVIOUS
    <3> HIDE DEF TypeInv, TypeOK
    <3> QED BY <3>1, <2>1, Numbers DEF IndexerState
  <2>3. UNCHANGED <<disk, file, rd, call, left>>
    BY <1>3 DEF CreateTmp
  <2>4. NamedOK'
    BY <2>1, <2>3, Numbers DEF NamedOK, IndexerState
  <2> QED BY <2>1, <2>2, <2>3, <2>4
<1>4. ASSUME NEW p \in Indexers, WriteSome(p) PROVE TypeInv'
  <2>1. ix' \in [Indexers -> IndexerState]
    BY <1>4, Numbers DEF WriteSome, IndexerState
  <2>2. file' \in [Inode -> File]
    BY <1>4, Numbers DEF WriteSome, File, IndexerState, NamedOK, Reference, files
  <2>3. disk' \in Reference /\ tmp' \in Reference /\ UNCHANGED <<made, call, left>>
    BY <1>4, Numbers DEF WriteSome, files
  <2>4. rd' = rd \/ (rd' = [r \in Reader |-> Told(rd[r])])
    BY <1>4 DEF WriteSome, NotifyWrite, Notify
  <2>5. rd' \in [Reader -> ReaderState]
    BY <2>4, ToldView
  <2>6. \A q \in Indexers :
          /\ ix'[q].pc \in {"write", "close"} => ix'[q].fd # None
          /\ ix'[q].pc = "history" => disk' # None
    BY <1>4, Numbers DEF WriteSome, NamedOK, IndexerState, files
  <2>7. \A r \in Reader : rd'[r].event => disk' # None
    BY <1>4, Numbers, ToldView DEF WriteSome, NotifyWrite, Notify, NamedOK, files, IndexerState
  <2>8. \A r \in Reader : rd'[r].pc \in Loading => rd'[r].new # None
    BY <2>4, ToldView DEF NamedOK
  <2> QED BY <2>1, <2>2, <2>3, <2>5, <2>6, <2>7, <2>8 DEF NamedOK
<1>5. ASSUME NEW p \in Indexers, CloseTmp(p) PROVE TypeInv'
  <2>1. ix' \in [Indexers -> IndexerState]
    BY <1>5, IndexerStep DEF CloseTmp
  <2>2. file' \in [Inode -> File]
    BY <1>5, Numbers DEF CloseTmp, File, IndexerState, NamedOK, Reference, files
  <2>3. disk' \in Reference /\ tmp' \in Reference /\ UNCHANGED <<made, call, left>>
    BY <1>5, Numbers DEF CloseTmp, files
  <2>4. rd' = rd \/ (rd' = [r \in Reader |-> Told(rd[r])])
    BY <1>5 DEF CloseTmp, NotifyWrite, Notify
  <2>5. rd' \in [Reader -> ReaderState]
    BY <2>4, ToldView
  <2>6. \A q \in Indexers :
          /\ ix'[q].pc \in {"write", "close"} => ix'[q].fd # None
          /\ ix'[q].pc = "history" => disk' # None
    BY <1>5, Numbers DEF CloseTmp, NamedOK, IndexerState, files
  <2>7. \A r \in Reader : rd'[r].event => disk' # None
    BY <1>5, Numbers, ToldView DEF CloseTmp, NotifyWrite, Notify, NamedOK, files, IndexerState
  <2>8. \A r \in Reader : rd'[r].pc \in Loading => rd'[r].new # None
    BY <2>4, ToldView DEF NamedOK
  <2> QED BY <2>1, <2>2, <2>3, <2>5, <2>6, <2>7, <2>8 DEF NamedOK
<1>6. ASSUME NEW p \in Indexers, Rename(p) PROVE TypeInv'
  <2>1. ix' \in [Indexers -> IndexerState]
    <3>1. ix[p] \in IndexerState
      OBVIOUS
    <3>2. \E x \in {"idle", "history"} : ix' = [ix EXCEPT ![p].pc = x]
      BY <1>6 DEF Rename
    <3> QED BY <3>1, <3>2, IndexerStep
  <2>2. file' \in [Inode -> File]
    BY <1>6, Numbers DEF Rename, File, IndexerState, NamedOK, Reference, files
  <2>3. disk' \in Reference /\ tmp' \in Reference /\ UNCHANGED <<made, call, left>>
    BY <1>6, Numbers DEF Rename, files
  <2>4. rd' = rd \/ (rd' = [r \in Reader |-> Told(rd[r])])
    BY <1>6 DEF Rename, NotifyWrite, Notify
  <2>5. rd' \in [Reader -> ReaderState]
    BY <2>4, ToldView
  <2>6. \A q \in Indexers :
          /\ ix'[q].pc \in {"write", "close"} => ix'[q].fd # None
          /\ ix'[q].pc = "history" => disk' # None
    BY <1>6, Numbers DEF Rename, NamedOK, IndexerState, files
  <2>7. \A r \in Reader : rd'[r].event => disk' # None
    BY <1>6, Numbers, ToldView DEF Rename, NotifyWrite, Notify, NamedOK, files, IndexerState
  <2>8. \A r \in Reader : rd'[r].pc \in Loading => rd'[r].new # None
    BY <2>4, ToldView DEF NamedOK
  <2> QED BY <2>1, <2>2, <2>3, <2>5, <2>6, <2>7, <2>8 DEF NamedOK
<1>7. ASSUME NEW p \in Indexers, History(p) PROVE TypeInv'
  <2>1. ix' \in [Indexers -> IndexerState]
    BY <1>7, Numbers DEF History, IndexerState
  <2>2. file' \in [Inode -> File]
    BY <1>7, Numbers DEF History, File, IndexerState, NamedOK, Reference, files
  <2>3. disk' \in Reference /\ tmp' \in Reference /\ UNCHANGED <<made, call, left>>
    BY <1>7, Numbers DEF History, files
  <2>4. rd' = rd \/ (rd' = [r \in Reader |-> Told(rd[r])])
    BY <1>7 DEF History, NotifyWrite, Notify
  <2>5. rd' \in [Reader -> ReaderState]
    BY <2>4, ToldView
  <2>6. \A q \in Indexers :
          /\ ix'[q].pc \in {"write", "close"} => ix'[q].fd # None
          /\ ix'[q].pc = "history" => disk' # None
    BY <1>7, Numbers DEF History, NamedOK, IndexerState, files
  <2>7. \A r \in Reader : rd'[r].event => disk' # None
    BY <1>7, Numbers, ToldView DEF History, NotifyWrite, Notify, NamedOK, files, IndexerState
  <2>8. \A r \in Reader : rd'[r].pc \in Loading => rd'[r].new # None
    BY <2>4, ToldView DEF NamedOK
  <2> QED BY <2>1, <2>2, <2>3, <2>5, <2>6, <2>7, <2>8 DEF NamedOK
<1>8. ASSUME NEW p \in Indexers, RunFails(p) PROVE TypeInv'
  <2>1. ix' \in [Indexers -> IndexerState]
    BY <1>8, Numbers DEF RunFails, IndexerState, Run
  <2>2. UNCHANGED <<disk, file, rd, call>> /\ tmp' \in Reference /\ made' \in Reference
    BY <1>8, Numbers DEF RunFails, files, Top
  <2>3. left' \in [runs : Run, failures : 0..Failures, bad : 0..BadReloads, calls : 0..MaxCalls]
    BY <1>8, Numbers, ServedAssumption DEF RunFails, Run
  <2>4. NamedOK'
    BY <1>8, Numbers DEF RunFails, NamedOK, IndexerState, files, Top
  <2> QED BY <2>1, <2>2, <2>3, <2>4
<1>9. ASSUME NEW r \in Reader, Boot(r) PROVE TypeInv'
  <2> DEFINE v == [Off EXCEPT !.pc = "boot", !.store = disk, !.searcher = disk,
                            !.idx = IF disk = None THEN Blank ELSE file[disk],
                            !.refs = IF r = "mcp" THEN RefsOf(disk) ELSE None]
  <2>0. /\ (IF r = "mcp" THEN RefsOf(disk) ELSE None) \in Reference
        /\ (IF disk = None THEN Blank ELSE file[disk]) \in File
    BY Numbers, BlankFile DEF RefsOf, Reference
  <2>1. rd[r] \in ReaderState
    BY DEF Reader
  <2>2. v \in ReaderState
    BY <2>0, OffState, ReaderBoots
  <2>3. rd' = [rd EXCEPT ![r] = v]
    BY <1>9 DEF Boot
  <2>4. UNCHANGED <<disk, tmp, made, file, ix, call>>
    BY <1>9 DEF Boot, files
  <2>5. left' \in [runs : Run, failures : 0..Failures, bad : 0..BadReloads, calls : 0..MaxCalls]
    BY <1>9, ServedAssumption DEF Boot
  <2>6. (v.event => disk # None) /\ (v.pc \in Loading => v.new # None)
    BY <1>9, <2>1 DEF Boot, Off, NamedOK, ReaderState, Reader, Loading
  <2> HIDE DEF v
  <2>7. rd' \in [Reader -> ReaderState]
    BY <2>2, <2>3
  <2>8. NamedOK'
    BY <2>3, <2>4, <2>6 DEF NamedOK, Reader
  <2> QED BY <2>4, <2>5, <2>7, <2>8
<1>10. ASSUME NEW r \in Reader, Watch(r) PROVE TypeInv'
  <2> DEFINE v == [rd[r] EXCEPT !.pc = "idle"]
  <2>1. rd[r] \in ReaderState
    BY DEF Reader
  <2>2. v \in ReaderState
    BY <2>1, Numbers, BlankFile DEF ReaderState
  <2>3. rd' = [rd EXCEPT ![r] = v]
    BY <1>10 DEF Watch
  <2>4. UNCHANGED <<disk, tmp, made, file, ix, call>>
    BY <1>10 DEF Watch, files
  <2>5. left' \in [runs : Run, failures : 0..Failures, bad : 0..BadReloads, calls : 0..MaxCalls]
    BY <1>10, ServedAssumption DEF Watch
  <2>6. (v.event => disk # None) /\ (v.pc \in Loading => v.new # None)
    BY <1>10, <2>1 DEF Watch, NamedOK, ReaderState, Reader, Loading
  <2> HIDE DEF v
  <2>7. rd' \in [Reader -> ReaderState]
    BY <2>2, <2>3
  <2>8. NamedOK'
    BY <2>3, <2>4, <2>6 DEF NamedOK, Reader
  <2> QED BY <2>4, <2>5, <2>7, <2>8
<1>11. ASSUME NEW r \in Reader, TakeEvent(r) PROVE TypeInv'
  <2> DEFINE v == [rd[r] EXCEPT !.pc = "build", !.event = FALSE, !.new = disk]
  <2>1. rd[r] \in ReaderState
    BY DEF Reader
  <2>2. v \in ReaderState
    BY <2>1, Numbers, BlankFile DEF ReaderState
  <2>3. rd' = [rd EXCEPT ![r] = v]
    BY <1>11 DEF TakeEvent
  <2>4. UNCHANGED <<disk, tmp, made, file, ix, call>>
    BY <1>11 DEF TakeEvent, files
  <2>5. left' \in [runs : Run, failures : 0..Failures, bad : 0..BadReloads, calls : 0..MaxCalls]
    BY <1>11, ServedAssumption DEF TakeEvent
  <2>6. (v.event => disk # None) /\ (v.pc \in Loading => v.new # None)
    BY <1>11, <2>1 DEF TakeEvent, NamedOK, ReaderState, Reader, Loading
  <2> HIDE DEF v
  <2>7. rd' \in [Reader -> ReaderState]
    BY <2>2, <2>3
  <2>8. NamedOK'
    BY <2>3, <2>4, <2>6 DEF NamedOK, Reader
  <2> QED BY <2>4, <2>5, <2>7, <2>8
<1>12. ASSUME NEW r \in Reader, ReloadFails(r) PROVE TypeInv'
  <2> DEFINE v == [rd[r] EXCEPT !.pc = "idle", !.new = None, !.missed = ~rd[r].event]
  <2>1. rd[r] \in ReaderState
    BY DEF Reader
  <2>2. v \in ReaderState
    <3>1. rd[r].event \in BOOLEAN
      BY <2>1 DEF ReaderState
    <3> QED BY <2>1, <3>1, ReaderGivesUp
  <2>3. rd' = [rd EXCEPT ![r] = v]
    BY <1>12 DEF ReloadFails
  <2>4. UNCHANGED <<disk, tmp, made, file, ix, call>>
    BY <1>12 DEF ReloadFails, files
  <2>5. left' \in [runs : Run, failures : 0..Failures, bad : 0..BadReloads, calls : 0..MaxCalls]
    BY <1>12, ServedAssumption DEF ReloadFails
  <2>6. (v.event => disk # None) /\ (v.pc \in Loading => v.new # None)
    BY <1>12, <2>1 DEF ReloadFails, NamedOK, ReaderState, Reader, Loading
  <2> HIDE DEF v
  <2>7. rd' \in [Reader -> ReaderState]
    BY <2>2, <2>3
  <2>8. NamedOK'
    BY <2>3, <2>4, <2>6 DEF NamedOK, Reader
  <2> QED BY <2>4, <2>5, <2>7, <2>8
<1>13. ASSUME NEW r \in Reader, BuildIndex(r) PROVE TypeInv'
  <2> DEFINE v == [rd[r] EXCEPT !.pc = "searcher", !.built = file[rd[r].new]]
  <2>0. file[rd[r].new] \in File
    BY <1>13, Numbers DEF BuildIndex, NamedOK, Loading, ReaderState, Reference
  <2>1. rd[r] \in ReaderState
    BY DEF Reader
  <2>2. v \in ReaderState
    BY <2>1, <2>0, Numbers, BlankFile DEF ReaderState
  <2>3. rd' = [rd EXCEPT ![r] = v]
    BY <1>13 DEF BuildIndex
  <2>4. UNCHANGED <<disk, tmp, made, file, ix, call>>
    BY <1>13 DEF BuildIndex, files
  <2>5. left' \in [runs : Run, failures : 0..Failures, bad : 0..BadReloads, calls : 0..MaxCalls]
    BY <1>13, ServedAssumption DEF BuildIndex
  <2>6. (v.event => disk # None) /\ (v.pc \in Loading => v.new # None)
    BY <1>13, <2>1 DEF BuildIndex, NamedOK, ReaderState, Reader, Loading
  <2> HIDE DEF v
  <2>7. rd' \in [Reader -> ReaderState]
    BY <2>2, <2>3
  <2>8. NamedOK'
    BY <2>3, <2>4, <2>6 DEF NamedOK, Reader
  <2> QED BY <2>4, <2>5, <2>7, <2>8
<1>14. ASSUME NEW r \in Reader, SetSearcher(r) PROVE TypeInv'
  <2> DEFINE v == [rd[r] EXCEPT !.pc = IF r = "mcp" THEN "refs" ELSE "install",
                              !.searcher = rd[r].new]
  <2>1. rd[r] \in ReaderState
    BY DEF Reader
  <2>2. v \in ReaderState
    <3> HIDE DEF TypeInv, TypeOK
    <3> QED BY <2>1, Numbers, BlankFile DEF ReaderState
  <2>3. rd' = [rd EXCEPT ![r] = v]
    BY <1>14 DEF SetSearcher
  <2>4. UNCHANGED <<disk, tmp, made, file, ix, call>>
    BY <1>14 DEF SetSearcher, files
  <2>5. left' \in [runs : Run, failures : 0..Failures, bad : 0..BadReloads, calls : 0..MaxCalls]
    BY <1>14, ServedAssumption DEF SetSearcher
  <2>6. (v.event => disk # None) /\ (v.pc \in Loading => v.new # None)
    BY <1>14, <2>1 DEF SetSearcher, NamedOK, ReaderState, Reader, Loading
  <2> HIDE DEF v
  <2>7. rd' \in [Reader -> ReaderState]
    BY <2>2, <2>3
  <2>8. NamedOK'
    BY <2>3, <2>4, <2>6 DEF NamedOK, Reader
  <2> QED BY <2>4, <2>5, <2>7, <2>8
<1>15. CASE SetRefs
  <2> DEFINE v == [rd["mcp"] EXCEPT !.pc = "install", !.refs = RefsOf(rd["mcp"].new)]
  <2>0. RefsOf(rd["mcp"].new) \in Reference
    BY Numbers DEF RefsOf, Reader, ReaderState
  <2>1. rd["mcp"] \in ReaderState
    BY DEF Reader
  <2>2. v \in ReaderState
    BY <2>1, <2>0, Numbers, BlankFile DEF ReaderState
  <2>3. rd' = [rd EXCEPT !["mcp"] = v]
    BY <1>15 DEF SetRefs
  <2>4. UNCHANGED <<disk, tmp, made, file, ix, call>>
    BY <1>15 DEF SetRefs, files
  <2>5. left' \in [runs : Run, failures : 0..Failures, bad : 0..BadReloads, calls : 0..MaxCalls]
    BY <1>15, ServedAssumption DEF SetRefs
  <2>6. (v.event => disk # None) /\ (v.pc \in Loading => v.new # None)
    BY <1>15, <2>1 DEF SetRefs, NamedOK, ReaderState, Reader, Loading
  <2> HIDE DEF v
  <2>7. rd' \in [Reader -> ReaderState]
    BY <2>2, <2>3
  <2>8. NamedOK'
    BY <2>3, <2>4, <2>6 DEF NamedOK, Reader
  <2> QED BY <2>4, <2>5, <2>7, <2>8
<1>16. CASE ReloadServe
  <2> DEFINE v == [rd["serve"] EXCEPT !.pc = "idle", !.idx = rd["serve"].built,
                                    !.new = None, !.built = Blank]
  <2>1. rd["serve"] \in ReaderState
    BY DEF Reader
  <2>2. v \in ReaderState
    BY <2>1, Numbers, BlankFile DEF ReaderState
  <2>3. rd' = [rd EXCEPT !["serve"] = v]
    BY <1>16 DEF ReloadServe
  <2>4. UNCHANGED <<disk, tmp, made, file, ix, call>>
    BY <1>16 DEF ReloadServe, files
  <2>5. left' \in [runs : Run, failures : 0..Failures, bad : 0..BadReloads, calls : 0..MaxCalls]
    BY <1>16, ServedAssumption DEF ReloadServe
  <2>6. (v.event => disk # None) /\ (v.pc \in Loading => v.new # None)
    BY <1>16, <2>1 DEF ReloadServe, NamedOK, ReaderState, Reader, Loading
  <2> HIDE DEF v
  <2>7. rd' \in [Reader -> ReaderState]
    BY <2>2, <2>3
  <2>8. NamedOK'
    BY <2>3, <2>4, <2>6 DEF NamedOK, Reader
  <2> QED BY <2>4, <2>5, <2>7, <2>8
<1>17. CASE ReloadMCP
  <2> DEFINE v == [rd["mcp"] EXCEPT !.pc = "idle", !.store = rd["mcp"].new,
                                  !.idx = rd["mcp"].built, !.cacheStore = None,
                                  !.cacheRefs = None, !.new = None, !.built = Blank]
  <2>1. rd["mcp"] \in ReaderState
    BY DEF Reader
  <2>2. v \in ReaderState
    BY <2>1, Numbers, BlankFile DEF ReaderState
  <2>3. rd' = [rd EXCEPT !["mcp"] = v]
    BY <1>17 DEF ReloadMCP
  <2>4. UNCHANGED <<disk, tmp, made, file, ix, call>>
    BY <1>17 DEF ReloadMCP, files
  <2>5. left' \in [runs : Run, failures : 0..Failures, bad : 0..BadReloads, calls : 0..MaxCalls]
    BY <1>17, ServedAssumption DEF ReloadMCP
  <2>6. (v.event => disk # None) /\ (v.pc \in Loading => v.new # None)
    BY <1>17, <2>1 DEF ReloadMCP, NamedOK, ReaderState, Reader, Loading
  <2> HIDE DEF v
  <2>7. rd' \in [Reader -> ReaderState]
    BY <2>2, <2>3
  <2>8. NamedOK'
    BY <2>3, <2>4, <2>6 DEF NamedOK, Reader
  <2> QED BY <2>4, <2>5, <2>7, <2>8
<1>18. CASE BootCreates
  <2>1. made + 1 \in Inode
    BY <1>18, Numbers DEF BootCreates, Top
  <2>2. rd' = [rd EXCEPT !["mcp"] = rd'["mcp"], !["serve"] = Told(rd["serve"])]
    BY <1>18 DEF BootCreates, Reader
  <2>3. rd'["mcp"] \in ReaderState /\ ~rd'["mcp"].event /\ rd'["mcp"].pc = "boot"
    <3>1. rd'["mcp"] = [Off EXCEPT !.pc = "boot", !.store = made + 1, !.searcher = made + 1]
      BY <1>18 DEF BootCreates, Reader
    <3>2. made + 1 \in Reference
      BY <2>1, Numbers
    <3> QED BY <3>1, <3>2, OffBoots
  <2>4. disk' \in Inode /\ made' \in Inode /\ UNCHANGED <<tmp, file, ix, call, left>>
    BY <1>18, <2>1 DEF BootCreates
  <2>5. rd' \in [Reader -> ReaderState]
    BY <2>2, <2>3, ToldView DEF Reader
  <2>6. NamedOK'
    BY <2>2, <2>3, <2>4, Numbers, ToldView DEF NamedOK, Reader, Loading
  <2> QED BY <2>4, <2>5, <2>6, Numbers
<1>19. ASSUME NEW c \in Calls, Snapshot(c) PROVE TypeInv'
  <2>1. call' \in [Calls -> CallState]
    <3>1. rd["mcp"].store \in Reference /\ rd["mcp"].searcher \in Reference
      BY DEF ReaderState, Reader
    <3>2. [pc |-> "refs", store |-> rd["mcp"].store, searcher |-> rd["mcp"].searcher,
           ledger |-> None] \in CallState
      BY <3>1, Numbers DEF CallState
    <3> QED BY <1>19, <3>2 DEF Snapshot
  <2>2. UNCHANGED <<disk, tmp, made, file, ix, rd>>
    BY <1>19 DEF Snapshot, files
  <2>3. left' \in [runs : Run, failures : 0..Failures, bad : 0..BadReloads, calls : 0..MaxCalls]
    BY <1>19, ServedAssumption DEF Snapshot
  <2> QED BY <2>1, <2>2, <2>3 DEF NamedOK
<1>20. ASSUME NEW c \in Calls, ReadRefs(c) PROVE TypeInv'
  <2>1. UNCHANGED <<disk, tmp, made, file, ix, rd, left>>
    BY <1>20 DEF ReadRefs, files
  <2>2. PICK hit \in Reference :
          call' = [call EXCEPT ![c] = IF hit # None
                                      THEN [@ EXCEPT !.pc = "answer", !.ledger = hit]
                                      ELSE [@ EXCEPT !.pc = "fetch"]]
    BY <1>20, Numbers DEF ReadRefs, ReaderState, Reader
  <2>3. call' \in [Calls -> CallState]
    <3>1. /\ [call[c] EXCEPT !.pc = "answer", !.ledger = hit] \in CallState
          /\ [call[c] EXCEPT !.pc = "fetch"] \in CallState
      BY DEF CallState
    <3> QED BY <2>2, <3>1
  <2> QED BY <2>1, <2>3 DEF NamedOK
<1>21. ASSUME NEW c \in Calls, FetchRefs(c) PROVE TypeInv'
  <2>1. [call[c] EXCEPT !.pc = "cache", !.ledger = call[c].store] \in CallState
    BY DEF CallState
  <2>2. UNCHANGED <<disk, tmp, made, file, ix, rd, left>>
    BY <1>21 DEF FetchRefs, files
  <2> QED BY <1>21, <2>1, <2>2 DEF FetchRefs, NamedOK
<1>22. ASSUME NEW c \in Calls, CacheRefs(c) PROVE TypeInv'
  <2>0. /\ rd["mcp"] \in ReaderState /\ call[c].store \in Reference
        /\ call[c].ledger \in Reference
    BY DEF CallState, Reader
  <2>1. rd'["mcp"] \in ReaderState /\ rd' = [rd EXCEPT !["mcp"] = rd'["mcp"]]
    BY <1>22, <2>0, ReaderCaches DEF CacheRefs, Reader
  <2>2. call' \in [Calls -> CallState] /\ UNCHANGED <<disk, tmp, made, file, ix, left>>
    BY <1>22 DEF CacheRefs, CallState, files
  <2>3. /\ rd'["mcp"].event = rd["mcp"].event /\ rd'["mcp"].pc = rd["mcp"].pc
        /\ rd'["mcp"].new = rd["mcp"].new
    BY <1>22 DEF CacheRefs, ReaderState, Reader
  <2> QED BY <2>1, <2>2, <2>3 DEF NamedOK, Reader
<1>23. ASSUME NEW c \in Calls, Answer(c) PROVE TypeInv'
  <2>1. call' \in [Calls -> CallState]
    BY <1>23, Numbers DEF Answer, CallState, ReaderState, Reader
  <2>2. UNCHANGED <<disk, tmp, made, file, ix, rd>>
    BY <1>23 DEF Answer, files
  <2>3. left' \in [runs : Run, failures : 0..Failures, bad : 0..BadReloads, calls : 0..MaxCalls]
    BY <1>23, ServedAssumption DEF Answer
  <2> QED BY <2>1, <2>2, <2>3 DEF NamedOK
<1>24. CASE UNCHANGED vars
  BY <1>24 DEF vars, NamedOK
<1> QED
  BY <1>1, <1>2, <1>3, <1>4, <1>5, <1>6, <1>7, <1>8, <1>9, <1>10, <1>11, <1>12, <1>13,
     <1>14, <1>15, <1>16, <1>17, <1>18, <1>19, <1>20, <1>21, <1>22, <1>23, <1>24
  DEF Next, IndexStep, ReloadStep, CallStep

\* Steps of readers and calls leave the files and the runs alone.
Quiet == UNCHANGED <<disk, tmp, file, made, ix>> /\ left'.runs = left.runs

LEMMA QuietFiles ==
    ASSUME TypeInv, FilesOK, TurnOK, Quiet PROVE FilesOK' /\ TurnOK'
  BY DEF Quiet, FilesOK, TurnOK, Pub, Sound, Whole, WholeOf

\* What is published stays as it is, and graph.db only moves forward.
Keeps ==
    /\ \A i \in Inode : Pub(i) => Pub(i)' /\ file'[i] = file[i]
    /\ disk # None => disk' # None
    /\ \A A \in SUBSET Run : Before(A, RunsIn(disk)) => Before(A, RunsIn(disk)')

LEMMA QuietKeeps ==
    ASSUME Quiet PROVE Keeps
  BY DEF Quiet, Keeps, Pub, Sound, Whole, WholeOf, RunsIn

\* While index processes take turns, only graph.db.tmp is written.
LEMMA StepFiles ==
    ASSUME TypeInv, FilesOK, TurnOK, Alone, [Next]_vars
    PROVE  FilesOK' /\ TurnOK'
<1> USE DEF TypeInv, TypeOK
<1>1. ASSUME NEW p \in Indexers, Begin(p) PROVE FilesOK' /\ TurnOK'
  <2>1. FilesOK'
    BY <1>1, Numbers DEF Begin, files, Pub, Sound, Whole, WholeOf, FilesOK, TurnOK,
       IndexerState, Blank, File, Reference, Run
  <2>2. TurnOK'
    BY <1>1, Numbers DEF Begin, files, WholeOf, FilesOK, TurnOK, IndexerState, Blank, File,
       Reference, Run
  <2> QED BY <2>1, <2>2
<1>2. ASSUME NEW p \in Indexers, RemoveTmp(p) PROVE FilesOK' /\ TurnOK'
  <2>1. tmp' = None /\ UNCHANGED <<disk, file, made, left>>
    BY <1>2 DEF RemoveTmp
  <2>2. FilesOK'
    BY <2>1, Numbers DEF FilesOK, Pub, Sound, Whole, WholeOf
  <2>3. TurnOK'
    BY <1>2, <2>1 DEF RemoveTmp, TurnOK, IndexerState
  <2> QED BY <2>2, <2>3
<1>3. ASSUME NEW p \in Indexers, CreateTmp(p) PROVE FilesOK' /\ TurnOK'
  <2>1. tmp = None
    BY <1>3 DEF CreateTmp, TurnOK
  <2>2. /\ tmp' = made + 1 /\ made' = made + 1 /\ UNCHANGED <<disk, file, left>>
        /\ ix' = [ix EXCEPT ![p] = [ix[p] EXCEPT !.pc = "write", !.fd = made + 1]]
    BY <1>3, <2>1 DEF CreateTmp
  <2>3. made + 1 \in Inode /\ file[made + 1] = Blank
    BY <1>3, <2>1, Numbers DEF CreateTmp, Top, FilesOK
  <2>4. FilesOK'
    BY <2>2, <2>3, Numbers DEF FilesOK, Pub, Sound, Whole, WholeOf
  <2>5. TurnOK'
    BY <1>3, <2>2, <2>3, Numbers DEF CreateTmp, TurnOK, IndexerState
  <2> QED BY <2>4, <2>5
<1>4. ASSUME NEW p \in Indexers, WriteSome(p) PROVE FilesOK' /\ TurnOK'
  <2>1. ix[p].fd = tmp /\ tmp \in Inode /\ file[tmp] = Blank /\ ix[p].run = left.runs
    BY <1>4 DEF WriteSome, TurnOK, Reference
  <2> DEFINE g == [file[tmp] EXCEPT !.begun = file[tmp].begun \cup {left.runs}]
  <2>0. g.begun = {left.runs} /\ g.ended = {}
    BY <2>1 DEF Blank
  <2>2. file' = [file EXCEPT ![tmp] = g]
    BY <1>4, <2>1, <2>0 DEF WriteSome
  <2>3. /\ UNCHANGED <<disk, tmp, made, left>>
        /\ ix' = [ix EXCEPT ![p] = [ix[p] EXCEPT !.pc = "close"]]
    BY <1>4 DEF WriteSome
  <2>4. left.runs \in 0..left.runs /\ made \in Nat
    BY Numbers DEF Run
  <2>5. FilesOK'
    <3>1. g.begun \subseteq 0..left.runs
      BY <2>0, <2>4
    <3> HIDE DEF g
    <3>2. \A i \in Inode \ {tmp} : file'[i] = file[i]
      BY <2>2
    <3>3. file'[tmp] = g
      BY <2>1, <2>2
    <3>4. \A i \in Inode : file'[i].begun \subseteq 0..left.runs
      BY <3>1, <3>2, <3>3 DEF FilesOK
    <3>5. disk' # None => Pub(disk)'
      BY <2>3, <3>2 DEF FilesOK, Pub, Sound, Whole, WholeOf
    <3>6. \A i \in Inode : i > made => file'[i] = Blank
      BY <2>4, <3>2, Numbers DEF FilesOK
    <3> QED BY <2>3, <3>4, <3>5, <3>6 DEF FilesOK
  <2>6. TurnOK'
    <3>1. \A q \in Indexers : q # p => ix'[q].pc = "idle"
      BY <1>4, <2>3 DEF WriteSome, TurnOK
    <3>2. ix'[p].pc = "close" /\ ix'[p].run = left.runs /\ ix'[p].fd = tmp
      BY <2>1, <2>3 DEF IndexerState
    <3>3. file'[tmp] = g
      BY <2>1, <2>2
    <3> QED BY <2>0, <2>1, <2>3, <3>1, <3>2, <3>3, Numbers DEF TurnOK
  <2> QED BY <2>5, <2>6
<1>5. ASSUME NEW p \in Indexers, CloseTmp(p) PROVE FilesOK' /\ TurnOK'
  <2>1. /\ ix[p].fd = tmp /\ tmp \in Inode /\ ix[p].run = left.runs
        /\ file[tmp].begun = {left.runs} /\ file[tmp].ended = {}
    BY <1>5 DEF CloseTmp, TurnOK, Reference
  <2> DEFINE g == [file[tmp] EXCEPT !.ended = file[tmp].ended \cup {left.runs}]
  <2>0. g.begun = {left.runs} /\ g.ended = {left.runs}
    BY <2>1 DEF File
  <2>2. file' = [file EXCEPT ![tmp] = g]
    BY <1>5, <2>1, <2>0 DEF CloseTmp
  <2>3. /\ UNCHANGED <<disk, tmp, made, left>>
        /\ ix' = [ix EXCEPT ![p] = [ix[p] EXCEPT !.pc = "rename", !.fd = None]]
    BY <1>5 DEF CloseTmp
  <2>4. left.runs \in 0..left.runs /\ made \in Nat
    BY Numbers DEF Run
  <2>5. FilesOK'
    <3>1. g.begun \subseteq 0..left.runs
      BY <2>0, <2>4
    <3> HIDE DEF g
    <3>2. \A i \in Inode \ {tmp} : file'[i] = file[i]
      BY <2>2
    <3>3. file'[tmp] = g
      BY <2>1, <2>2
    <3>4. \A i \in Inode : file'[i].begun \subseteq 0..left.runs
      BY <3>1, <3>2, <3>3 DEF FilesOK
    <3>5. disk' # None => Pub(disk)'
      BY <2>3, <3>2 DEF FilesOK, Pub, Sound, Whole, WholeOf
    <3>6. \A i \in Inode : i > made => file'[i] = Blank
      BY <2>4, <3>2, Numbers DEF FilesOK
    <3> QED BY <2>3, <3>4, <3>5, <3>6 DEF FilesOK
  <2>6. TurnOK'
    <3>1. \A q \in Indexers : q # p => ix'[q].pc = "idle"
      BY <1>5, <2>3 DEF CloseTmp, TurnOK
    <3>2. ix'[p].pc = "rename" /\ ix'[p].run = left.runs
      BY <2>1, <2>3 DEF IndexerState
    <3>3. file'[tmp] = g
      BY <2>1, <2>2
    <3> QED BY <2>0, <2>1, <2>3, <3>1, <3>2, <3>3, Numbers DEF TurnOK, WholeOf
  <2> QED BY <2>5, <2>6
<1>6. ASSUME NEW p \in Indexers, Rename(p) PROVE FilesOK' /\ TurnOK'
  <2>1. tmp \in Inode /\ WholeOf(file[tmp], left.runs) /\ left.runs \in Run
    BY <1>6 DEF Rename, TurnOK, Reference
  <2>2. /\ disk' = tmp /\ tmp' = None /\ UNCHANGED <<file, made, left>>
        /\ ix' = [ix EXCEPT ![p] = [ix[p] EXCEPT !.pc = "history"]]
    BY <1>6, <2>1, Numbers DEF Rename
  <2>3. FilesOK'
    BY <2>1, <2>2, Numbers DEF FilesOK, Pub, Sound, Whole, WholeOf
  <2>4. TurnOK'
    BY <1>6, <2>2 DEF Rename, TurnOK, IndexerState
  <2> QED BY <2>3, <2>4
<1>7. ASSUME NEW p \in Indexers, History(p) PROVE FilesOK' /\ TurnOK'
  <2>1. FilesOK'
    BY <1>7, Numbers DEF History, files, Pub, Sound, Whole, WholeOf, FilesOK, TurnOK,
       IndexerState, Blank, File, Reference, Run
  <2>2. TurnOK'
    BY <1>7, Numbers DEF History, files, WholeOf, FilesOK, TurnOK, IndexerState, Blank, File,
       Reference, Run
  <2> QED BY <2>1, <2>2
<1>8. ASSUME NEW p \in Indexers, RunFails(p) PROVE FilesOK' /\ TurnOK'
  <2>1. FilesOK'
    BY <1>8, Numbers DEF RunFails, files, Pub, Sound, Whole, WholeOf, FilesOK, TurnOK,
       IndexerState, Blank, File, Reference, Run
  <2>2. TurnOK'
    BY <1>8, Numbers DEF RunFails, files, WholeOf, FilesOK, TurnOK, IndexerState, Blank, File,
       Reference, Run
  <2> QED BY <2>1, <2>2
<1>9. ASSUME NEW r \in Reader, Boot(r) PROVE FilesOK' /\ TurnOK'
  BY <1>9, QuietFiles DEF Boot, Quiet, files
<1>10. ASSUME NEW r \in Reader, Watch(r) PROVE FilesOK' /\ TurnOK'
  BY <1>10, QuietFiles DEF Watch, Quiet, files
<1>11. ASSUME NEW r \in Reader, TakeEvent(r) PROVE FilesOK' /\ TurnOK'
  BY <1>11, QuietFiles DEF TakeEvent, Quiet, files
<1>12. ASSUME NEW r \in Reader, ReloadFails(r) PROVE FilesOK' /\ TurnOK'
  BY <1>12, QuietFiles DEF ReloadFails, Quiet, files
<1>13. ASSUME NEW r \in Reader, BuildIndex(r) PROVE FilesOK' /\ TurnOK'
  BY <1>13, QuietFiles DEF BuildIndex, Quiet, files
<1>14. ASSUME NEW r \in Reader, SetSearcher(r) PROVE FilesOK' /\ TurnOK'
  BY <1>14, QuietFiles DEF SetSearcher, Quiet, files
<1>15. CASE SetRefs
  BY <1>15, QuietFiles DEF SetRefs, Quiet, files
<1>16. CASE ReloadServe
  BY <1>16, QuietFiles DEF ReloadServe, Quiet, files
<1>17. CASE ReloadMCP
  BY <1>17, QuietFiles DEF ReloadMCP, Quiet, files
<1>18. CASE BootCreates
  <2>1. FilesOK'
    BY <1>18, Numbers DEF BootCreates, Pub, Sound, FilesOK, Reference, Top
  <2>2. TurnOK'
    BY <1>18, Numbers DEF BootCreates, TurnOK, WholeOf
  <2> QED BY <2>1, <2>2
<1>19. ASSUME NEW c \in Calls, Snapshot(c) PROVE FilesOK' /\ TurnOK'
  BY <1>19, QuietFiles DEF Snapshot, Quiet, files
<1>20. ASSUME NEW c \in Calls, ReadRefs(c) PROVE FilesOK' /\ TurnOK'
  BY <1>20, QuietFiles DEF ReadRefs, Quiet, files
<1>21. ASSUME NEW c \in Calls, FetchRefs(c) PROVE FilesOK' /\ TurnOK'
  BY <1>21, QuietFiles DEF FetchRefs, Quiet, files
<1>22. ASSUME NEW c \in Calls, CacheRefs(c) PROVE FilesOK' /\ TurnOK'
  BY <1>22, QuietFiles DEF CacheRefs, Quiet, files
<1>23. ASSUME NEW c \in Calls, Answer(c) PROVE FilesOK' /\ TurnOK'
  BY <1>23, QuietFiles DEF Answer, Quiet, files
<1>24. CASE UNCHANGED vars
  BY <1>24, QuietFiles DEF vars, Quiet
<1> QED
  BY <1>1, <1>2, <1>3, <1>4, <1>5, <1>6, <1>7, <1>8, <1>9, <1>10, <1>11, <1>12, <1>13,
     <1>14, <1>15, <1>16, <1>17, <1>18, <1>19, <1>20, <1>21, <1>22, <1>23, <1>24
  DEF Next, IndexStep, ReloadStep, CallStep

\* Every step keeps the published files.
LEMMA StepKeeps ==
    ASSUME TypeInv, FilesOK, TurnOK, Alone, [Next]_vars
    PROVE  Keeps
<1> USE DEF TypeInv, TypeOK
<1>1. ASSUME NEW p \in Indexers, Begin(p) PROVE Keeps
  BY <1>1, Numbers DEF Begin, files, Keeps, Pub, Sound, Whole, WholeOf, RunsIn, Reference,
     Top, TurnOK, FilesOK
<1>2. ASSUME NEW p \in Indexers, RemoveTmp(p) PROVE Keeps
  BY <1>2, Numbers DEF RemoveTmp, files, Keeps, Pub, Sound, Whole, WholeOf, RunsIn, Reference,
     Top, TurnOK, FilesOK
<1>3. ASSUME NEW p \in Indexers, CreateTmp(p) PROVE Keeps
  <2>1. tmp' = made + 1 /\ made' = made + 1 /\ UNCHANGED <<disk, file>>
    BY <1>3 DEF CreateTmp, TurnOK
  <2> QED BY <2>1, Numbers DEF Keeps, Pub, Sound, Whole, WholeOf, RunsIn
<1>4. ASSUME NEW p \in Indexers, WriteSome(p) PROVE Keeps
  <2>1. \A i \in Inode : Pub(i) => Pub(i)' /\ file'[i] = file[i]
    BY <1>4 DEF WriteSome, Pub, Sound, Whole, WholeOf, TurnOK, IndexerState
  <2>2. disk' = disk /\ (disk # None => Pub(disk))
    BY <1>4 DEF WriteSome, FilesOK
  <2>3. RunsIn(disk)' = RunsIn(disk)
    BY <2>1, <2>2 DEF RunsIn, Pub
  <2> QED BY <2>1, <2>2, <2>3 DEF Keeps, Before
<1>5. ASSUME NEW p \in Indexers, CloseTmp(p) PROVE Keeps
  <2>1. \A i \in Inode : Pub(i) => Pub(i)' /\ file'[i] = file[i]
    BY <1>5 DEF CloseTmp, Pub, Sound, Whole, WholeOf, TurnOK, IndexerState
  <2>2. disk' = disk /\ (disk # None => Pub(disk))
    BY <1>5 DEF CloseTmp, FilesOK
  <2>3. RunsIn(disk)' = RunsIn(disk)
    BY <2>1, <2>2 DEF RunsIn, Pub
  <2> QED BY <2>1, <2>2, <2>3 DEF Keeps, Before
<1>6. ASSUME NEW p \in Indexers, Rename(p) PROVE Keeps
  <2>1. tmp # None /\ WholeOf(file[tmp], left.runs)
    BY <1>6 DEF Rename, TurnOK
  <2>2. disk' = tmp /\ tmp' = None /\ file' = file /\ made' = made
    BY <1>6, <2>1 DEF Rename
  <2>3. RunsIn(disk)' = {left.runs}
    BY <2>1, <2>2 DEF RunsIn, WholeOf
  <2>4. RunsIn(disk) \subseteq 0..left.runs
    BY DEF RunsIn, FilesOK, Reference
  <2>5. ASSUME NEW A \in SUBSET Run, Before(A, RunsIn(disk)) PROVE Before(A, RunsIn(disk)')
    BY <2>3, <2>4, <2>5, Numbers DEF Before, Run
  <2> QED BY <2>1, <2>2, <2>5, Numbers DEF Keeps, Pub, Sound, Whole, WholeOf
<1>7. ASSUME NEW p \in Indexers, History(p) PROVE Keeps
  BY <1>7, Numbers DEF History, files, Keeps, Pub, Sound, Whole, WholeOf, RunsIn, Reference,
     Top, TurnOK, FilesOK
<1>8. ASSUME NEW p \in Indexers, RunFails(p) PROVE Keeps
  BY <1>8, Numbers DEF RunFails, files, Keeps, Pub, Sound, Whole, WholeOf, RunsIn, Reference,
     Top, TurnOK, FilesOK
<1>9. ASSUME NEW r \in Reader, Boot(r) PROVE Keeps
  BY <1>9, QuietKeeps DEF Boot, Quiet, files
<1>10. ASSUME NEW r \in Reader, Watch(r) PROVE Keeps
  BY <1>10, QuietKeeps DEF Watch, Quiet, files
<1>11. ASSUME NEW r \in Reader, TakeEvent(r) PROVE Keeps
  BY <1>11, QuietKeeps DEF TakeEvent, Quiet, files
<1>12. ASSUME NEW r \in Reader, ReloadFails(r) PROVE Keeps
  BY <1>12, QuietKeeps DEF ReloadFails, Quiet, files
<1>13. ASSUME NEW r \in Reader, BuildIndex(r) PROVE Keeps
  BY <1>13, QuietKeeps DEF BuildIndex, Quiet, files
<1>14. ASSUME NEW r \in Reader, SetSearcher(r) PROVE Keeps
  BY <1>14, QuietKeeps DEF SetSearcher, Quiet, files
<1>15. CASE SetRefs
  BY <1>15, QuietKeeps DEF SetRefs, Quiet, files
<1>16. CASE ReloadServe
  BY <1>16, QuietKeeps DEF ReloadServe, Quiet, files
<1>17. CASE ReloadMCP
  BY <1>17, QuietKeeps DEF ReloadMCP, Quiet, files
<1>18. CASE BootCreates
  <2>1. RunsIn(disk) = {} /\ disk' # None
    BY <1>18, Numbers DEF BootCreates, RunsIn, Reference
  <2> QED BY <1>18, <2>1, Numbers DEF BootCreates, Keeps, Before, Pub, Sound, Whole, WholeOf,
     Reference
<1>19. ASSUME NEW c \in Calls, Snapshot(c) PROVE Keeps
  BY <1>19, QuietKeeps DEF Snapshot, Quiet, files
<1>20. ASSUME NEW c \in Calls, ReadRefs(c) PROVE Keeps
  BY <1>20, QuietKeeps DEF ReadRefs, Quiet, files
<1>21. ASSUME NEW c \in Calls, FetchRefs(c) PROVE Keeps
  BY <1>21, QuietKeeps DEF FetchRefs, Quiet, files
<1>22. ASSUME NEW c \in Calls, CacheRefs(c) PROVE Keeps
  BY <1>22, QuietKeeps DEF CacheRefs, Quiet, files
<1>23. ASSUME NEW c \in Calls, Answer(c) PROVE Keeps
  BY <1>23, QuietKeeps DEF Answer, Quiet, files
<1>24. CASE UNCHANGED vars
  BY <1>24, QuietKeeps DEF vars, Quiet
<1> QED
  BY <1>1, <1>2, <1>3, <1>4, <1>5, <1>6, <1>7, <1>8, <1>9, <1>10, <1>11, <1>12, <1>13,
     <1>14, <1>15, <1>16, <1>17, <1>18, <1>19, <1>20, <1>21, <1>22, <1>23, <1>24
  DEF Next, IndexStep, ReloadStep, CallStep

LEMMA BeforeTrans ==
    ASSUME NEW A \in SUBSET Run, NEW B \in SUBSET Run, NEW C \in SUBSET Run,
           Before(A, B), Before(B, C)
    PROVE  Before(A, C)
  BY Numbers DEF Before, Run

LEMMA BeforeSelf ==
    ASSUME NEW A \in SUBSET Run PROVE Before(A, A)
  BY Numbers DEF Before, Run

LEMMA RunsTyped ==
    ASSUME TypeOK, NEW i \in Reference PROVE RunsIn(i) \in SUBSET Run
  BY Numbers DEF TypeOK, RunsIn, File, Reference

\* The view of a reader is as it was, up to the notice of a change.
SameView(r) ==
    /\ rd'[r].pc = rd[r].pc /\ rd'[r].new = rd[r].new /\ rd'[r].built = rd[r].built
    /\ rd'[r].store = rd[r].store /\ rd'[r].idx = rd[r].idx
    /\ rd'[r].searcher = rd[r].searcher /\ rd'[r].refs = rd[r].refs

SameCache ==
    /\ rd'["mcp"].cacheStore = rd["mcp"].cacheStore
    /\ rd'["mcp"].cacheRefs = rd["mcp"].cacheRefs

LEMMA ViewKept ==
    ASSUME TypeInv, TypeInv', Keeps, NEW r \in Reader, ReaderOK(r), LoadingOK(r), SameView(r)
    PROVE  ReaderOK(r)' /\ LoadingOK(r)'
<1> USE DEF SameView
<1>1. /\ rd[r].idx.begun \in SUBSET Run /\ rd[r].store \in Reference /\ rd[r].new \in Reference
      /\ rd[r].searcher \in Reference /\ rd[r].refs \in Reference
  BY DEF TypeInv, TypeOK, ReaderState, File
<1>2. /\ RunsIn(rd[r].store)' = RunsIn(rd[r].store) /\ RunsIn(rd[r].new)' = RunsIn(rd[r].new)
      /\ RunsIn(rd[r].store) \in SUBSET Run /\ RunsIn(rd[r].new) \in SUBSET Run
  BY <1>1, RunsTyped DEF ReaderOK, Keeps, Pub, RunsIn, TypeInv
<1>3. /\ Before(rd[r].idx.begun, RunsIn(disk))' /\ Before(RunsIn(rd[r].store), RunsIn(disk))'
      /\ Before(RunsIn(rd[r].new), RunsIn(disk))'
  BY <1>1, <1>2 DEF ReaderOK, Keeps, Before
<1>4. /\ (rd[r].store # None => Pub(rd[r].store))' /\ (rd[r].searcher # None => Pub(rd[r].searcher))'
      /\ (rd[r].refs # None => Pub(rd[r].refs))' /\ (rd[r].new # None => Pub(rd[r].new))'
  BY DEF ReaderOK, Keeps, Pub
<1>5. (rd[r].event => disk # None)'
  BY DEF TypeInv, NamedOK
<1>6. ReaderOK(r)'
  BY <1>3, <1>4, <1>5 DEF ReaderOK, Sound, Whole, WholeOf
<1>7. LoadingOK(r)'
  BY <1>2 DEF LoadingOK, ReaderOK, Keeps, Pub, Before
<1> QED BY <1>6, <1>7

LEMMA SessionKept ==
    ASSUME TypeInv, Keeps, ReaderOK("mcp"), SessionOK, SameView("mcp"), SameCache
    PROVE  SessionOK'
<1> USE DEF SameView, SameCache
<1>1. /\ RunsIn(rd["mcp"].store)' = RunsIn(rd["mcp"].store)
      /\ RunsIn(rd["mcp"].searcher)' = RunsIn(rd["mcp"].searcher)
  BY DEF ReaderOK, Keeps, Pub, RunsIn
<1>2. (rd["mcp"].cacheStore # None => Pub(rd["mcp"].cacheStore))'
  BY DEF SessionOK, Keeps, Pub
<1> QED BY <1>1, <1>2 DEF SessionOK, Before

LEMMA CallKept ==
    ASSUME TypeInv, Keeps, NEW c \in Calls, CallOK(c), ReaderOK("mcp"), call'[c] = call[c],
           Before(RunsIn(call[c].store), RunsIn(rd["mcp"].store)')
    PROVE  CallOK(c)'
<1>1. /\ RunsIn(call[c].store)' = RunsIn(call[c].store)
      /\ RunsIn(call[c].searcher)' = RunsIn(call[c].searcher)
      /\ RunsIn(call[c].ledger)' = RunsIn(call[c].ledger)
  BY DEF CallOK, Keeps, Pub, RunsIn
<1>2. /\ (call[c].store # None => Pub(call[c].store))'
      /\ (call[c].searcher # None => Pub(call[c].searcher))'
      /\ (call[c].ledger # None => Pub(call[c].ledger))'
  BY DEF CallOK, Keeps, Pub
<1> QED BY <1>1, <1>2 DEF CallOK, Before

\* A step that changes no view and no call.
LEMMA AllKept ==
    ASSUME IInv, TypeInv', Keeps, \A r \in Reader : SameView(r), SameCache, call' = call
    PROVE  ReadersOK' /\ SessionOK' /\ CallsOK'
<1>1. ReadersOK'
  BY ViewKept DEF ReadersOK, IInv
<1>2. SessionOK'
  BY SessionKept DEF ReadersOK, IInv, Reader
<1>3. RunsIn(rd["mcp"].store)' = RunsIn(rd["mcp"].store)
  BY DEF SameView, IInv, ReadersOK, ReaderOK, Reader, Keeps, Pub, RunsIn
<1>4. CallsOK'
  <2> SUFFICES ASSUME NEW c \in Calls PROVE CallOK(c)'
    BY DEF CallsOK
  <2>1. CallOK(c) /\ ReaderOK("mcp") /\ TypeInv
    BY DEF CallsOK, ReadersOK, Reader, IInv
  <2>2. Before(RunsIn(call[c].store), RunsIn(rd["mcp"].store)')
    BY <1>3, <2>1 DEF CallOK
  <2>3. call'[c] = call[c]
    OBVIOUS
  <2> QED BY <2>1, <2>2, <2>3, CallKept
<1> QED BY <1>1, <1>2, <1>4

\* A step of one reader: the rest follows from what that reader now refers to.
LEMMA OneReader ==
    ASSUME IInv, TypeInv', Keeps, NEW r \in Reader, call' = call,
           \A q \in Reader \ {r} : rd'[q] = rd[q],
           ReaderOK(r)', LoadingOK(r)',
           r = "mcp" => SessionOK' /\ (Before(RunsIn(rd["mcp"].store), RunsIn(rd["mcp"].store)'))
    PROVE  ReadersOK' /\ SessionOK' /\ CallsOK'
<1>1. \A q \in Reader \ {r} : SameView(q)
  BY DEF SameView
<1>2. ReadersOK'
  BY <1>1, ViewKept DEF ReadersOK, IInv
<1>3. SessionOK'
  BY <1>1, SessionKept DEF SameCache, ReadersOK, IInv, Reader
<1>4. Before(RunsIn(rd["mcp"].store), RunsIn(rd["mcp"].store)')
  <2>1. CASE r = "mcp"
    BY <2>1
  <2>2. CASE r # "mcp"
    <3>1. RunsIn(rd["mcp"].store)' = RunsIn(rd["mcp"].store)
      BY <2>2 DEF IInv, ReadersOK, ReaderOK, Reader, Keeps, Pub, RunsIn
    <3>2. rd["mcp"].store \in Reference
      BY DEF IInv, TypeInv, TypeOK, ReaderState, Reader
    <3> QED BY <3>1, <3>2, RunsTyped, BeforeSelf DEF IInv, TypeInv
  <2> QED BY <2>1, <2>2
<1>5. ASSUME NEW c \in Calls PROVE CallOK(c)'
  <2>1. call[c].store \in Reference /\ rd["mcp"].store \in Reference /\ rd'["mcp"].store \in Reference
    BY DEF IInv, TypeInv, TypeOK, ReaderState, CallState, Reader
  <2>2. /\ RunsIn(call[c].store) \in SUBSET Run /\ RunsIn(rd["mcp"].store) \in SUBSET Run
    BY <2>1, RunsTyped DEF IInv, TypeInv
  <2>3. RunsIn(rd["mcp"].store)' \in SUBSET Run
    BY <2>1, Numbers DEF TypeInv, TypeOK, RunsIn, File, Reference
  <2>4. Before(RunsIn(call[c].store), RunsIn(rd["mcp"].store)')
    BY <1>4, <2>2, <2>3, BeforeTrans DEF IInv, CallsOK, CallOK
  <2> QED BY <2>4, CallKept DEF IInv, CallsOK, ReadersOK, Reader
<1> QED BY <1>2, <1>3, <1>5 DEF CallsOK

\* A step of one call.
LEMMA OneCall ==
    ASSUME IInv, TypeInv', Keeps, NEW c \in Calls, \A r \in Reader : SameView(r), SessionOK',
           \A d \in Calls \ {c} : call'[d] = call[d], CallOK(c)'
    PROVE  ReadersOK' /\ SessionOK' /\ CallsOK'
<1>1. ReadersOK'
  BY ViewKept DEF ReadersOK, IInv
<1>2. RunsIn(rd["mcp"].store)' = RunsIn(rd["mcp"].store)
  BY DEF SameView, IInv, ReadersOK, ReaderOK, Reader, Keeps, Pub, RunsIn
<1>3. \A d \in Calls \ {c} : CallOK(d)'
  BY <1>2, CallKept DEF CallsOK, CallOK, IInv, ReadersOK, Reader, Before
<1> QED BY <1>1, <1>3 DEF CallsOK

\* Every step keeps what the readers and the calls refer to.
LEMMA StepReaders ==
    ASSUME IInv, Alone, TypeInv', Keeps, [Next]_vars
    PROVE  ReadersOK' /\ SessionOK' /\ CallsOK'
<1>1. ASSUME NEW p \in Indexers, Begin(p) PROVE ReadersOK' /\ SessionOK' /\ CallsOK'
  BY <1>1, AllKept DEF Begin, SameView, SameCache
<1>2. ASSUME NEW p \in Indexers, RemoveTmp(p) PROVE ReadersOK' /\ SessionOK' /\ CallsOK'
  BY <1>2, AllKept DEF RemoveTmp, SameView, SameCache
<1>3. ASSUME NEW p \in Indexers, CreateTmp(p) PROVE ReadersOK' /\ SessionOK' /\ CallsOK'
  BY <1>3, AllKept DEF CreateTmp, SameView, SameCache
<1>4. ASSUME NEW p \in Indexers, WriteSome(p) PROVE ReadersOK' /\ SessionOK' /\ CallsOK'
  <2>1. rd' = rd \/ (rd' = [r \in Reader |-> Told(rd[r])])
    BY <1>4 DEF WriteSome, NotifyWrite, Notify
  <2>2. (\A r \in Reader : SameView(r)) /\ SameCache
    BY <2>1, ToldView DEF SameView, SameCache, IInv, TypeInv, TypeOK, Reader
  <2> QED BY <1>4, <2>2, AllKept DEF WriteSome
<1>5. ASSUME NEW p \in Indexers, CloseTmp(p) PROVE ReadersOK' /\ SessionOK' /\ CallsOK'
  <2>1. rd' = rd \/ (rd' = [r \in Reader |-> Told(rd[r])])
    BY <1>5 DEF CloseTmp, NotifyWrite, Notify
  <2>2. (\A r \in Reader : SameView(r)) /\ SameCache
    BY <2>1, ToldView DEF SameView, SameCache, IInv, TypeInv, TypeOK, Reader
  <2> QED BY <1>5, <2>2, AllKept DEF CloseTmp
<1>6. ASSUME NEW p \in Indexers, Rename(p) PROVE ReadersOK' /\ SessionOK' /\ CallsOK'
  <2>1. rd' = rd \/ (rd' = [r \in Reader |-> Told(rd[r])])
    BY <1>6 DEF Rename, NotifyWrite, Notify
  <2>2. (\A r \in Reader : SameView(r)) /\ SameCache
    BY <2>1, ToldView DEF SameView, SameCache, IInv, TypeInv, TypeOK, Reader
  <2> QED BY <1>6, <2>2, AllKept DEF Rename
<1>7. ASSUME NEW p \in Indexers, History(p) PROVE ReadersOK' /\ SessionOK' /\ CallsOK'
  <2>1. rd' = rd \/ (rd' = [r \in Reader |-> Told(rd[r])])
    BY <1>7 DEF History, NotifyWrite, Notify
  <2>2. (\A r \in Reader : SameView(r)) /\ SameCache
    BY <2>1, ToldView DEF SameView, SameCache, IInv, TypeInv, TypeOK, Reader
  <2> QED BY <1>7, <2>2, AllKept DEF History
<1>8. ASSUME NEW p \in Indexers, RunFails(p) PROVE ReadersOK' /\ SessionOK' /\ CallsOK'
  BY <1>8, AllKept DEF RunFails, SameView, SameCache
<1>9. ASSUME NEW r \in Reader, Boot(r) PROVE ReadersOK' /\ SessionOK' /\ CallsOK'
  <2> DEFINE v == [Off EXCEPT !.pc = "boot", !.store = disk, !.searcher = disk,
                            !.idx = IF disk = None THEN Blank ELSE file[disk],
                            !.refs = IF r = "mcp" THEN RefsOf(disk) ELSE None]
  <2>1. /\ rd[r] \in ReaderState /\ ReaderOK(r) /\ LoadingOK(r) /\ SessionOK
        /\ rd[r].pc = "off"
    BY <1>9 DEF Boot, IInv, TypeInv, TypeOK, ReadersOK, Reader
  <2>2. rd' = [rd EXCEPT ![r] = v] /\ UNCHANGED <<disk, tmp, file, made, call>>
    BY <1>9 DEF Boot, files
  <2>3. rd'[r] = v
    BY <2>2 DEF IInv, TypeInv, TypeOK, Reader
  <2>4. rd[r].idx.begun \in SUBSET Run /\ \A i \in Reference : RunsIn(i) \in SUBSET Run
    BY <2>1, RunsTyped DEF ReaderState, File, IInv, TypeInv
  <2>5. /\ {disk, rd[r].store, rd[r].new} \subseteq Reference
        /\ disk # None => Pub(disk)
    BY <2>1 DEF ReaderState, IInv, TypeInv, TypeOK, FilesOK
  <2>9. RefsOf(disk) \in {None, disk}
    BY DEF RefsOf
  <2>10. /\ v.pc = "boot" /\ v.event = FALSE /\ v.new = None /\ v.built = Blank
        /\ v.store = disk /\ v.idx = (IF disk = None THEN Blank ELSE file[disk])
        /\ v.searcher = disk /\ v.refs = (IF r = "mcp" THEN RefsOf(disk) ELSE None)
        /\ v.cacheStore = None /\ v.cacheRefs = None
    BY <2>1 DEF ReaderState, Off
  <2>11. /\ disk' = disk /\ file' = file
         /\ \A i : (Pub(i)' <=> Pub(i)) /\ RunsIn(i)' = RunsIn(i)
    BY <2>2 DEF Pub, Sound, Whole, WholeOf, RunsIn
  <2> HIDE DEF v
  <2>12. Sound(v.idx) /\ v.idx.begun = RunsIn(disk)
    BY <2>5, <2>10 DEF Sound, Pub, RunsIn, Blank
  <2>13. RunsIn(None) = {}
    BY DEF RunsIn
  <2>6. ReaderOK(r)'
    BY <2>1, <2>3, <2>4, <2>5, <2>10, <2>11, <2>9, <2>12, <2>13, BeforeSelf DEF ReaderOK,
       LoadingOK, Loading, Before
  <2>7. LoadingOK(r)'
    BY <2>1, <2>3, <2>4, <2>5, <2>10, <2>11, <2>9, <2>12, <2>13, BeforeSelf DEF ReaderOK,
       LoadingOK, Loading
  <2>8. r = "mcp" => SessionOK' /\ Before(RunsIn(rd["mcp"].store), RunsIn(rd["mcp"].store)')
    BY <2>1, <2>3, <2>4, <2>5, <2>10, <2>11, <2>9, <2>12, <2>13, BeforeSelf DEF SessionOK,
       ReaderOK, LoadingOK, Loading, Before
  <2> QED BY <2>2, <2>6, <2>7, <2>8, OneReader DEF Reader
<1>10. ASSUME NEW r \in Reader, Watch(r) PROVE ReadersOK' /\ SessionOK' /\ CallsOK'
  <2> DEFINE v == [rd[r] EXCEPT !.pc = "idle"]
  <2>1. /\ rd[r] \in ReaderState /\ ReaderOK(r) /\ LoadingOK(r) /\ SessionOK
        /\ rd[r].pc = "boot"
    BY <1>10 DEF Watch, IInv, TypeInv, TypeOK, ReadersOK, Reader
  <2>2. rd' = [rd EXCEPT ![r] = v] /\ UNCHANGED <<disk, tmp, file, made, call>>
    BY <1>10 DEF Watch, files
  <2>3. rd'[r] = v
    BY <2>2 DEF IInv, TypeInv, TypeOK, Reader
  <2>4. rd[r].idx.begun \in SUBSET Run /\ \A i \in Reference : RunsIn(i) \in SUBSET Run
    BY <2>1, RunsTyped DEF ReaderState, File, IInv, TypeInv
  <2>5. /\ {disk, rd[r].store, rd[r].new} \subseteq Reference
        /\ disk # None => Pub(disk)
    BY <2>1 DEF ReaderState, IInv, TypeInv, TypeOK, FilesOK
  <2>10. /\ v.pc = "idle" /\ v.event = rd[r].event /\ v.new = rd[r].new
        /\ v.built = rd[r].built /\ v.store = rd[r].store /\ v.idx = rd[r].idx
        /\ v.searcher = rd[r].searcher /\ v.refs = rd[r].refs
        /\ v.cacheStore = rd[r].cacheStore /\ v.cacheRefs = rd[r].cacheRefs
    BY <2>1 DEF ReaderState
  <2>11. /\ disk' = disk /\ file' = file
         /\ \A i : (Pub(i)' <=> Pub(i)) /\ RunsIn(i)' = RunsIn(i)
    BY <2>2 DEF Pub, Sound, Whole, WholeOf, RunsIn
  <2> HIDE DEF v
  <2>6. ReaderOK(r)'
    BY <2>1, <2>3, <2>4, <2>5, <2>10, <2>11, BeforeSelf DEF ReaderOK, LoadingOK, Loading
  <2>7. LoadingOK(r)'
    BY <2>1, <2>3, <2>4, <2>5, <2>10, <2>11, BeforeSelf DEF ReaderOK, LoadingOK, Loading
  <2>8. r = "mcp" => SessionOK' /\ Before(RunsIn(rd["mcp"].store), RunsIn(rd["mcp"].store)')
    BY <2>1, <2>3, <2>4, <2>5, <2>10, <2>11, BeforeSelf DEF SessionOK, ReaderOK, LoadingOK,
       Loading
  <2> QED BY <2>2, <2>6, <2>7, <2>8, OneReader DEF Reader
<1>11. ASSUME NEW r \in Reader, TakeEvent(r) PROVE ReadersOK' /\ SessionOK' /\ CallsOK'
  <2> DEFINE v == [rd[r] EXCEPT !.pc = "build", !.event = FALSE, !.new = disk]
  <2>1. /\ rd[r] \in ReaderState /\ ReaderOK(r) /\ LoadingOK(r) /\ SessionOK
        /\ rd[r].pc = "idle" /\ disk # None
    BY <1>11 DEF TakeEvent, IInv, TypeInv, TypeOK, ReadersOK, Reader, NamedOK
  <2>2. rd' = [rd EXCEPT ![r] = v] /\ UNCHANGED <<disk, tmp, file, made, call>>
    BY <1>11 DEF TakeEvent, files
  <2>3. rd'[r] = v
    BY <2>2 DEF IInv, TypeInv, TypeOK, Reader
  <2>4. rd[r].idx.begun \in SUBSET Run /\ \A i \in Reference : RunsIn(i) \in SUBSET Run
    BY <2>1, RunsTyped DEF ReaderState, File, IInv, TypeInv
  <2>5. /\ {disk, rd[r].store, rd[r].new} \subseteq Reference
        /\ disk # None => Pub(disk)
    BY <2>1 DEF ReaderState, IInv, TypeInv, TypeOK, FilesOK
  <2>10. /\ v.pc = "build" /\ v.event = FALSE /\ v.new = disk
        /\ v.built = rd[r].built /\ v.store = rd[r].store /\ v.idx = rd[r].idx
        /\ v.searcher = rd[r].searcher /\ v.refs = rd[r].refs
        /\ v.cacheStore = rd[r].cacheStore /\ v.cacheRefs = rd[r].cacheRefs
    BY <2>1 DEF ReaderState
  <2>11. /\ disk' = disk /\ file' = file
         /\ \A i : (Pub(i)' <=> Pub(i)) /\ RunsIn(i)' = RunsIn(i)
    BY <2>2 DEF Pub, Sound, Whole, WholeOf, RunsIn
  <2> HIDE DEF v
  <2>6. ReaderOK(r)'
    BY <2>1, <2>3, <2>4, <2>5, <2>10, <2>11, BeforeSelf DEF ReaderOK, LoadingOK, Loading
  <2>7. LoadingOK(r)'
    BY <2>1, <2>3, <2>4, <2>5, <2>10, <2>11, BeforeSelf DEF ReaderOK, LoadingOK, Loading
  <2>8. r = "mcp" => SessionOK' /\ Before(RunsIn(rd["mcp"].store), RunsIn(rd["mcp"].store)')
    BY <2>1, <2>3, <2>4, <2>5, <2>10, <2>11, BeforeSelf DEF SessionOK, ReaderOK, LoadingOK,
       Loading
  <2> QED BY <2>2, <2>6, <2>7, <2>8, OneReader DEF Reader
<1>12. ASSUME NEW r \in Reader, ReloadFails(r) PROVE ReadersOK' /\ SessionOK' /\ CallsOK'
  <2> DEFINE v == [rd[r] EXCEPT !.pc = "idle", !.new = None, !.missed = ~rd[r].event]
  <2>1. /\ rd[r] \in ReaderState /\ ReaderOK(r) /\ LoadingOK(r) /\ SessionOK
        /\ rd[r].pc = "build"
    BY <1>12 DEF ReloadFails, IInv, TypeInv, TypeOK, ReadersOK, Reader
  <2>2. rd' = [rd EXCEPT ![r] = v] /\ UNCHANGED <<disk, tmp, file, made, call>>
    BY <1>12 DEF ReloadFails, files
  <2>3. rd'[r] = v
    BY <2>2 DEF IInv, TypeInv, TypeOK, Reader
  <2>4. rd[r].idx.begun \in SUBSET Run /\ \A i \in Reference : RunsIn(i) \in SUBSET Run
    BY <2>1, RunsTyped DEF ReaderState, File, IInv, TypeInv
  <2>5. /\ {disk, rd[r].store, rd[r].new} \subseteq Reference
        /\ disk # None => Pub(disk)
    BY <2>1 DEF ReaderState, IInv, TypeInv, TypeOK, FilesOK
  <2>10. /\ v.pc = "idle" /\ v.event = rd[r].event /\ v.new = None
        /\ v.built = rd[r].built /\ v.store = rd[r].store /\ v.idx = rd[r].idx
        /\ v.searcher = rd[r].searcher /\ v.refs = rd[r].refs
        /\ v.cacheStore = rd[r].cacheStore /\ v.cacheRefs = rd[r].cacheRefs
    BY <2>1 DEF ReaderState
  <2>11. /\ disk' = disk /\ file' = file
         /\ \A i : (Pub(i)' <=> Pub(i)) /\ RunsIn(i)' = RunsIn(i)
    BY <2>2 DEF Pub, Sound, Whole, WholeOf, RunsIn
  <2> HIDE DEF v
  <2>12. RunsIn(None) = {}
    BY DEF RunsIn
  <2>6. ReaderOK(r)'
    BY <2>1, <2>3, <2>4, <2>5, <2>10, <2>11, <2>12, BeforeSelf DEF ReaderOK, LoadingOK,
       Loading, Before
  <2>7. LoadingOK(r)'
    BY <2>1, <2>3, <2>4, <2>5, <2>10, <2>11, <2>12, BeforeSelf DEF ReaderOK, LoadingOK,
       Loading, Before
  <2>8. r = "mcp" => SessionOK' /\ Before(RunsIn(rd["mcp"].store), RunsIn(rd["mcp"].store)')
    BY <2>1, <2>3, <2>4, <2>5, <2>10, <2>11, <2>12, BeforeSelf DEF SessionOK, ReaderOK,
       LoadingOK, Loading
  <2> QED BY <2>2, <2>6, <2>7, <2>8, OneReader DEF Reader
<1>13. ASSUME NEW r \in Reader, BuildIndex(r) PROVE ReadersOK' /\ SessionOK' /\ CallsOK'
  <2> DEFINE v == [rd[r] EXCEPT !.pc = "searcher", !.built = file[rd[r].new]]
  <2>1. /\ rd[r] \in ReaderState /\ ReaderOK(r) /\ LoadingOK(r) /\ SessionOK
        /\ rd[r].pc = "build"
    BY <1>13 DEF BuildIndex, IInv, TypeInv, TypeOK, ReadersOK, Reader
  <2>2. rd' = [rd EXCEPT ![r] = v] /\ UNCHANGED <<disk, tmp, file, made, call>>
    BY <1>13 DEF BuildIndex, files
  <2>3. rd'[r] = v
    BY <2>2 DEF IInv, TypeInv, TypeOK, Reader
  <2>4. rd[r].idx.begun \in SUBSET Run /\ \A i \in Reference : RunsIn(i) \in SUBSET Run
    BY <2>1, RunsTyped DEF ReaderState, File, IInv, TypeInv
  <2>5. /\ {disk, rd[r].store, rd[r].new} \subseteq Reference
        /\ disk # None => Pub(disk)
    BY <2>1 DEF ReaderState, IInv, TypeInv, TypeOK, FilesOK
  <2>10. /\ v.pc = "searcher" /\ v.event = rd[r].event /\ v.new = rd[r].new
        /\ v.built = file[rd[r].new] /\ v.store = rd[r].store /\ v.idx = rd[r].idx
        /\ v.searcher = rd[r].searcher /\ v.refs = rd[r].refs
        /\ v.cacheStore = rd[r].cacheStore /\ v.cacheRefs = rd[r].cacheRefs
    BY <2>1 DEF ReaderState
  <2>11. /\ disk' = disk /\ file' = file
         /\ \A i : (Pub(i)' <=> Pub(i)) /\ RunsIn(i)' = RunsIn(i)
    BY <2>2 DEF Pub, Sound, Whole, WholeOf, RunsIn
  <2> HIDE DEF v
  <2>6. ReaderOK(r)'
    BY <2>1, <2>3, <2>4, <2>5, <2>10, <2>11, BeforeSelf DEF ReaderOK, LoadingOK, Loading
  <2>7. LoadingOK(r)'
    BY <2>1, <2>3, <2>4, <2>5, <2>10, <2>11, BeforeSelf DEF ReaderOK, LoadingOK, Loading
  <2>8. r = "mcp" => SessionOK' /\ Before(RunsIn(rd["mcp"].store), RunsIn(rd["mcp"].store)')
    BY <2>1, <2>3, <2>4, <2>5, <2>10, <2>11, BeforeSelf DEF SessionOK, ReaderOK, LoadingOK,
       Loading
  <2> QED BY <2>2, <2>6, <2>7, <2>8, OneReader DEF Reader
<1>14. ASSUME NEW r \in Reader, SetSearcher(r) PROVE ReadersOK' /\ SessionOK' /\ CallsOK'
  <2> DEFINE v == [rd[r] EXCEPT !.pc = IF r = "mcp" THEN "refs" ELSE "install",
                              !.searcher = rd[r].new]
  <2>1. /\ rd[r] \in ReaderState /\ ReaderOK(r) /\ LoadingOK(r) /\ SessionOK
        /\ rd[r].pc = "searcher"
    BY <1>14 DEF SetSearcher, IInv, TypeInv, TypeOK, ReadersOK, Reader
  <2>2. rd' = [rd EXCEPT ![r] = v] /\ UNCHANGED <<disk, tmp, file, made, call>>
    BY <1>14 DEF SetSearcher, files
  <2>3. rd'[r] = v
    BY <2>2 DEF IInv, TypeInv, TypeOK, Reader
  <2>4. rd[r].idx.begun \in SUBSET Run /\ \A i \in Reference : RunsIn(i) \in SUBSET Run
    BY <2>1, RunsTyped DEF ReaderState, File, IInv, TypeInv
  <2>5. /\ {disk, rd[r].store, rd[r].new} \subseteq Reference
        /\ disk # None => Pub(disk)
    BY <2>1 DEF ReaderState, IInv, TypeInv, TypeOK, FilesOK
  <2>10. /\ v.pc = (IF r = "mcp" THEN "refs" ELSE "install")
        /\ v.event = rd[r].event /\ v.new = rd[r].new /\ v.built = rd[r].built
        /\ v.store = rd[r].store /\ v.idx = rd[r].idx /\ v.searcher = rd[r].new
        /\ v.refs = rd[r].refs /\ v.cacheStore = rd[r].cacheStore
        /\ v.cacheRefs = rd[r].cacheRefs
    BY <2>1 DEF ReaderState
  <2>11. /\ disk' = disk /\ file' = file
         /\ \A i : (Pub(i)' <=> Pub(i)) /\ RunsIn(i)' = RunsIn(i)
    BY <2>2 DEF Pub, Sound, Whole, WholeOf, RunsIn
  <2> HIDE DEF v
  <2>6. ReaderOK(r)'
    BY <2>1, <2>3, <2>4, <2>5, <2>10, <2>11, BeforeSelf DEF ReaderOK, LoadingOK, Loading
  <2>7. LoadingOK(r)'
    BY <2>1, <2>3, <2>4, <2>5, <2>10, <2>11, BeforeSelf DEF ReaderOK, LoadingOK, Loading
  <2>8. r = "mcp" => SessionOK' /\ Before(RunsIn(rd["mcp"].store), RunsIn(rd["mcp"].store)')
    BY <2>1, <2>3, <2>4, <2>5, <2>10, <2>11, BeforeSelf DEF SessionOK, ReaderOK, LoadingOK,
       Loading
  <2> QED BY <2>2, <2>6, <2>7, <2>8, OneReader DEF Reader
<1>15. CASE SetRefs
  <2> DEFINE v == [rd["mcp"] EXCEPT !.pc = "install", !.refs = RefsOf(rd["mcp"].new)]
  <2>1. /\ rd["mcp"] \in ReaderState /\ ReaderOK("mcp") /\ LoadingOK("mcp") /\ SessionOK
        /\ rd["mcp"].pc = "refs"
    BY <1>15 DEF SetRefs, IInv, TypeInv, TypeOK, ReadersOK, Reader
  <2>2. rd' = [rd EXCEPT !["mcp"] = v] /\ UNCHANGED <<disk, tmp, file, made, call>>
    BY <1>15 DEF SetRefs, files
  <2>3. rd'["mcp"] = v
    BY <2>2 DEF IInv, TypeInv, TypeOK, Reader
  <2>4. rd["mcp"].idx.begun \in SUBSET Run /\ \A i \in Reference : RunsIn(i) \in SUBSET Run
    BY <2>1, RunsTyped DEF ReaderState, File, IInv, TypeInv
  <2>5. /\ {disk, rd["mcp"].store, rd["mcp"].new} \subseteq Reference
        /\ disk # None => Pub(disk)
    BY <2>1 DEF ReaderState, IInv, TypeInv, TypeOK, FilesOK
  <2>9. RefsOf(rd["mcp"].new) \in {None, rd["mcp"].new}
    BY DEF RefsOf
  <2>10. /\ v.pc = "install" /\ v.event = rd["mcp"].event /\ v.new = rd["mcp"].new
        /\ v.built = rd["mcp"].built /\ v.store = rd["mcp"].store
        /\ v.idx = rd["mcp"].idx /\ v.searcher = rd["mcp"].searcher
        /\ v.refs = RefsOf(rd["mcp"].new) /\ v.cacheStore = rd["mcp"].cacheStore
        /\ v.cacheRefs = rd["mcp"].cacheRefs
    BY <2>1 DEF ReaderState
  <2>11. /\ disk' = disk /\ file' = file
         /\ \A i : (Pub(i)' <=> Pub(i)) /\ RunsIn(i)' = RunsIn(i)
    BY <2>2 DEF Pub, Sound, Whole, WholeOf, RunsIn
  <2> HIDE DEF v
  <2>6. ReaderOK("mcp")'
    BY <2>1, <2>3, <2>4, <2>5, <2>10, <2>11, <2>9, BeforeSelf DEF ReaderOK, LoadingOK, Loading
  <2>7. LoadingOK("mcp")'
    BY <2>1, <2>3, <2>4, <2>5, <2>10, <2>11, <2>9, BeforeSelf DEF ReaderOK, LoadingOK, Loading
  <2>8. SessionOK' /\ Before(RunsIn(rd["mcp"].store), RunsIn(rd["mcp"].store)')
    BY <2>1, <2>3, <2>4, <2>5, <2>10, <2>11, <2>9, BeforeSelf DEF SessionOK, ReaderOK,
       LoadingOK, Loading
  <2> QED BY <2>2, <2>6, <2>7, <2>8, OneReader DEF Reader
<1>16. CASE ReloadServe
  <2> DEFINE v == [rd["serve"] EXCEPT !.pc = "idle", !.idx = rd["serve"].built,
                                    !.new = None, !.built = Blank]
  <2>1. /\ rd["serve"] \in ReaderState /\ ReaderOK("serve") /\ LoadingOK("serve") /\ SessionOK
        /\ rd["serve"].pc = "install"
    BY <1>16 DEF ReloadServe, IInv, TypeInv, TypeOK, ReadersOK, Reader
  <2>2. rd' = [rd EXCEPT !["serve"] = v] /\ UNCHANGED <<disk, tmp, file, made, call>>
    BY <1>16 DEF ReloadServe, files
  <2>3. rd'["serve"] = v
    BY <2>2 DEF IInv, TypeInv, TypeOK, Reader
  <2>4. rd["serve"].idx.begun \in SUBSET Run /\ \A i \in Reference : RunsIn(i) \in SUBSET Run
    BY <2>1, RunsTyped DEF ReaderState, File, IInv, TypeInv
  <2>5. /\ {disk, rd["serve"].store, rd["serve"].new} \subseteq Reference
        /\ disk # None => Pub(disk)
    BY <2>1 DEF ReaderState, IInv, TypeInv, TypeOK, FilesOK
  <2>10. /\ v.pc = "idle" /\ v.event = rd["serve"].event /\ v.new = None
        /\ v.built = Blank /\ v.store = rd["serve"].store
        /\ v.idx = rd["serve"].built /\ v.searcher = rd["serve"].searcher
        /\ v.refs = rd["serve"].refs /\ v.cacheStore = rd["serve"].cacheStore
        /\ v.cacheRefs = rd["serve"].cacheRefs
    BY <2>1 DEF ReaderState
  <2>11. /\ disk' = disk /\ file' = file
         /\ \A i : (Pub(i)' <=> Pub(i)) /\ RunsIn(i)' = RunsIn(i)
    BY <2>2 DEF Pub, Sound, Whole, WholeOf, RunsIn
  <2> HIDE DEF v
  <2>12. RunsIn(None) = {}
    BY DEF RunsIn
  <2>13. rd["serve"].new # None /\ Sound(rd["serve"].built) /\ rd["serve"].built.begun = RunsIn(rd["serve"].new)
    BY <2>1 DEF ReaderOK, LoadingOK, Loading, Pub, RunsIn
  <2>6. ReaderOK("serve")'
    BY <2>1, <2>3, <2>4, <2>5, <2>10, <2>11, <2>12, <2>13, BeforeSelf DEF ReaderOK, LoadingOK,
       Loading, Before
  <2>7. LoadingOK("serve")'
    BY <2>1, <2>3, <2>4, <2>5, <2>10, <2>11, <2>12, <2>13, BeforeSelf DEF ReaderOK, LoadingOK,
       Loading, Before
  <2> QED BY <2>2, <2>6, <2>7, OneReader DEF Reader
<1>17. CASE ReloadMCP
  <2> DEFINE v == [rd["mcp"] EXCEPT !.pc = "idle", !.store = rd["mcp"].new,
                                  !.idx = rd["mcp"].built, !.cacheStore = None,
                                  !.cacheRefs = None, !.new = None, !.built = Blank]
  <2>1. /\ rd["mcp"] \in ReaderState /\ ReaderOK("mcp") /\ LoadingOK("mcp") /\ SessionOK
        /\ rd["mcp"].pc = "install"
    BY <1>17 DEF ReloadMCP, IInv, TypeInv, TypeOK, ReadersOK, Reader
  <2>2. rd' = [rd EXCEPT !["mcp"] = v] /\ UNCHANGED <<disk, tmp, file, made, call>>
    BY <1>17 DEF ReloadMCP, files
  <2>3. rd'["mcp"] = v
    BY <2>2 DEF IInv, TypeInv, TypeOK, Reader
  <2>4. rd["mcp"].idx.begun \in SUBSET Run /\ \A i \in Reference : RunsIn(i) \in SUBSET Run
    BY <2>1, RunsTyped DEF ReaderState, File, IInv, TypeInv
  <2>5. /\ {disk, rd["mcp"].store, rd["mcp"].new} \subseteq Reference
        /\ disk # None => Pub(disk)
    BY <2>1 DEF ReaderState, IInv, TypeInv, TypeOK, FilesOK
  <2>10. /\ v.pc = "idle" /\ v.event = rd["mcp"].event /\ v.new = None
        /\ v.built = Blank /\ v.store = rd["mcp"].new /\ v.idx = rd["mcp"].built
        /\ v.searcher = rd["mcp"].searcher /\ v.refs = rd["mcp"].refs
        /\ v.cacheStore = None /\ v.cacheRefs = None
    BY <2>1 DEF ReaderState
  <2>11. /\ disk' = disk /\ file' = file
         /\ \A i : (Pub(i)' <=> Pub(i)) /\ RunsIn(i)' = RunsIn(i)
    BY <2>2 DEF Pub, Sound, Whole, WholeOf, RunsIn
  <2> HIDE DEF v
  <2>12. RunsIn(None) = {}
    BY DEF RunsIn
  <2>13. rd["mcp"].new # None /\ Sound(rd["mcp"].built) /\ rd["mcp"].built.begun = RunsIn(rd["mcp"].new)
    BY <2>1 DEF ReaderOK, LoadingOK, Loading, Pub, RunsIn
  <2>6. ReaderOK("mcp")'
    BY <2>1, <2>3, <2>4, <2>5, <2>10, <2>11, <2>12, <2>13, BeforeSelf DEF ReaderOK, LoadingOK,
       Loading, Before
  <2>7. LoadingOK("mcp")'
    BY <2>1, <2>3, <2>4, <2>5, <2>10, <2>11, <2>12, <2>13, BeforeSelf DEF ReaderOK, LoadingOK,
       Loading, Before
  <2>8. SessionOK' /\ Before(RunsIn(rd["mcp"].store), RunsIn(rd["mcp"].store)')
    BY <2>1, <2>3, <2>4, <2>5, <2>10, <2>11, <2>12, <2>13, BeforeSelf DEF SessionOK, ReaderOK,
       LoadingOK, Loading
  <2> QED BY <2>2, <2>6, <2>7, <2>8, OneReader DEF Reader
<1>18. CASE BootCreates
  <2>0. PICK i \in Inode : i = made + 1
    BY <1>18, Numbers DEF BootCreates, Top, IInv, TypeInv, TypeOK
  <2> DEFINE v == [Off EXCEPT !.pc = "boot", !.store = i, !.searcher = i]
  <2>1. file[i] = Blank /\ rd["mcp"].pc = "off" /\ rd["mcp"].store = None
    BY <1>18, <2>0, Numbers DEF BootCreates, IInv, TypeInv, TypeOK, FilesOK, ReadersOK,
       ReaderOK, Reader
  <2>2. /\ rd' = [rd EXCEPT !["mcp"] = v, !["serve"] = Told(rd["serve"])]
        /\ disk' = i /\ made' = i /\ UNCHANGED <<tmp, file, call>>
    BY <1>18, <2>0 DEF BootCreates
  <2>3. rd'["mcp"] = v /\ rd'["serve"] = Told(rd["serve"])
    BY <2>2 DEF IInv, TypeInv, TypeOK, Reader
  <2>4. /\ v.pc = "boot" /\ v.event = FALSE /\ v.new = None /\ v.store = i /\ v.idx = Blank
        /\ v.searcher = i /\ v.refs = None /\ v.cacheStore = None /\ v.cacheRefs = None
    BY DEF Off
  <2>5. Pub(i)' /\ RunsIn(i)' = {} /\ RunsIn(None) = {} /\ RunsIn(None)' = {} /\ i # None
    BY <2>0, <2>1, <2>2, Numbers DEF Pub, Sound, RunsIn, Blank, IInv, FilesOK, TypeInv, TypeOK
  <2> HIDE DEF v
  <2>6. Sound(Blank) /\ Blank.begun = {}
    BY DEF Sound, Blank
  <2>7. ReaderOK("mcp")' /\ LoadingOK("mcp")' /\ SessionOK'
    BY <2>2, <2>3, <2>4, <2>5, <2>6 DEF ReaderOK, LoadingOK, Loading, SessionOK, Before
  <2>8. SameView("serve")
    BY <2>3, ToldView DEF SameView, IInv, TypeInv, TypeOK, Reader
  <2>9. ReaderOK("serve")' /\ LoadingOK("serve")'
    BY <2>8, ViewKept DEF IInv, ReadersOK, Reader
  <2>10. \A c \in Calls : RunsIn(call[c].store) = {}
    BY <2>1, <2>5 DEF IInv, CallsOK, CallOK, Before
  <2>11. \A c \in Calls : CallOK(c)'
    BY <2>2, <2>10, CallKept DEF IInv, CallsOK, ReadersOK, Reader, Before
  <2> QED BY <2>7, <2>9, <2>11 DEF ReadersOK, Reader, CallsOK
<1>19. ASSUME NEW c \in Calls, Snapshot(c) PROVE ReadersOK' /\ SessionOK' /\ CallsOK'
  <2> DEFINE v == [pc |-> "refs", store |-> rd["mcp"].store,
                   searcher |-> rd["mcp"].searcher, ledger |-> None]
  <2>1. /\ call[c] \in CallState /\ CallOK(c) /\ ReaderOK("mcp") /\ SessionOK
        /\ rd["mcp"] \in ReaderState /\ call[c].pc = "idle"
    BY <1>19 DEF Snapshot, IInv, TypeInv, TypeOK, CallsOK, ReadersOK, Reader
  <2>2. call' = [call EXCEPT ![c] = v] /\ UNCHANGED <<disk, tmp, file, made, rd>>
    BY <1>19 DEF Snapshot, files
  <2>3. call'[c] = v
    BY <2>2 DEF IInv, TypeInv, TypeOK
  <2>4. /\ v.pc = "refs" /\ v.store = rd["mcp"].store
        /\ v.searcher = rd["mcp"].searcher /\ v.ledger = None
    BY <2>1 DEF CallState
  <2>5. \A i : (Pub(i)' <=> Pub(i)) /\ RunsIn(i)' = RunsIn(i)
    BY <2>2 DEF Pub, Sound, Whole, WholeOf, RunsIn
  <2>6. (\A r \in Reader : SameView(r)) /\ SameCache /\ SessionOK'
    BY <2>2, SessionKept DEF SameView, SameCache, IInv, ReadersOK, Reader
  <2>7. /\ RunsIn(call[c].store) \in SUBSET Run /\ RunsIn(rd["mcp"].store) \in SUBSET Run
        /\ RunsIn(None) = {}
    BY <2>1, RunsTyped DEF CallState, ReaderState, IInv, TypeInv, RunsIn
  <2> HIDE DEF v
  <2>8. CallOK(c)'
    BY <2>1, <2>2, <2>3, <2>4, <2>5, <2>7, BeforeSelf DEF CallOK, ReaderOK, SessionOK
  <2> QED BY <2>2, <2>6, <2>8, OneCall
<1>20. ASSUME NEW c \in Calls, ReadRefs(c) PROVE ReadersOK' /\ SessionOK' /\ CallsOK'
  <2> DEFINE m == rd["mcp"]
             hit == IF m.refs # None THEN m.refs
                    ELSE IF m.cacheStore = call[c].store THEN m.cacheRefs ELSE None
             v == IF hit # None THEN [call[c] EXCEPT !.pc = "answer", !.ledger = hit]
                  ELSE [call[c] EXCEPT !.pc = "fetch"]
  <2>1. /\ call[c] \in CallState /\ CallOK(c) /\ ReaderOK("mcp") /\ LoadingOK("mcp") /\ SessionOK
        /\ rd["mcp"] \in ReaderState /\ call[c].pc = "refs"
    BY <1>20 DEF ReadRefs, IInv, TypeInv, TypeOK, CallsOK, ReadersOK, Reader
  <2>2. call' = [call EXCEPT ![c] = v] /\ UNCHANGED <<disk, tmp, file, made, rd>>
    BY <1>20 DEF ReadRefs, files
  <2>3. call'[c] = v
    BY <2>2 DEF IInv, TypeInv, TypeOK
  <2>4. \A i : (Pub(i)' <=> Pub(i)) /\ RunsIn(i)' = RunsIn(i)
    BY <2>2 DEF Pub, Sound, Whole, WholeOf, RunsIn
  <2>5. (\A r \in Reader : SameView(r)) /\ SessionOK'
    BY <2>2, SessionKept DEF SameView, SameCache, IInv, ReadersOK, Reader
  <2>6. /\ RunsIn(call[c].store) \in SUBSET Run /\ RunsIn(m.store) \in SUBSET Run
        /\ RunsIn(m.new) \in SUBSET Run
    BY <2>1, RunsTyped DEF CallState, ReaderState, IInv, TypeInv
  <2>7. hit # None => Pub(hit) /\ Before(RunsIn(call[c].store), RunsIn(hit))
    <3>1. CASE m.refs # None
      <4>1. Before(RunsIn(call[c].store), RunsIn(m.store))
        BY <2>1 DEF CallOK
      <4>2. m.refs = m.store \/ (m.refs = m.new /\ Before(RunsIn(m.store), RunsIn(m.new)))
        BY <2>1, <3>1 DEF SessionOK, LoadingOK, Loading
      <4>3. Before(RunsIn(call[c].store), RunsIn(m.refs))
        BY <2>6, <4>1, <4>2, BeforeTrans
      <4> QED BY <2>1, <3>1, <4>3 DEF ReaderOK
    <3>2. CASE m.refs = None
      BY <2>1, <2>6, <3>2, BeforeSelf DEF SessionOK
    <3> QED BY <3>1, <3>2
  <2> HIDE DEF hit
  <2>8. /\ v.store = call[c].store /\ v.searcher = call[c].searcher
        /\ \/ v.pc = "answer" /\ v.ledger = hit /\ hit # None
           \/ v.pc = "fetch" /\ v.ledger = call[c].ledger
    BY <2>1 DEF CallState
  <2> HIDE DEF v
  <2>9. CallOK(c)'
    BY <2>1, <2>2, <2>3, <2>4, <2>7, <2>8 DEF CallOK
  <2> QED BY <2>2, <2>5, <2>9, OneCall
<1>21. ASSUME NEW c \in Calls, FetchRefs(c) PROVE ReadersOK' /\ SessionOK' /\ CallsOK'
  <2> DEFINE v == [call[c] EXCEPT !.pc = "cache", !.ledger = call[c].store]
  <2>1. /\ call[c] \in CallState /\ CallOK(c) /\ ReaderOK("mcp") /\ SessionOK
        /\ rd["mcp"] \in ReaderState /\ call[c].pc = "fetch"
    BY <1>21 DEF FetchRefs, IInv, TypeInv, TypeOK, CallsOK, ReadersOK, Reader
  <2>2. call' = [call EXCEPT ![c] = v] /\ UNCHANGED <<disk, tmp, file, made, rd>>
    BY <1>21 DEF FetchRefs, files
  <2>3. call'[c] = v
    BY <2>2 DEF IInv, TypeInv, TypeOK
  <2>4. /\ v.pc = "cache" /\ v.store = call[c].store
        /\ v.searcher = call[c].searcher /\ v.ledger = call[c].store
    BY <2>1 DEF CallState
  <2>5. \A i : (Pub(i)' <=> Pub(i)) /\ RunsIn(i)' = RunsIn(i)
    BY <2>2 DEF Pub, Sound, Whole, WholeOf, RunsIn
  <2>6. (\A r \in Reader : SameView(r)) /\ SameCache /\ SessionOK'
    BY <2>2, SessionKept DEF SameView, SameCache, IInv, ReadersOK, Reader
  <2>7. /\ RunsIn(call[c].store) \in SUBSET Run /\ RunsIn(rd["mcp"].store) \in SUBSET Run
        /\ RunsIn(None) = {}
    BY <2>1, RunsTyped DEF CallState, ReaderState, IInv, TypeInv, RunsIn
  <2> HIDE DEF v
  <2>8. CallOK(c)'
    BY <2>1, <2>2, <2>3, <2>4, <2>5, <2>7, BeforeSelf DEF CallOK
  <2> QED BY <2>2, <2>6, <2>8, OneCall
<1>22. ASSUME NEW c \in Calls, CacheRefs(c) PROVE ReadersOK' /\ SessionOK' /\ CallsOK'
  <2> DEFINE w == [rd["mcp"] EXCEPT !.cacheStore = call[c].store, !.cacheRefs = call[c].ledger]
             v == [call[c] EXCEPT !.pc = "answer"]
  <2>1. /\ call[c] \in CallState /\ CallOK(c) /\ ReaderOK("mcp") /\ SessionOK
        /\ rd["mcp"] \in ReaderState /\ call[c].pc = "cache"
    BY <1>22 DEF CacheRefs, IInv, TypeInv, TypeOK, CallsOK, ReadersOK, Reader
  <2>2. /\ call' = [call EXCEPT ![c] = v] /\ rd' = [rd EXCEPT !["mcp"] = w]
        /\ UNCHANGED <<disk, tmp, file, made>>
    BY <1>22 DEF CacheRefs, files
  <2>3. call'[c] = v /\ rd'["mcp"] = w /\ rd'["serve"] = rd["serve"]
    BY <2>2 DEF IInv, TypeInv, TypeOK, Reader
  <2>4. /\ v.pc = "answer" /\ v.store = call[c].store
        /\ v.searcher = call[c].searcher /\ v.ledger = call[c].ledger
    BY <2>1 DEF CallState
  <2>5. /\ w.pc = rd["mcp"].pc /\ w.new = rd["mcp"].new /\ w.built = rd["mcp"].built
        /\ w.store = rd["mcp"].store /\ w.idx = rd["mcp"].idx
        /\ w.searcher = rd["mcp"].searcher /\ w.refs = rd["mcp"].refs
        /\ w.cacheStore = call[c].store /\ w.cacheRefs = call[c].ledger
    BY <2>1 DEF ReaderState
  <2>6. \A i : (Pub(i)' <=> Pub(i)) /\ RunsIn(i)' = RunsIn(i)
    BY <2>2 DEF Pub, Sound, Whole, WholeOf, RunsIn
  <2>7. RunsIn(call[c].store) \in SUBSET Run
    BY <2>1, RunsTyped DEF CallState, IInv, TypeInv
  <2> HIDE DEF v, w
  <2>8. \A r \in Reader : SameView(r)
    BY <2>3, <2>5 DEF SameView, Reader
  <2>9. SessionOK'
    BY <2>1, <2>3, <2>5, <2>6 DEF SessionOK, CallOK
  <2>10. CallOK(c)'
    BY <2>1, <2>3, <2>4, <2>5, <2>6, <2>7, BeforeSelf DEF CallOK
  <2> QED BY <2>2, <2>8, <2>9, <2>10, OneCall
<1>23. ASSUME NEW c \in Calls, Answer(c) PROVE ReadersOK' /\ SessionOK' /\ CallsOK'
  <2> DEFINE v == [pc |-> "idle", store |-> None, searcher |-> None, ledger |-> None]
  <2>1. /\ call[c] \in CallState /\ CallOK(c) /\ ReaderOK("mcp") /\ SessionOK
        /\ rd["mcp"] \in ReaderState /\ call[c].pc = "answer"
    BY <1>23 DEF Answer, IInv, TypeInv, TypeOK, CallsOK, ReadersOK, Reader
  <2>2. call' = [call EXCEPT ![c] = v] /\ UNCHANGED <<disk, tmp, file, made, rd>>
    BY <1>23 DEF Answer, files
  <2>3. call'[c] = v
    BY <2>2 DEF IInv, TypeInv, TypeOK
  <2>4. v.pc = "idle" /\ v.store = None /\ v.searcher = None /\ v.ledger = None
    BY <2>1 DEF CallState
  <2>5. \A i : (Pub(i)' <=> Pub(i)) /\ RunsIn(i)' = RunsIn(i)
    BY <2>2 DEF Pub, Sound, Whole, WholeOf, RunsIn
  <2>6. (\A r \in Reader : SameView(r)) /\ SameCache /\ SessionOK'
    BY <2>2, SessionKept DEF SameView, SameCache, IInv, ReadersOK, Reader
  <2>7. /\ RunsIn(call[c].store) \in SUBSET Run /\ RunsIn(rd["mcp"].store) \in SUBSET Run
        /\ RunsIn(None) = {}
    BY <2>1, RunsTyped DEF CallState, ReaderState, IInv, TypeInv, RunsIn
  <2> HIDE DEF v
  <2>8. CallOK(c)'
    BY <2>1, <2>2, <2>3, <2>4, <2>5, <2>7, BeforeSelf DEF CallOK, Before
  <2> QED BY <2>2, <2>6, <2>8, OneCall
<1>24. CASE UNCHANGED vars
  BY <1>24, AllKept DEF vars, SameView, SameCache
<1> QED
  BY <1>1, <1>2, <1>3, <1>4, <1>5, <1>6, <1>7, <1>8, <1>9, <1>10, <1>11, <1>12, <1>13,
     <1>14, <1>15, <1>16, <1>17, <1>18, <1>19, <1>20, <1>21, <1>22, <1>23, <1>24
  DEF Next, IndexStep, ReloadStep, CallStep

LEMMA InitOthers == Init => FilesOK /\ TurnOK /\ ReadersOK /\ SessionOK /\ CallsOK
<1> SUFFICES ASSUME Init PROVE FilesOK /\ TurnOK /\ ReadersOK /\ SessionOK /\ CallsOK
  OBVIOUS
<1>1. disk # None => Pub(disk)
  <2> SUFFICES ASSUME disk # None PROVE Pub(disk)
    OBVIOUS
  <2>1. disk = 1 /\ made = 1 /\ tmp = 0 /\ 1 \in Inode
    BY Numbers DEF Init, Top
  <2>2. file[1] = [begun |-> {0}, ended |-> {0}]
    BY <2>1 DEF Init
  <2>3. Sound(file[1])
    BY <2>2, Numbers DEF Sound, Whole, WholeOf
  <2> QED BY <2>1, <2>3 DEF Pub
<1>2. FilesOK
  BY <1>1, Numbers, ServedAssumption DEF Init, FilesOK, Blank
<1>3. TurnOK
  BY DEF Init, TurnOK
<1>4. ReadersOK /\ SessionOK /\ CallsOK
  BY DEF Init, Off, ReadersOK, ReaderOK, LoadingOK, Loading, SessionOK, CallsOK, CallOK, Reader,
         Before, RunsIn, Sound, Blank
<1> QED BY <1>2, <1>3, <1>4

(***************************************************************************)
(* Type correctness, whether or not index processes take turns: a reload   *)
(* always has a file to read, and a run a file to write.                   *)
(***************************************************************************)
THEOREM ServedTypes == Spec => []TypeOK
<1>1. TypeInv /\ [Next]_vars => TypeInv'
  BY StepType
<1>2. TypeInv => TypeOK
  BY DEF TypeInv
<1> QED BY InitType, <1>1, <1>2, PTL DEF Spec

(***************************************************************************)
(* The inductive invariant, where index processes take turns: what was     *)
(* renamed to graph.db is never written again, so what a reader has open,  *)
(* has loaded or is about to serve is whole and no newer than graph.db.    *)
(***************************************************************************)
THEOREM ServedInvariant ==
    ASSUME Alone PROVE Spec => []IInv
<1>1. Init => IInv
  BY InitType, InitOthers DEF IInv
<1>2. IInv /\ [Next]_vars => IInv'
  <2> SUFFICES ASSUME IInv, [Next]_vars PROVE IInv'
    OBVIOUS
  <2>1. TypeInv' /\ Keeps
    BY StepType, StepKeeps DEF IInv
  <2>2. FilesOK' /\ TurnOK'
    BY StepFiles DEF IInv
  <2>3. ReadersOK' /\ SessionOK' /\ CallsOK'
    BY <2>1, StepReaders
  <2> QED BY <2>1, <2>2, <2>3 DEF IInv
<1> QED BY <1>1, <1>2, PTL DEF Spec

(***************************************************************************)
(* Failed and killed runs never show: graph.db and every loaded graph are  *)
(* the whole work of one run.                                              *)
(***************************************************************************)
THEOREM GraphsAreWhole ==
    ASSUME Alone PROVE Spec => []WholeGraphs
<1>1. IInv => WholeGraphs
  BY DEF IInv, FilesOK, ReadersOK, ReaderOK, Pub, WholeGraphs
<1> QED BY ServedInvariant, <1>1, PTL

(***************************************************************************)
(* A reload never replaces a graph by an older one, although events are    *)
(* merged, reloads fail and graph.db moves on while a reload reads.        *)
(***************************************************************************)
THEOREM ReadersNeverGoBack ==
    ASSUME Alone PROVE Spec => NeverOlder
<1>1. ASSUME IInv, [Next]_vars, NEW r \in Reader, NEW a \in Run,
             rd[r].pc # "off", WholeOf(rd[r].idx, a)
      PROVE  \E b \in a..Runs : WholeOf(rd'[r].idx, b)
  <2>0. rd[r] \in ReaderState /\ rd \in [Reader -> ReaderState] /\ a \in a..Runs
    BY <1>1, Numbers DEF IInv, TypeInv, TypeOK, Run
  <2>1. CASE rd'[r].idx = rd[r].idx
    BY <1>1, <2>0, <2>1
  <2>2. CASE rd'[r].idx # rd[r].idx
    <3>1. rd[r].pc = "install" /\ rd'[r].idx = rd[r].built
      <4>1. CASE UNCHANGED vars
        BY <2>2, <4>1 DEF vars
      <4>2. ASSUME NEW p \in Indexers, Begin(p) \/ IndexStep(p) \/ RunFails(p)
            PROVE  rd'[r].idx = rd[r].idx
        <5>1. rd' = rd \/ (rd' = [q \in Reader |-> Told(rd[q])])
          BY <4>2 DEF Begin, IndexStep, RunFails, RemoveTmp, CreateTmp, WriteSome, CloseTmp,
             Rename, History, NotifyWrite, Notify
        <5> QED BY <2>0, <5>1, ToldView
      <4>3. ASSUME NEW q \in Reader, Boot(q) \/ Watch(q) \/ TakeEvent(q) \/ ReloadFails(q)
                                     \/ BuildIndex(q) \/ SetSearcher(q) \/ SetRefs
            PROVE  rd'[r].idx = rd[r].idx
        <5>1. CASE Boot(q)
          BY <1>1, <2>0, <5>1 DEF Boot
        <5>2. CASE Watch(q)
          BY <2>0, <5>2 DEF Watch, ReaderState
        <5>3. CASE TakeEvent(q)
          BY <2>0, <5>3 DEF TakeEvent, ReaderState
        <5>4. CASE ReloadFails(q)
          BY <2>0, <5>4 DEF ReloadFails, ReaderState
        <5>5. CASE BuildIndex(q)
          BY <2>0, <5>5 DEF BuildIndex, ReaderState
        <5>6. CASE SetSearcher(q)
          BY <2>0, <5>6 DEF SetSearcher, ReaderState
        <5>7. CASE SetRefs
          BY <2>0, <5>7 DEF SetRefs, ReaderState
        <5> QED BY <4>3, <5>1, <5>2, <5>3, <5>4, <5>5, <5>6, <5>7
      <4>4. CASE BootCreates
        BY <1>1, <2>0, <2>2, <4>4, ToldView DEF BootCreates, Reader
      <4>5. ASSUME NEW c \in Calls, Snapshot(c) \/ CallStep(c)
            PROVE  rd'[r].idx = rd[r].idx
        <5>1. CASE CacheRefs(c)
          BY <2>0, <5>1 DEF CacheRefs, ReaderState
        <5>2. CASE ~CacheRefs(c)
          BY <4>5, <5>2 DEF Snapshot, CallStep, ReadRefs, FetchRefs, Answer
        <5> QED BY <5>1, <5>2
      <4>6. CASE ReloadServe
        BY <2>0, <2>2, <4>6 DEF ReloadServe, ReaderState, Reader
      <4>7. CASE ReloadMCP
        BY <2>0, <2>2, <4>7 DEF ReloadMCP, ReaderState, Reader
      <4> QED BY <1>1, <2>2, <4>1, <4>2, <4>3, <4>4, <4>5, <4>6, <4>7 DEF Next, ReloadStep
    <3>2. /\ rd[r].built = file[rd[r].new] /\ Pub(rd[r].new)
          /\ Before(rd[r].idx.begun, RunsIn(rd[r].new)) /\ rd[r].new # None
      BY <1>1, <3>1 DEF IInv, ReadersOK, ReaderOK, LoadingOK, Loading
    <3>3. PICK b \in file[rd[r].new].begun : b >= a
      BY <1>1, <3>2 DEF WholeOf, Before, RunsIn
    <3>4. Whole(file[rd[r].new])
      BY <3>2, <3>3 DEF Pub, Sound, Blank
    <3>5. b \in Run /\ WholeOf(file[rd[r].new], b)
      BY <3>3, <3>4 DEF Whole, WholeOf
    <3>6. b \in a..Runs
      BY <3>3, <3>5, Numbers DEF Run
    <3> QED BY <3>1, <3>2, <3>5, <3>6
  <2> QED BY <2>1, <2>2
<1>2. IInv /\ [Next]_vars =>
        [\A r \in Reader, a \in Run :
           rd[r].pc # "off" /\ WholeOf(rd[r].idx, a) => \E b \in a..Runs : WholeOf(rd[r].idx', b)]_rd
  BY <1>1
<1> QED BY ServedInvariant, <1>2, PTL DEF Spec, NeverOlder

(***************************************************************************)
(* A tool call's ledger and searcher are at least as new as its graph,     *)
(* whichever reloads come between the three reads and the cache.           *)
(***************************************************************************)
THEOREM LedgerKeepsUp ==
    ASSUME Alone PROVE Spec => []LedgerNotOlder
<1>1. IInv => LedgerNotOlder
  BY DEF IInv, CallsOK, CallOK, LedgerNotOlder, Before
<1> QED BY ServedInvariant, <1>1, PTL

=============================================================================
