---------------------------- MODULE FleetServer ----------------------------
(***************************************************************************)
(* The served graph of `polyflow serve` in a fleet (internal/server,       *)
(* serve's wiring in cmd/polyflow/main.go, and the fleet banner of the     *)
(* page).  The server starts on the graph of its own workspace (Home).  A  *)
(* background goroutine merges the graphs of every member found on this    *)
(* machine (RefreshFleet), POST /api/fleet/active clones one more and      *)
(* merges again, and the watcher of graph.db reloads Home after an index   *)
(* run.  They share the fields of Server under idxMu, the cache of open    *)
(* member stores under st.mu, and the broadcast channel that feeds the     *)
(* event streams of the pages.                                             *)
(*                                                                         *)
(* A graph is its version: 0 is no graph, and every index run of a member  *)
(* publishes the next one.  A store is opened on a file and keeps it (one  *)
(* connection, never reopened), although an index run renames another file *)
(* over the path: a store is the version it was opened on.                 *)
(***************************************************************************)
EXTENDS Naturals, Sequences

CONSTANTS
  Member,     \* the members of the fleet
  Home,       \* the one this server was started in
  Boot,       \* the goroutine of wireFleetServe
  Post,       \* the POST /api/fleet/active requests
  MaxVersion, \* versions of a member's graph
  BusCap,     \* capacity of the broadcast channel
  ClientCap,  \* capacity of the channel of a client
  Happens,    \* what happens around the server in this instance
  None

Environment == {"fleet",        \* the workspace is a member of a fleet
                "overlap",      \* refreshes run at the same time
                "failure",      \* files and repositories cannot be read
                "cancel",       \* a client goes away while its POST is served
                "reindex",      \* members are indexed again
                "lateclient"}   \* a page connects or reconnects at any time
Refresher   == Post \cup {Boot}

ASSUME FleetConstants ==
  /\ Home \in Member /\ Boot \notin Post
  /\ MaxVersion \in Nat \ {0} /\ BusCap \in Nat /\ ClientCap \in Nat
  /\ Happens \subseteq Environment
  /\ None \notin Member

VARIABLES
  disk,       \* the graph.db of every member present on this machine
  stores,     \* st.stores: the version each cached store reads
  idx,        \* s.idx: the version of each member in the served graph
  fleet,      \* s.fleetRoots, fleetSearchers, fleetResolved, fleetUnresolvedRefs,
              \* None (nil) before the first merge
  searcher,   \* s.searcher: the searcher of the workspace itself
  syncing,    \* s.fleetSyncing
  pc,         \* where each refresh is
  want,       \* the member a POST asks for
  merged,     \* what mergeFn returned to each refresh
  changed,    \* fsnotify has an event of Home's graph.db
  reload,     \* where reloadDB is
  fresh,      \* the version it opened
  bus,        \* s.broadcast
  client,     \* where the page's event stream is
  inbox,      \* the client's channel
  banner      \* fleetMembersStore.syncing: the page says "syncing"

served    == <<idx, fleet, searcher, syncing>>
refreshes == <<pc, want, merged, stores>>
reloads   == <<changed, reload, fresh>>
page      == <<client, inbox, banner>>
vars      == <<disk, served, refreshes, reloads, bus, page>>

-----------------------------------------------------------------------------
Version == 0..MaxVersion
View    == [Member -> Version]
Nothing == [m \in Member |-> 0]

ASSUME NoneIsNoView == None \notin View

Msg     == {"fleet_syncing", "graph_updated", "fleet_synced"}
Over    == {"idle", "done"}                   \* a refresh that is not under way
Syncing == {"announce", "merge", "install"}   \* between the two writes of s.fleetSyncing

TypeOK ==
  /\ disk \in View /\ stores \in View /\ idx \in View /\ fleet \in View \cup {None}
  /\ searcher \in Version /\ fresh \in Version
  /\ syncing \in BOOLEAN /\ changed \in BOOLEAN /\ banner \in BOOLEAN
  /\ pc \in [Refresher -> Over \cup Syncing \cup {"ensure", "begin", "updated", "synced", "answer"}]
  /\ want \in [Refresher -> Member \cup {None}]
  /\ merged \in [Refresher -> View]
  /\ reload \in {"idle", "search", "install", "tell"}
  /\ client \in {"away", "greeted", "listening"}
  /\ bus \in Seq(Msg) /\ Len(bus) <= BusCap
  /\ inbox \in Seq(Msg) /\ Len(inbox) <= ClientCap

(* serve opened and indexed the graph of its own workspace; some of the
   other members may already be on this machine. *)
Init ==
  /\ disk \in {d \in [Member -> {0, 1}] : d[Home] = 1}
  /\ stores = [m \in Member |-> IF m = Home THEN 1 ELSE 0]
  /\ idx = stores /\ fleet = None /\ searcher = 1
  /\ syncing = FALSE
  /\ pc = [t \in Refresher |-> "idle"]
  /\ want = [t \in Refresher |-> None]
  /\ merged = [t \in Refresher |-> Nothing]
  /\ changed = FALSE /\ reload = "idle" /\ fresh = 0
  /\ bus = <<>> /\ client = "away" /\ inbox = <<>> /\ banner = FALSE

(* A non-blocking send.                                                    *)
Offer(queue, cap, msg) == IF Len(queue) < cap THEN Append(queue, msg) ELSE queue

Tell(msg) == bus' = Offer(bus, BusCap, msg)

Quiet == \A t \in Refresher : pc[t] \in Over
Wired == pc[Boot] # "idle"       \* SetFleet was called

-----------------------------------------------------------------------------
(* The refreshes.                                                          *)

(* wireFleetServe: the workspace is a fleet member; SetFleet, RefreshFleet. *)
Wire ==
  /\ "fleet" \in Happens /\ pc[Boot] = "idle"
  /\ pc' = [pc EXCEPT ![Boot] = "begin"]
  /\ UNCHANGED <<disk, served, want, merged, stores, reloads, bus, page>>

(* POST /api/fleet/active; it is answered 503 before SetFleet.             *)
Request(t, m) ==
  /\ t \in Post /\ pc[t] = "idle" /\ Wired
  /\ "overlap" \in Happens \/ Quiet
  /\ pc' = [pc EXCEPT ![t] = "ensure"]
  /\ want' = [want EXCEPT ![t] = m]
  /\ UNCHANGED <<disk, served, merged, stores, reloads, bus, page>>

(* newFleetEnsure, under st.mu: a member without a cached store is found or
   cloned and indexed (fleetsync.ResolveService), and its store opened. *)
Ensure(t) ==
  /\ pc[t] = "ensure"
  /\ disk' = IF disk[want[t]] = 0 THEN [disk EXCEPT ![want[t]] = 1] ELSE disk
  /\ stores' = IF stores[want[t]] = 0 THEN [stores EXCEPT ![want[t]] = disk'[want[t]]] ELSE stores
  /\ pc' = [pc EXCEPT ![t] = "begin"]
  /\ UNCHANGED <<served, want, merged, reloads, bus, page>>

(* ... or it cannot be resolved or opened, and the request is answered 500. *)
EnsureFails(t) ==
  /\ pc[t] = "ensure" /\ "failure" \in Happens /\ stores[want[t]] = 0
  /\ pc' = [pc EXCEPT ![t] = "done"]
  /\ UNCHANGED <<disk, served, want, merged, stores, reloads, bus, page>>

(* RefreshFleet records that a merge is under way, and says so.            *)
BeginSync(t) ==
  /\ pc[t] = "begin"
  /\ syncing' = TRUE
  /\ pc' = [pc EXCEPT ![t] = "announce"]
  /\ UNCHANGED <<disk, idx, fleet, searcher, want, merged, stores, reloads, bus, page>>

TellSyncing(t) ==
  /\ pc[t] = "announce"
  /\ Tell("fleet_syncing")
  /\ pc' = [pc EXCEPT ![t] = "merge"]
  /\ UNCHANGED <<disk, served, want, merged, stores, reloads, page>>

(* newFleetMerge, under st.mu: cached stores are read as they are, members
   present on this machine are opened and cached, the others are skipped.
   So is a member that cannot be opened, or cannot be read: BuildIndex fails
   on a bad file and, for every member still to come, once the context of
   the request is cancelled. *)
Merge(t, unopened, unread) ==
  /\ pc[t] = "merge"
  /\ unopened # {} => "failure" \in Happens
  /\ unread # {} => "failure" \in Happens \/ (t \in Post /\ "cancel" \in Happens)
  /\ stores' = [m \in Member |-> IF stores[m] = 0 /\ m \notin unopened THEN disk[m] ELSE stores[m]]
  /\ merged' = [merged EXCEPT ![t] = [m \in Member |-> IF m \in unread THEN 0 ELSE stores'[m]]]
  /\ pc' = [pc EXCEPT ![t] = "install"]
  /\ UNCHANGED <<disk, served, want, reloads, bus, page>>

(* Mutant: the error path leaves s.fleetSyncing set.                       *)
MergeFails_KeepsFlag(t) ==
  /\ pc[t] = "merge" /\ "failure" \in Happens
  /\ pc' = [pc EXCEPT ![t] = "done"]
  /\ UNCHANGED <<disk, served, want, merged, stores, reloads, bus, page>>

(* The registry cannot be read: the flag is reset and nobody is told.      *)
MergeFails(t) ==
  /\ pc[t] = "merge" /\ "failure" \in Happens
  /\ syncing' = FALSE
  /\ pc' = [pc EXCEPT ![t] = "done"]
  /\ UNCHANGED <<disk, idx, fleet, searcher, want, merged, stores, reloads, bus, page>>

(* Mutant: roots and searchers are kept from the previous merge.           *)
Install_IdxOnly(t) ==
  /\ pc[t] = "install"
  /\ idx' = merged[t] /\ syncing' = FALSE
  /\ fleet' = IF fleet = None THEN merged[t] ELSE fleet
  /\ merged' = [merged EXCEPT ![t] = Nothing]
  /\ pc' = [pc EXCEPT ![t] = "updated"]
  /\ UNCHANGED <<disk, searcher, want, stores, reloads, bus, page>>

(* Mutant: the view is narrowed to what the request asked for.             *)
Install_Switch(t) ==
  LET view == [m \in Member |-> IF want[t] \in {None, m} THEN merged[t][m] ELSE 0]
  IN  /\ pc[t] = "install"
      /\ idx' = view /\ fleet' = view /\ syncing' = FALSE
      /\ merged' = [merged EXCEPT ![t] = Nothing]
      /\ pc' = [pc EXCEPT ![t] = "updated"]
      /\ UNCHANGED <<disk, searcher, want, stores, reloads, bus, page>>

(* One critical section replaces everything that came with the merge.      *)
Install(t) ==
  /\ pc[t] = "install"
  /\ idx' = merged[t] /\ fleet' = merged[t] /\ syncing' = FALSE
  /\ merged' = [merged EXCEPT ![t] = Nothing]
  /\ pc' = [pc EXCEPT ![t] = "updated"]
  /\ UNCHANGED <<disk, searcher, want, stores, reloads, bus, page>>

TellUpdated(t) ==
  /\ pc[t] = "updated"
  /\ Tell("graph_updated")
  /\ pc' = [pc EXCEPT ![t] = "synced"]
  /\ UNCHANGED <<disk, served, want, merged, stores, reloads, page>>

(* RefreshFleet returns to wireFleetServe, or to the handler...            *)
TellSynced(t) ==
  /\ pc[t] = "synced"
  /\ Tell("fleet_synced")
  /\ pc' = [pc EXCEPT ![t] = IF t = Boot THEN "done" ELSE "answer"]
  /\ UNCHANGED <<disk, served, want, merged, stores, reloads, page>>

(* ... which sends graph_updated once more and answers 200.                *)
Answer(t) ==
  /\ pc[t] = "answer"
  /\ Tell("graph_updated")
  /\ pc' = [pc EXCEPT ![t] = "done"]
  /\ UNCHANGED <<disk, served, want, merged, stores, reloads, page>>

RefreshStep(t) ==
  \/ Ensure(t) \/ EnsureFails(t)
  \/ BeginSync(t) \/ TellSyncing(t)
  \/ \E unopened, unread \in SUBSET Member : Merge(t, unopened, unread)
  \/ MergeFails(t)
  \/ Install(t) \/ TellUpdated(t) \/ TellSynced(t) \/ Answer(t)

-----------------------------------------------------------------------------
(* Index runs, and the reload of the server's own graph.                   *)

(* An index run of a member publishes its next version.  Only the file of
   Home is watched. *)
Reindex(m) ==
  /\ "reindex" \in Happens /\ disk[m] \in 1..(MaxVersion - 1)
  /\ disk' = [disk EXCEPT ![m] = @ + 1]
  /\ changed' = (changed \/ m = Home)
  /\ UNCHANGED <<served, refreshes, reload, fresh, bus, page>>

(* reloadDB opens a new store on the file and builds its index...          *)
ReloadOpen ==
  /\ reload = "idle" /\ changed
  /\ changed' = FALSE
  /\ fresh' = disk[Home]
  /\ reload' = "search"
  /\ UNCHANGED <<disk, served, refreshes, bus, page>>

(* ... or fails to, and the server goes on with what it has...              *)
ReloadFails ==
  /\ reload = "idle" /\ changed /\ "failure" \in Happens
  /\ changed' = FALSE
  /\ UNCHANGED <<disk, served, refreshes, reload, fresh, bus, page>>

(* ... hands its searcher to the server...                                 *)
ReloadSearcher ==
  /\ reload = "search"
  /\ searcher' = fresh
  /\ reload' = "install"
  /\ UNCHANGED <<disk, idx, fleet, syncing, refreshes, changed, fresh, bus, page>>

(* ... and the index of this one store (Server.Reload), whatever the fleet
   fields hold. *)
ReloadIndex ==
  /\ reload = "install"
  /\ idx' = [Nothing EXCEPT ![Home] = fresh]
  /\ reload' = "tell"
  /\ UNCHANGED <<disk, fleet, searcher, syncing, refreshes, changed, fresh, bus, page>>

ReloadTell ==
  /\ reload = "tell"
  /\ Tell("graph_updated")
  /\ reload' = "idle" /\ fresh' = 0
  /\ UNCHANGED <<disk, served, refreshes, changed, page>>

ReloadStep == ReloadOpen \/ ReloadFails \/ ReloadSearcher \/ ReloadIndex \/ ReloadTell

-----------------------------------------------------------------------------
(* The event stream of a page.                                             *)

(* handleEvents greets the client, repeats fleet_syncing when a merge is
   under way... *)
Greet ==
  /\ client = "away" /\ ("lateclient" \in Happens \/ Quiet)
  /\ client' = "greeted"
  /\ banner' = (banner \/ syncing)
  /\ UNCHANGED <<disk, served, refreshes, reloads, bus, inbox>>

(* ... and only then registers the client's channel.                       *)
Register ==
  /\ client = "greeted"
  /\ client' = "listening"
  /\ UNCHANGED <<disk, served, refreshes, reloads, bus, inbox, banner>>

(* The connection breaks; the page keeps its state and connects again.     *)
Disconnect ==
  /\ client = "listening" /\ "lateclient" \in Happens
  /\ client' = "away" /\ inbox' = <<>>
  /\ UNCHANGED <<disk, served, refreshes, reloads, bus, banner>>

(* fanOut, a non-blocking send to every registered client.                 *)
FanOut ==
  /\ bus # <<>>
  /\ bus' = Tail(bus)
  /\ inbox' = IF client = "listening" THEN Offer(inbox, ClientCap, Head(bus)) ELSE inbox
  /\ UNCHANGED <<disk, served, refreshes, reloads, client, banner>>

(* Mutant: no message clears the banner.                                   *)
Receive_NeverClears ==
  /\ inbox # <<>>
  /\ inbox' = Tail(inbox)
  /\ banner' = (banner \/ Head(inbox) = "fleet_syncing")
  /\ UNCHANGED <<disk, served, refreshes, reloads, bus, client>>

(* The page's listener: fleet_syncing and fleet_synced move the banner.    *)
Receive ==
  /\ inbox # <<>>
  /\ inbox' = Tail(inbox)
  /\ banner' = CASE Head(inbox) = "fleet_syncing" -> TRUE
                 [] Head(inbox) = "fleet_synced"  -> FALSE
                 [] OTHER -> banner
  /\ UNCHANGED <<disk, served, refreshes, reloads, bus, client>>

Next ==
  \/ Wire
  \/ \E t \in Post, m \in Member : Request(t, m)
  \/ \E t \in Refresher : RefreshStep(t)
  \/ \E m \in Member : Reindex(m)
  \/ ReloadStep
  \/ Greet \/ Register \/ Disconnect \/ FanOut \/ Receive

Spec == Init /\ [][Next]_vars

(* Goroutines are scheduled; fsnotify, the network and the browser deliver. *)
FairSpec ==
  /\ Spec
  /\ \A t \in Refresher : WF_vars(RefreshStep(t))
  /\ WF_vars(ReloadStep) /\ WF_vars(FanOut) /\ WF_vars(Receive) /\ WF_vars(Register)

-----------------------------------------------------------------------------
(* Properties.                                                             *)

(* RefreshFleet: "idx, per-service checkout roots, and federated searchers
   all update together so a request never sees roots/searchers out of sync
   with idx"; before the first merge the workspace's own searcher goes with
   idx. *)
InSync ==
  IF fleet # None THEN idx = fleet ELSE reload \in {"idle", "tell"} => idx[Home] = searcher

(* handleFleetActive: "Every previously-resolved member stays merged in too":
   no step takes a member out of the served graph. *)
MembersStay == [][\A m \in Member : idx[m] # 0 => idx'[m] # 0]_idx

(* The flag never outlives the refreshes, however they overlap and fail:
   every page that connects later would be told of a merge that never ends. *)
SyncFlagCleared == (\A t \in Refresher : pc[t] \notin Syncing) => ~syncing

(* The inductive invariant behind SyncFlagCleared: a request that resolves a
   member has named one. *)
FleetInv ==
  /\ TypeOK
  /\ \A t \in Refresher : pc[t] = "ensure" => want[t] \in Member
  /\ SyncFlagCleared

(* Without index runs nothing is ever reloaded.                            *)
Unreloaded == ~changed /\ reload = "idle" /\ InSync

(* The banner goes away once no merge is under way.                        *)
BannerFollows == (banner /\ Quiet) ~> (~banner \/ ~Quiet)

(* The served graph of a member is never replaced by an older one.         *)
NeverOlder == [][\A m \in Member : idx[m] # 0 /\ idx'[m] # 0 => idx'[m] >= idx[m]]_idx

=============================================================================
