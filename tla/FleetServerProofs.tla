-------------------------- MODULE FleetServerProofs --------------------------
(* Proofs about FleetServer, for any fleet, any number of requests and any
   capacity of the channels. *)
EXTENDS FleetServer, TLAPS

(* A non-blocking send keeps a channel a channel.                          *)
LEMMA OfferFits ==
  ASSUME NEW q \in Seq(Msg), NEW cap \in Nat, Len(q) <= cap, NEW msg \in Msg
  PROVE  Offer(q, cap, msg) \in Seq(Msg) /\ Len(Offer(q, cap, msg)) <= cap
  BY DEF Offer

LEMMA ConstantTypes ==
  /\ Boot \in Refresher /\ Post \subseteq Refresher /\ Nothing \in View
  /\ 0 \in Version /\ 1 \in Version
  BY FleetConstants DEF Refresher, Nothing, View, Version

LEMMA InitFleetInv == Init => FleetInv
<1> SUFFICES ASSUME Init PROVE FleetInv
  OBVIOUS
<1>1. disk \in View /\ stores \in View /\ idx \in View
  <2>1. disk \in [Member -> {0, 1}]
    BY DEF Init
  <2>2. disk \in View
    BY <2>1, ConstantTypes DEF View
  <2>3. stores = [m \in Member |-> IF m = Home THEN 1 ELSE 0] /\ idx = stores
    BY DEF Init
  <2>4. stores \in View
    BY <2>3, ConstantTypes DEF View
  <2>5. QED
    BY <2>2, <2>3, <2>4
<1>2. TypeOK
  <2>1. bus \in Seq(Msg) /\ Len(bus) <= BusCap /\ inbox \in Seq(Msg) /\ Len(inbox) <= ClientCap
    BY FleetConstants DEF Init
  <2>2. searcher \in Version /\ fresh \in Version /\ fleet \in View \cup {None}
        /\ merged \in [Refresher -> View]
    BY ConstantTypes DEF Init
  <2>3. /\ pc \in [Refresher -> Over \cup Syncing \cup
                               {"ensure", "begin", "updated", "synced", "answer"}]
        /\ want \in [Refresher -> Member \cup {None}]
    BY DEF Init, Over
  <2>4. syncing \in BOOLEAN /\ changed \in BOOLEAN /\ banner \in BOOLEAN
        /\ reload = "idle" /\ client = "away"
    BY DEF Init
  <2>5. QED
    BY <1>1, <2>1, <2>2, <2>3, <2>4 DEF TypeOK
<1>3. QED
  BY <1>2 DEF Init, FleetInv, SyncFlagCleared, Refresher

(* A step of one refresh that does not write s.fleetSyncing.                *)
LEMMA RefreshMoves ==
  ASSUME FleetInv, NEW t \in Refresher, NEW p, pc' = [pc EXCEPT ![t] = p],
         p \in Over \cup Syncing \cup {"begin", "updated", "synced", "answer"},
         UNCHANGED <<syncing, want>>,
         pc[t] \in Syncing => p \in Syncing
  PROVE  /\ pc' \in [Refresher -> Over \cup Syncing \cup
                               {"ensure", "begin", "updated", "synced", "answer"}]
         /\ \A u \in Refresher : pc'[u] = "ensure" => want'[u] \in Member
         /\ SyncFlagCleared'
<1>1. pc \in [Refresher -> Over \cup Syncing \cup {"ensure", "begin", "updated", "synced", "answer"}]
  BY DEF FleetInv, TypeOK
<1>2. pc' \in [Refresher -> Over \cup Syncing \cup {"ensure", "begin", "updated", "synced", "answer"}]
  BY <1>1
<1>3. "ensure" \notin Over \cup Syncing \cup {"begin", "updated", "synced", "answer"}
  BY DEF Over, Syncing
<1>4. \A u \in Refresher : pc'[u] = "ensure" => want'[u] \in Member
  BY <1>1, <1>3 DEF FleetInv
<1>5. SyncFlagCleared'
  BY <1>1 DEF FleetInv, SyncFlagCleared
<1>6. QED
  BY <1>2, <1>4, <1>5

(* A message on the broadcast channel.                                     *)
LEMMA TellTyped ==
  ASSUME TypeOK, NEW msg \in Msg, Tell(msg)
  PROVE  bus' \in Seq(Msg) /\ Len(bus') <= BusCap
  BY OfferFits, FleetConstants DEF TypeOK, Tell

LEMMA RefreshKeepsInv ==
  ASSUME FleetInv, NEW t \in Refresher, RefreshStep(t) PROVE FleetInv'
<1> USE DEF FleetInv
<1>1. CASE Ensure(t)
  <2>1. /\ pc[t] = "ensure" /\ pc' = [pc EXCEPT ![t] = "begin"]
        /\ UNCHANGED <<idx, fleet, searcher, syncing, want, merged, changed, reload, fresh, bus,
                       client, inbox, banner>>
    BY <1>1 DEF Ensure, served, reloads, page
  <2>2. disk' \in View /\ stores' \in View
    <3>1. want[t] \in Member /\ disk \in View /\ stores \in View
      BY <2>1 DEF TypeOK
    <3>2. disk' \in View
      BY <1>1, <3>1, ConstantTypes DEF Ensure, View
    <3>3. disk'[want[t]] \in Version
      BY <3>1, <3>2 DEF View
    <3>4. stores' \in View
      BY <1>1, <3>1, <3>3 DEF Ensure, View
    <3>5. QED
      BY <3>2, <3>4
  <2>3. "ensure" \notin Syncing
    BY DEF Syncing
  <2>4. QED
    BY <2>1, <2>2, <2>3, RefreshMoves DEF TypeOK
<1>2. CASE EnsureFails(t)
  <2>1. "ensure" \notin Syncing /\ "done" \in Over
    BY DEF Syncing, Over
  <2>2. QED
    BY <1>2, <2>1, RefreshMoves DEF EnsureFails, TypeOK, served, reloads, page
<1>3. CASE BeginSync(t)
  <2>1. pc' \in [Refresher -> Over \cup Syncing \cup {"ensure", "begin", "updated", "synced", "answer"}]
    BY <1>3 DEF BeginSync, TypeOK, Syncing
  <2>2. pc'[t] \in Syncing
    BY <1>3 DEF BeginSync, TypeOK, Syncing
  <2>3. QED
    BY <1>3, <2>1, <2>2 DEF BeginSync, TypeOK, SyncFlagCleared, reloads, page
<1>4. CASE TellSyncing(t)
  <2>1. "announce" \in Syncing /\ "merge" \in Syncing
    BY DEF Syncing
  <2>2. bus' \in Seq(Msg) /\ Len(bus') <= BusCap
    BY <1>4, TellTyped DEF TellSyncing, Msg
  <2>3. QED
    BY <1>4, <2>1, <2>2, RefreshMoves DEF TellSyncing, TypeOK, served, reloads, page
<1>5. ASSUME NEW unopened \in SUBSET Member, NEW unread \in SUBSET Member,
             Merge(t, unopened, unread)
      PROVE  FleetInv'
  <2> DEFINE read == [m \in Member |-> IF m \in unread THEN 0 ELSE stores'[m]]
  <2>1. stores' \in View
    BY <1>5 DEF Merge, TypeOK, View
  <2>2. read \in View
    BY <2>1, ConstantTypes DEF View
  <2>3. /\ pc[t] = "merge" /\ merged' = [merged EXCEPT ![t] = read]
        /\ pc' = [pc EXCEPT ![t] = "install"]
        /\ UNCHANGED <<disk, idx, fleet, searcher, syncing, want, changed, reload, fresh, bus,
                       client, inbox, banner>>
    BY <1>5 DEF Merge, served, reloads, page
  <2> HIDE DEF read
  <2>4. "merge" \in Syncing /\ "install" \in Syncing
    BY DEF Syncing
  <2>5. QED
    BY <2>1, <2>2, <2>3, <2>4, RefreshMoves DEF TypeOK
<1>6. CASE MergeFails(t)
  <2>1. pc' \in [Refresher -> Over \cup Syncing \cup {"ensure", "begin", "updated", "synced", "answer"}]
    BY <1>6 DEF MergeFails, TypeOK, Over
  <2>2. QED
    BY <1>6, <2>1 DEF MergeFails, TypeOK, SyncFlagCleared, reloads, page
<1>7. CASE Install(t)
  <2>1. pc' \in [Refresher -> Over \cup Syncing \cup {"ensure", "begin", "updated", "synced", "answer"}]
    BY <1>7 DEF Install, TypeOK
  <2>2. QED
    BY <1>7, <2>1, ConstantTypes DEF Install, TypeOK, SyncFlagCleared, reloads, page
<1>8. CASE TellUpdated(t) \/ TellSynced(t) \/ Answer(t)
  <2>1. "updated" \notin Syncing /\ "synced" \notin Syncing /\ "answer" \notin Syncing
        /\ "done" \in Over
    BY DEF Syncing, Over
  <2>2. bus' \in Seq(Msg) /\ Len(bus') <= BusCap
    BY <1>8, TellTyped DEF TellUpdated, TellSynced, Answer, Msg
  <2>3. QED
    BY <1>8, <2>1, <2>2, RefreshMoves
    DEF TellUpdated, TellSynced, Answer, TypeOK, served, reloads, page
<1>9. QED
  BY <1>1, <1>2, <1>3, <1>4, <1>5, <1>6, <1>7, <1>8 DEF RefreshStep

(* Reloads, index runs and the page touch neither refreshes nor the flag.   *)
LEMMA OtherKeepsInv ==
  ASSUME FleetInv, UNCHANGED <<pc, want, syncing>>, TypeOK' PROVE FleetInv'
  BY DEF FleetInv, SyncFlagCleared

LEMMA NextFleetInv == FleetInv /\ [Next]_vars => FleetInv'
<1> SUFFICES ASSUME FleetInv, [Next]_vars PROVE FleetInv'
  OBVIOUS
<1>0. TypeOK
  BY DEF FleetInv
<1>1. CASE Wire
  <2>1. "begin" \notin Over /\ "idle" \notin Syncing
    BY DEF Over, Syncing
  <2>2. QED
    BY <1>0, <1>1, <2>1, ConstantTypes, RefreshMoves DEF Wire, FleetInv, TypeOK, served, reloads, page
<1>2. ASSUME NEW t \in Post, NEW m \in Member, Request(t, m) PROVE FleetInv'
  <2>1. t \in Refresher /\ "ensure" \notin Syncing /\ "idle" \notin Syncing
    BY ConstantTypes DEF Syncing
  <2>2. /\ pc[t] = "idle" /\ pc' = [pc EXCEPT ![t] = "ensure"] /\ want' = [want EXCEPT ![t] = m]
        /\ UNCHANGED <<disk, idx, fleet, searcher, syncing, merged, stores, changed, reload, fresh,
                       bus, client, inbox, banner>>
    BY <1>2 DEF Request, served, reloads, page
  <2>3. TypeOK'
    BY <1>0, <2>1, <2>2 DEF TypeOK
  <2>4. SyncFlagCleared'
    BY <1>0, <2>1, <2>2 DEF FleetInv, TypeOK, SyncFlagCleared
  <2>5. \A u \in Refresher : pc'[u] = "ensure" => want'[u] \in Member
    BY <1>0, <2>1, <2>2 DEF FleetInv, TypeOK
  <2>6. QED
    BY <2>3, <2>4, <2>5 DEF FleetInv
<1>3. ASSUME NEW t \in Refresher, RefreshStep(t) PROVE FleetInv'
  BY <1>3, RefreshKeepsInv
<1>4. ASSUME NEW m \in Member, Reindex(m) PROVE FleetInv'
  <2>1. disk' \in View
    <3>1. disk \in View
      BY <1>0 DEF TypeOK
    <3>2. disk[m] + 1 \in Version
      BY <1>4, FleetConstants DEF Reindex, Version
    <3>3. QED
      BY <1>4, <3>1, <3>2 DEF Reindex, View
  <2>2. QED
    BY <1>0, <1>4, <2>1, OtherKeepsInv DEF Reindex, TypeOK, served, refreshes, page
<1>5. CASE ReloadStep
  <2>1. disk[Home] \in Version
    BY <1>0, FleetConstants DEF TypeOK, View
  <2>2. CASE ReloadOpen \/ ReloadFails \/ ReloadSearcher
    BY <1>0, <2>1, <2>2, OtherKeepsInv
    DEF ReloadOpen, ReloadFails, ReloadSearcher, TypeOK, served, refreshes, page
  <2>3. CASE ReloadIndex
    <3>1. [Nothing EXCEPT ![Home] = fresh] \in View
      BY <1>0, ConstantTypes DEF TypeOK, View
    <3>2. QED
      BY <1>0, <2>3, <3>1, OtherKeepsInv DEF ReloadIndex, TypeOK, refreshes, page
  <2>4. CASE ReloadTell
    <3>1. bus' \in Seq(Msg) /\ Len(bus') <= BusCap
      BY <1>0, <2>4, TellTyped DEF ReloadTell, Msg
    <3>2. QED
      BY <1>0, <2>4, <3>1, ConstantTypes, OtherKeepsInv
      DEF ReloadTell, TypeOK, served, refreshes, page
  <2>5. QED
    BY <1>5, <2>2, <2>3, <2>4 DEF ReloadStep
<1>6. CASE Greet \/ Register \/ Disconnect
  <2>1. banner' \in BOOLEAN
    <3>1. banner \in BOOLEAN
      BY <1>0 DEF TypeOK
    <3>2. QED
      BY <1>6, <3>1 DEF Greet, Register, Disconnect
  <2>2. inbox' \in Seq(Msg) /\ Len(inbox') <= ClientCap
        /\ client' \in {"away", "greeted", "listening"}
    <3>1. inbox' = inbox \/ inbox' = <<>>
      BY <1>6 DEF Greet, Register, Disconnect
    <3>2. client' \in {"away", "greeted", "listening"}
      BY <1>6 DEF Greet, Register, Disconnect
    <3>3. inbox \in Seq(Msg) /\ Len(inbox) <= ClientCap
      BY <1>0 DEF TypeOK
    <3>4. <<>> \in Seq(Msg) /\ Len(<<>>) <= ClientCap
      BY FleetConstants
    <3>5. QED
      BY <3>1, <3>2, <3>3, <3>4
  <2>3. UNCHANGED <<disk, served, refreshes, reloads, bus>>
    BY <1>6 DEF Greet, Register, Disconnect
  <2>4. QED
    BY <1>0, <2>1, <2>2, <2>3, OtherKeepsInv DEF TypeOK, served, refreshes, reloads
<1>7. CASE FanOut
  <2>1. bus' \in Seq(Msg) /\ Len(bus') <= BusCap /\ Head(bus) \in Msg
    BY <1>0, <1>7, FleetConstants DEF FanOut, TypeOK
  <2>2. inbox' \in Seq(Msg) /\ Len(inbox') <= ClientCap
    BY <1>0, <1>7, <2>1, OfferFits, FleetConstants DEF FanOut, TypeOK
  <2>3. QED
    BY <1>0, <1>7, <2>1, <2>2, OtherKeepsInv DEF FanOut, TypeOK, served, refreshes, reloads
<1>8. CASE Receive
  <2>1. inbox' \in Seq(Msg) /\ Len(inbox') <= ClientCap
    BY <1>0, <1>8, FleetConstants DEF Receive, TypeOK
  <2>2. banner' \in BOOLEAN
    BY <1>0, <1>8 DEF Receive, TypeOK
  <2>3. QED
    BY <1>0, <1>8, <2>1, <2>2, OtherKeepsInv DEF Receive, TypeOK, served, refreshes, reloads
<1>9. CASE UNCHANGED vars
  BY <1>0, <1>9, OtherKeepsInv DEF vars, TypeOK, served, refreshes, reloads, page
<1>10. QED
  BY <1>1, <1>2, <1>3, <1>4, <1>5, <1>6, <1>7, <1>8, <1>9 DEF Next

THEOREM FleetInvariant == Spec => []FleetInv
  BY InitFleetInv, NextFleetInv, PTL DEF Spec

(* Type correctness; neither channel exceeds its capacity.                 *)
THEOREM FleetTypes == Spec => []TypeOK
<1>1. FleetInv => TypeOK
  BY DEF FleetInv
<1>2. QED
  BY <1>1, FleetInvariant, PTL

(* However many refreshes overlap and fail, the flag a connecting page is
   shown does not outlive them. *)
THEOREM FlagDoesNotStick == Spec => []SyncFlagCleared
<1>1. FleetInv => SyncFlagCleared
  BY DEF FleetInv
<1>2. QED
  BY <1>1, FleetInvariant, PTL

(* Without index runs of the members the served graph, its roots and its
   searchers stay in step, also when refreshes overlap and fail: what breaks
   InSync is the reload. *)
THEOREM InSyncWithoutReload ==
  ASSUME "reindex" \notin Happens PROVE Spec => []InSync
<1>1. Init => Unreloaded
  <2> SUFFICES ASSUME Init PROVE Unreloaded
    OBVIOUS
  <2>1. stores = [m \in Member |-> IF m = Home THEN 1 ELSE 0] /\ idx = stores
    BY DEF Init
  <2>2. idx[Home] = 1
    BY <2>1, FleetConstants
  <2>3. searcher = 1 /\ fleet = None /\ ~changed /\ reload = "idle"
    BY DEF Init
  <2>4. QED
    BY <2>2, <2>3 DEF Unreloaded, InSync
<1>2. ASSUME FleetInv, Unreloaded, [Next]_vars PROVE Unreloaded'
  <2>1. ASSUME UNCHANGED <<idx, fleet, searcher, changed, reload>> PROVE Unreloaded'
    BY <1>2, <2>1 DEF Unreloaded, InSync
  <2>2. ASSUME NEW t \in Refresher, Install(t) PROVE Unreloaded'
    <3>1. /\ idx' = merged[t] /\ fleet' = merged[t]
          /\ UNCHANGED <<searcher, changed, reload>>
      BY <2>2 DEF Install, reloads
    <3>2. fleet' # None
      BY <1>2, <3>1, NoneIsNoView DEF FleetInv, TypeOK
    <3>3. QED
      BY <1>2, <3>1, <3>2 DEF Unreloaded, InSync
  <2>3. ASSUME NEW t \in Refresher, RefreshStep(t), ~Install(t) PROVE Unreloaded'
    <3>1. UNCHANGED <<idx, fleet, searcher, changed, reload>>
      BY <2>3
      DEF RefreshStep, Ensure, EnsureFails, BeginSync, TellSyncing, Merge, MergeFails, TellUpdated,
          TellSynced, Answer, served, reloads
    <3>2. QED
      BY <2>1, <3>1
  <2>4. CASE \/ Wire \/ \E t \in Post, m \in Member : Request(t, m)
             \/ Greet \/ Register \/ Disconnect \/ FanOut \/ Receive \/ UNCHANGED vars
    <3>1. UNCHANGED <<idx, fleet, searcher, changed, reload>>
      BY <2>4
      DEF Wire, Request, Greet, Register, Disconnect, FanOut, Receive, vars, served, reloads
    <3>2. QED
      BY <2>1, <3>1
  <2>5. /\ \A m \in Member : ~Reindex(m)
        /\ ~ReloadStep
    BY <1>2
    DEF Unreloaded, Reindex, ReloadStep, ReloadOpen, ReloadFails, ReloadSearcher, ReloadIndex,
        ReloadTell
  <2>6. QED
    BY <1>2, <2>2, <2>3, <2>4, <2>5 DEF Next
<1>3. Unreloaded => InSync
  BY DEF Unreloaded
<1>4. FleetInv /\ Unreloaded /\ [Next]_vars => Unreloaded'
  BY <1>2
<1>5. QED
  BY <1>1, <1>3, <1>4, FleetInvariant, PTL DEF Spec

-----------------------------------------------------------------------------
(* Members stay merged.                                                    *)

(* Files can be read, requests come one at a time and are waited for, and no
   member is indexed again. *)
Undisturbed == Happens \cap {"overlap", "failure", "cancel", "reindex"} = {}

(* One refresh at a time, none before the first: what it read is all that was
   opened, and all that is served was opened. *)
OneByOne ==
  /\ ~changed /\ reload = "idle"
  /\ \A t, u \in Refresher : pc[t] \notin Over /\ pc[u] \notin Over => t = u
  /\ pc[Boot] = "idle" => \A t \in Refresher : pc[t] = "idle"
  /\ \A m \in Member : idx[m] # 0 => stores[m] # 0
  /\ \A t \in Refresher, m \in Member :
       pc[t] = "install" => (merged[t][m] # 0 <=> stores[m] # 0)

LEMMA InitOneByOne == Init => OneByOne
<1> SUFFICES ASSUME Init PROVE OneByOne
  OBVIOUS
<1>1. pc = [t \in Refresher |-> "idle"] /\ idx = stores /\ ~changed /\ reload = "idle"
  BY DEF Init
<1>2. \A t \in Refresher : pc[t] = "idle"
  BY <1>1
<1>3. QED
  BY <1>1, <1>2 DEF OneByOne, Over

(* The steps of a refresh one after the other: stores are only opened, the
   merge reads all of them, and the graph that is installed has them. *)
LEMMA RefreshOneByOne ==
  ASSUME FleetInv, OneByOne, Undisturbed, NEW t \in Refresher, RefreshStep(t)
  PROVE  OneByOne' /\ \A m \in Member : idx[m] # 0 => idx'[m] # 0
<1>0. /\ pc \in [Refresher -> Over \cup Syncing \cup {"ensure", "begin", "updated", "synced", "answer"}]
      /\ merged \in [Refresher -> View] /\ stores \in View
  BY DEF FleetInv, TypeOK
<1>1. ASSUME NEW p, pc' = [pc EXCEPT ![t] = p], p # "idle", pc[t] \notin Over,
             UNCHANGED <<changed, reload>>,
             \A m \in Member : idx'[m] # 0 => stores'[m] # 0,
             p = "install" => \A m \in Member : merged'[t][m] # 0 <=> stores'[m] # 0
      PROVE  OneByOne'
  <2>1. \A u \in Refresher : u # t => pc[u] \in Over /\ pc'[u] = pc[u]
    BY <1>0, <1>1 DEF OneByOne
  <2>2. pc'[t] = p
    BY <1>0, <1>1
  <2>3. \A u \in Refresher : pc'[u] \notin Over => u = t
    BY <2>1
  <2>4. pc'[Boot] # "idle"
    <3>1. pc[Boot] # "idle"
      BY <1>1 DEF OneByOne, Over
    <3>2. QED
      BY <1>1, <2>1, <2>2, <3>1, ConstantTypes
  <2>5. \A u \in Refresher : pc'[u] = "install" => u = t
    BY <2>3 DEF Over
  <2>6. QED
    BY <1>1, <2>2, <2>3, <2>4, <2>5 DEF OneByOne
<1>2. CASE Ensure(t)
  <2>1. /\ pc[t] = "ensure" /\ pc' = [pc EXCEPT ![t] = "begin"]
        /\ UNCHANGED <<idx, changed, reload>>
    BY <1>2 DEF Ensure, served, reloads
  <2>2. \A m \in Member : stores[m] # 0 => stores'[m] # 0
    BY <1>0, <1>2 DEF Ensure, View
  <2>3. OneByOne'
    BY <1>1, <2>1, <2>2 DEF OneByOne, Over
  <2>4. QED
    BY <2>1, <2>3
<1>3. CASE EnsureFails(t) \/ MergeFails(t)
  BY <1>3 DEF EnsureFails, MergeFails, Undisturbed
<1>4. CASE BeginSync(t) \/ TellSyncing(t) \/ TellUpdated(t) \/ TellSynced(t) \/ Answer(t)
  <2>1. pc[t] \in {"begin", "announce", "updated", "synced", "answer"}
        /\ UNCHANGED <<idx, stores, changed, reload>>
    BY <1>4 DEF BeginSync, TellSyncing, TellUpdated, TellSynced, Answer, served, reloads
  <2>2. \E p \in {"announce", "merge", "synced", "done", "answer"} : pc' = [pc EXCEPT ![t] = p]
    BY <1>4 DEF BeginSync, TellSyncing, TellUpdated, TellSynced, Answer
  <2>3. OneByOne'
    BY <1>1, <2>1, <2>2 DEF OneByOne, Over
  <2>4. QED
    BY <2>1, <2>3
<1>5. ASSUME NEW unopened \in SUBSET Member, NEW unread \in SUBSET Member,
             Merge(t, unopened, unread)
      PROVE  OneByOne' /\ UNCHANGED idx
  <2>1. unread = {} /\ unopened = {}
    BY <1>5 DEF Merge, Undisturbed
  <2>2. /\ pc[t] = "merge" /\ pc' = [pc EXCEPT ![t] = "install"]
        /\ stores' = [m \in Member |-> IF stores[m] = 0 /\ m \notin unopened THEN disk[m] ELSE stores[m]]
        /\ merged' = [merged EXCEPT ![t] = [m \in Member |-> IF m \in unread THEN 0 ELSE stores'[m]]]
        /\ UNCHANGED <<idx, changed, reload>>
    BY <1>5 DEF Merge, served, reloads
  <2>3. \A m \in Member : stores[m] # 0 => stores'[m] # 0
    BY <2>2
  <2>4. \A m \in Member : merged'[t][m] = stores'[m]
    BY <1>0, <2>1, <2>2
  <2>5. QED
    BY <1>1, <2>2, <2>3, <2>4 DEF OneByOne, Over
<1>6. CASE Install(t)
  <2>1. /\ pc[t] = "install" /\ pc' = [pc EXCEPT ![t] = "updated"] /\ idx' = merged[t]
        /\ UNCHANGED <<stores, changed, reload>>
    BY <1>6 DEF Install, reloads
  <2>2. \A m \in Member : stores[m] # 0 => idx'[m] # 0
    BY <2>1 DEF OneByOne
  <2>3. \A m \in Member : idx'[m] # 0 => stores[m] # 0
    BY <2>1 DEF OneByOne
  <2>4. QED
    BY <1>1, <2>1, <2>2, <2>3 DEF OneByOne, Over
<1>7. QED
  BY <1>2, <1>3, <1>4, <1>5, <1>6 DEF RefreshStep

(* Every other step leaves the served graph alone; a request begins when no
   refresh is under way. *)
LEMMA StepOneByOne ==
  ASSUME FleetInv, OneByOne, Undisturbed, [Next]_vars
  PROVE  OneByOne' /\ \A m \in Member : idx[m] # 0 => idx'[m] # 0
<1>0. pc \in [Refresher -> Over \cup Syncing \cup {"ensure", "begin", "updated", "synced", "answer"}]
  BY DEF FleetInv, TypeOK
<1>1. ASSUME NEW t \in Refresher, RefreshStep(t)
      PROVE  OneByOne' /\ \A m \in Member : idx[m] # 0 => idx'[m] # 0
  BY <1>1, RefreshOneByOne
<1>2. ASSUME NEW t \in Refresher, NEW p, pc' = [pc EXCEPT ![t] = p], Quiet,
             p \notin {"idle", "install"}, t = Boot \/ pc[Boot] # "idle",
             UNCHANGED <<idx, stores, merged, changed, reload>>
      PROVE  OneByOne'
  <2>1. \A u \in Refresher : pc'[u] \notin Over => u = t
    BY <1>0, <1>2 DEF Quiet
  <2>2. pc'[Boot] # "idle"
    BY <1>0, <1>2, ConstantTypes
  <2>3. \A u \in Refresher : pc'[u] # "install"
    BY <1>0, <1>2 DEF Quiet, Over
  <2>4. QED
    BY <1>2, <2>1, <2>2, <2>3 DEF OneByOne
<1>3. CASE Wire
  <2>1. pc[Boot] = "idle" /\ pc' = [pc EXCEPT ![Boot] = "begin"]
        /\ UNCHANGED <<idx, stores, merged, changed, reload>>
    BY <1>3 DEF Wire, served, reloads
  <2>2. Quiet
    BY <2>1 DEF OneByOne, Quiet, Over
  <2>3. QED
    BY <1>2, <2>1, <2>2, ConstantTypes
<1>4. ASSUME NEW t \in Post, NEW m \in Member, Request(t, m)
      PROVE  OneByOne' /\ UNCHANGED idx
  <2>1. pc' = [pc EXCEPT ![t] = "ensure"] /\ Quiet /\ pc[Boot] # "idle"
        /\ UNCHANGED <<idx, stores, merged, changed, reload>>
    BY <1>4 DEF Request, Wired, Undisturbed, served, reloads
  <2>2. QED
    BY <1>2, <2>1, ConstantTypes
<1>5. /\ \A m \in Member : ~Reindex(m)
      /\ ~ReloadStep
  BY DEF OneByOne, Undisturbed, Reindex, ReloadStep, ReloadOpen, ReloadFails, ReloadSearcher,
         ReloadIndex, ReloadTell
<1>6. CASE Greet \/ Register \/ Disconnect \/ FanOut \/ Receive \/ UNCHANGED vars
  <2>1. UNCHANGED <<pc, idx, stores, merged, changed, reload>>
    BY <1>6 DEF Greet, Register, Disconnect, FanOut, Receive, vars, served, refreshes, reloads
  <2>2. QED
    BY <2>1 DEF OneByOne
<1>7. QED
  BY <1>1, <1>3, <1>4, <1>5, <1>6 DEF Next

(* Undisturbed, no refresh takes a member out of the served graph, for any
   fleet and any number of requests: handleFleetActive's "every
   previously-resolved member stays merged in too". *)
THEOREM MembersStayMerged ==
  ASSUME Undisturbed PROVE Spec => MembersStay
<1> DEFINE A == \A m \in Member : idx[m] # 0 => idx'[m] # 0
<1>1. Init => OneByOne
  BY InitOneByOne
<1>2. FleetInv /\ OneByOne /\ [Next]_vars => OneByOne' /\ [A]_idx
  BY StepOneByOne
<1>3. QED
  BY <1>1, <1>2, FleetInvariant, PTL DEF Spec, MembersStay

=============================================================================
